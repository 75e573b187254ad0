--------------------------- MODULE DatabasesProofs ---------------------------
(***************************************************************************)
(* That a database is in the networks of the services bound to it, and     *)
(* that what replicas were given still opens what it is for, for any       *)
(* number of services and in every scenario.                               *)
(***************************************************************************)
EXTENDS Databases, WellFoundedInduction, TLAPS

Words == {"password"} \cup Services
ReplicaPlaces == {"token", "mint token", "database env", "create replica", "attach", "record"}
PasswordPlaces == {"password", "mint password"}
DatabasePlaces == {"idle", "database", "create database", "put", "put and leave", "join", "services", "next"}
Places == ReplicaPlaces \cup PasswordPlaces \cup DatabasePlaces

Rows == {NoRow, Pending} \cup {[status |-> "running", container |-> i] : i \in Ids}
ServiceRows == [exists : BOOLEAN, bound : BOOLEAN, replica : Ids \cup {None}]
Made == [of : {"database"} \cup Services, running : BOOLEAN, nets : SUBSET Services, password : Nat, token : Nat]
Containers == {NoContainer} \cup Made
Held == [at : Places, service : {"database"} \cup Services, bound : BOOLEAN, base : Rows,
         password : Nat, token : Nat, id : Ids \cup {None}, todo : SUBSET (Services \X BOOLEAN)]

Typed ==
    /\ scenario \in Scenarios /\ up \in BOOLEAN /\ cut \in BOOLEAN
    /\ row \in Rows /\ services \in [Services -> ServiceRows]
    /\ containers \in [Ids -> Containers] /\ pass \in Held
    /\ secret \in [Words -> Nat] /\ minted \in Nat /\ volume \in Nat

\* No service is bound later than from its first row on.
Steady == "bind" \notin scenario.ops

\* The row of s is there and, if it is bound, b says so.
Said(s, b) == s \in Services /\ services[s].exists /\ (Steady /\ services[s].bound => b)

\* An id that a row or the pass holds as the database's.
ForDatabase(i) == i # None => containers[i].of \in {"database", "nothing"}

\* What the pass holds fits what is there.
Fits(g) ==
    /\ g.at \in ReplicaPlaces => g.service \in Services
    /\ g.at \in DatabasePlaces => g.service = "database"
    /\ g.service # "database" => Said(g.service, g.bound)
    /\ g.at \in {"put", "join"} => g.base.container # None
    /\ g.at = "put and leave" => g.base = Pending
    /\ g.at = "join" => row.container \in {None, g.base.container}
    /\ ForDatabase(g.base.container)
    /\ g.at \in {"attach", "record"} <=> g.id # None
    /\ g.id # None => containers[g.id].of = g.service /\ \A s \in Services : services[s].replica # g.id
    /\ \A p \in g.todo : Said(p[1], p[2])

Recorded == \A s \in Services : services[s].replica # None =>
                services[s].exists /\ containers[services[s].replica].of \in {s, "nothing"}
OneDatabase == \A i, j \in Ids : containers[i].of = "database" /\ containers[j].of = "database" => i = j

Sound == Recorded /\ OneDatabase /\ ForDatabase(row.container) /\ Fits(pass) /\ (~up => pass = Idle)

\* The service has a replica, or the pass is about to record one.
Present(s) == services[s].replica # None \/ (pass.at = "record" /\ pass.service = s)

\* A bound service that is present shares a network with the database that runs.
Joining ==
    Steady /\ up => \A s \in Services :
        services[s].bound /\ Running(row.container) /\ Present(s) => Joined(s) \/ pass.at = "join" \/ cut

\* What the pass holds of passwords and tokens is what is stored.
Honest(g) ==
    /\ g.token # None => g.service \in Services /\ g.token = secret[g.service]
    /\ g.password # None => g.password = secret["password"]
    /\ g.at = "mint token" => secret[g.service] = None
    /\ g.at = "mint password" => secret["password"] = None
    /\ g.at = "next" => g.token = None
    /\ g.service # "database" /\ g.at \notin {"token", "mint token"} => g.token # None
    /\ g.at = "create database" => g.password # None

Given(c) ==
    /\ c.of \in Services => c.token # None /\ c.token = secret[c.of]
    /\ c.of \in Services /\ c.password # None => c.password = secret["password"]

Secrets ==
    /\ volume # None => volume = secret["password"]
    /\ Honest(pass)
    /\ \A i \in Ids : Given(containers[i])

DatabasesInv == Typed /\ Sound /\ Joining /\ Secrets

----------------------------------------------------------------------------
(* Ids, records and what follows from the types *)

\* The least id that is free is one of the free ids.
LEMMA FreshIs ==
    ASSUME Typed, FreshIds # {}
    PROVE  Fresh \in FreshIds /\ Fresh \in Ids
  <1>1. scenario.containers \in 0..MaxContainers /\ MaxContainers \in Nat
    BY DatabasesAssumption DEF Typed, Scenario
  <1>2. FreshIds \subseteq Nat /\ FreshIds \subseteq Ids
    BY <1>1 DEF FreshIds, Ids
  <1>3. \E n \in FreshIds : \A m \in FreshIds : n <= m
    <2>1. PICK n \in FreshIds : \A m \in FreshIds : <<m, n>> \notin OpToRel(<, Nat)
      BY <1>2, NatLessThanWellFounded, WFMin
    <2>2. \A m \in FreshIds : ~(m < n)
      BY <1>2, <2>1 DEF OpToRel
    <2> QED BY <1>2, <2>2
  <1> QED BY <1>2, <1>3 DEF Fresh, Min

\* Nothing refers to the id of the next container.
LEMMA FreshFree ==
    ASSUME Typed, FreshIds # {}
    PROVE  /\ Fresh \in Ids /\ Fresh # None /\ containers[Fresh] = NoContainer /\ Fresh # row.container
           /\ pass.base.container # Fresh /\ pass.id # Fresh
           /\ \A s \in Services : services[s].replica # Fresh
  BY FreshIs DEF FreshIds, Ids, None

\* The container of the database that runs, when there is one at all.
LEMMA LastIs ==
    ASSUME Typed, OneDatabase, NEW i \in Of("database")
    PROVE  Max(Of("database")) = i
  <1>1. Of("database") = {i} /\ i \in Nat
    BY DEF OneDatabase, Of, Ids
  <1>2. \A x \in {i} : (\A y \in {i} : x >= y)
    BY <1>1
  <1> QED BY <1>1, <1>2 DEF Max

\* The names of the database, of the services and of the secrets differ.
LEMMA Names == "password" \notin Services /\ "database" \notin Services /\ "nothing" \notin Services
  BY DatabasesAssumption

\* Where the initial values lie.
LEMMA Rooms ==
    /\ NoRow \in Rows /\ Pending \in Rows
    /\ \A i \in Ids : [status |-> "running", container |-> i] \in Rows
    /\ \A r \in Rows : r.container \in Ids \cup {None} /\ (r.container # None => r.status = "running")
    /\ None \notin Ids /\ None \in Nat
    /\ NoServiceRow \in ServiceRows /\ NoRow.container = None /\ Pending.container = None
    /\ NoContainer \in Containers /\ NoContainer.of = "nothing" /\ ~NoContainer.running
    /\ \A c \in Containers : c.of = "nothing" <=> c = NoContainer
  <1>1. None \notin Ids /\ None \in Nat
    BY DEF Ids, None
  <1>2. NoRow.container = None /\ Pending.container = None
    BY DEF NoRow, Pending
  <1>3. ASSUME NEW r \in Rows PROVE r.container \in Ids \cup {None} /\ (r.container # None => r.status = "running")
    <2>1. CASE r \in {NoRow, Pending}
      BY <1>2, <2>1
    <2>2. CASE \E i \in Ids : r = [status |-> "running", container |-> i]
      BY <2>2
    <2> QED BY <2>1, <2>2 DEF Rows
  <1>4. NoContainer.of = "nothing" /\ ~NoContainer.running
    BY DEF NoContainer
  <1>5. \A c \in Made : c.of # "nothing"
    BY Names DEF Made
  <1>6. NoServiceRow \in ServiceRows
    BY <1>1 DEF NoServiceRow, ServiceRows
  <1> QED BY <1>1, <1>2, <1>3, <1>4, <1>5, <1>6 DEF Rows, Containers

\* What the pass holds before it begins.
LEMMA IdleIs ==
    /\ Idle \in Held /\ Idle.at = "idle" /\ Idle.service = "database" /\ Idle.base = NoRow
    /\ Idle.id = None /\ Idle.todo = {} /\ Idle.token = None /\ Idle.password = None
  <1>1. "idle" \in Places /\ {} \in SUBSET (Services \X BOOLEAN)
    BY DEF Places, DatabasePlaces
  <1>2. Idle \in Held
    BY <1>1, Rooms DEF Idle, Held
  <1> QED BY <1>2 DEF Idle

\* What a row or the pass refers to.
LEMMA Refer ==
    ASSUME Typed
    PROVE  /\ row.container \in Ids \cup {None} /\ pass.base.container \in Ids \cup {None}
           /\ pass.id \in Ids \cup {None}
           /\ \A s \in Services : services[s].replica \in Ids \cup {None}
           /\ \A i \in Ids : containers[i] \in Containers
  BY Rooms DEF Typed, Held, ServiceRows

----------------------------------------------------------------------------
(* A step of the pass, which at most joins containers to networks *)

\* Nothing of the containers changes but the networks they have joined.
Grown ==
    /\ containers' \in [Ids -> Containers]
    /\ \A i \in Ids : /\ containers'[i].of = containers[i].of /\ containers'[i].running = containers[i].running
                      /\ containers'[i].password = containers[i].password
                      /\ containers'[i].token = containers[i].token
                      /\ containers[i].nets \subseteq containers'[i].nets

LEMMA GrownOrNot == ASSUME Typed, UNCHANGED containers PROVE Grown
  BY DEF Typed, Grown

\* A step that writes nothing but what the pass holds, and joins at most,
\* keeps the types, what the pass holds, and who has joined.
LEMMA PassMoves ==
    ASSUME Typed, Sound, Joining, up, NEW g \in Held, pass' = g, Grown,
           UNCHANGED <<row, services, up, scenario>>, cut' \in BOOLEAN, cut => cut',
           secret' \in [Words -> Nat], minted' \in Nat, volume' \in Nat,
           Fits(g), g.id # None => g.id = pass.id,
           g.at = "record" /\ services[g.service].bound /\ Running(row.container) /\ Steady => Joined(g.service)',
           pass.at = "join" /\ ~cut' => \A s \in Services :
               services[s].exists /\ services[s].bound /\ Running(row.container) => Joined(s)'
    PROVE  Typed' /\ Sound' /\ Joining'
  <1>1. Typed'
    BY DEF Typed, Grown
  <1>2. /\ row.container \in Ids \cup {None} /\ g.base.container \in Ids \cup {None} /\ g.id \in Ids \cup {None}
        /\ \A s \in Services : services[s].replica \in Ids \cup {None}
    BY Rooms DEF Typed, Held, ServiceRows
  <1>3. \A i \in Ids \cup {None} : ForDatabase(i)' <=> ForDatabase(i)
    BY DEF ForDatabase, Grown
  <1>4. Recorded' /\ OneDatabase' /\ ForDatabase(row.container)'
    BY <1>2, <1>3 DEF Sound, Recorded, OneDatabase, Grown
  <1>5. Fits(pass)'
    <2>1. g.id # None => containers'[g.id].of = containers[g.id].of
      BY <1>2 DEF Grown
    <2>2. Fits(g)'
      BY <1>2, <1>3, <2>1 DEF Fits, Said, Steady
    <2> QED BY <2>2 DEF Fits, ForDatabase, Said, Steady
  <1>6. Joining'
    <2>1. \A s \in Services : Joined(s) => Joined(s)'
      BY <1>2 DEF Joined, Running, Grown
    <2>2. Running(row.container)' = Running(row.container)
      BY <1>2 DEF Running, Grown
    <2>3. ASSUME Steady, NEW s \in Services, services[s].bound, Running(row.container), Present(s)'
          PROVE  Joined(s)' \/ g.at = "join" \/ cut'
      <3>1. CASE g.at = "record" /\ g.service = s
        BY <2>3, <3>1
      <3>2. CASE ~(g.at = "record" /\ g.service = s)
        <4>1. services[s].replica # None
          BY <2>3, <3>2 DEF Present
        <4>2. Joined(s) \/ pass.at = "join" \/ cut
          BY <2>3, <4>1 DEF Joining, Present
        <4>3. services[s].exists
          BY <4>1 DEF Sound, Recorded
        <4> QED BY <2>1, <2>3, <4>2, <4>3
      <3> QED BY <3>1, <3>2
    <2> QED BY <2>2, <2>3 DEF Joining, Steady
  <1> QED BY <1>1, <1>4, <1>5, <1>6 DEF Sound

\* What is joined says nothing of secrets.
LEMMA SecretsKeep ==
    ASSUME Secrets, Grown, NEW g, pass' = g, Honest(g), UNCHANGED <<volume, secret>>
    PROVE  Secrets'
  <1>1. Honest(pass)'
    BY DEF Honest
  <1>2. \A i \in Ids : Given(containers[i]) => Given(containers[i])'
    BY DEF Given, Grown
  <1> QED BY <1>1, <1>2 DEF Secrets

\* A step that writes nothing but what the pass holds.
LEMMA PassKeeps ==
    ASSUME DatabasesInv, up, NEW g \in Held, pass' = g,
           UNCHANGED <<row, services, containers, volume, secret, minted, cut, up, scenario>>,
           Fits(g), g.id # None => g.id = pass.id, g.at # "record", pass.at # "join", Honest(g)
    PROVE  DatabasesInv'
  <1>1. Grown
    BY GrownOrNot DEF DatabasesInv
  <1>2. Typed' /\ Sound' /\ Joining'
    BY <1>1, PassMoves DEF DatabasesInv, Typed
  <1>3. Secrets'
    BY <1>1, SecretsKeep DEF DatabasesInv
  <1> QED BY <1>2, <1>3 DEF DatabasesInv

\* The pass has nothing in hand but what it has still to do.
Rest(g) ==
    /\ g \in Held /\ g.at \in {"idle", "services", "next"} /\ g.service = "database" /\ g.base = NoRow
    /\ g.id = None /\ g.token = None /\ g.password = None /\ \A p \in g.todo : Said(p[1], p[2])

LEMMA RestFits ==
    ASSUME NEW g, Rest(g)
    PROVE  Fits(g) /\ Honest(g)
  <1>1. g.at \in DatabasePlaces /\ g.at \notin ReplicaPlaces
    BY DEF Rest, DatabasePlaces, ReplicaPlaces
  <1>2. ForDatabase(g.base.container)
    BY Rooms DEF Rest, ForDatabase
  <1>3. Fits(g)
    BY <1>1, <1>2 DEF Rest, Fits
  <1>4. Honest(g)
    BY DEF Rest, Honest
  <1> QED BY <1>3, <1>4

LEMMA IdleRests == Rest(Idle)
  BY IdleIs DEF Rest

\* The pass goes on to its next service, or to the services.
LEMMA OverRests ==
    ASSUME DatabasesInv, Over
    PROVE  \E g : pass' = g /\ Rest(g)
  <1>1. PICK x \in {"services", "next"} : pass' = [Idle EXCEPT !.at = x, !.todo = pass.todo]
    BY DEF Over
  <1>2. PICK g : g = [Idle EXCEPT !.at = x, !.todo = pass.todo]
    OBVIOUS
  <1>3. x \in Places /\ pass.todo \in SUBSET (Services \X BOOLEAN) /\ \A p \in pass.todo : Said(p[1], p[2])
    BY DEF Places, DatabasePlaces, DatabasesInv, Typed, Held, Sound, Fits
  <1>4. /\ g \in Held /\ g.at = x /\ g.todo = pass.todo /\ g.service = "database" /\ g.id = None /\ g.base = NoRow
        /\ g.token = None /\ g.password = None
    BY <1>2, <1>3, IdleIs DEF Held
  <1> QED BY <1>1, <1>2, <1>3, <1>4 DEF Rest

\* A pass that goes on or ends, and leaves everything else.
LEMMA PassRests ==
    ASSUME DatabasesInv, up, Over \/ Abort, pass.at # "join",
           UNCHANGED <<row, services, containers, volume, secret, minted, cut, up, scenario>>
    PROVE  DatabasesInv'
  <1>1. PICK g : pass' = g /\ Rest(g)
    <2>1. CASE Over
      BY <2>1, OverRests
    <2>2. CASE Abort
      BY <2>2, IdleRests DEF Abort
    <2> QED BY <2>1, <2>2
  <1>2. g \in Held /\ g.at # "record" /\ g.id = None
    BY <1>1 DEF Rest
  <1> QED BY <1>1, <1>2, RestFits, PassKeeps

\* All that the pass holds but where it is.
Same(g, r) ==
    /\ g.service = r.service /\ g.bound = r.bound /\ g.base = r.base
    /\ g.password = r.password /\ g.token = r.token /\ g.id = r.id /\ g.todo = r.todo

\* A jump changes where the pass is, and nothing else it holds.
LEMMA GotoMoves ==
    ASSUME Typed, NEW x \in Places, Goto(x)
    PROVE  pass' \in Held /\ pass'.at = x /\ Same(pass', pass)
  <1>1. pass' = [pass EXCEPT !.at = x] /\ pass \in Held
    BY DEF Goto, Typed
  <1> QED BY <1>1 DEF Held, Same

----------------------------------------------------------------------------
(* Steps that only move the pass *)

LEMMA ListDatabasesStep == ASSUME DatabasesInv, ListDatabases PROVE DatabasesInv'
  <1>1. /\ up /\ pass.at = "idle"
        /\ UNCHANGED <<row, services, containers, volume, secret, minted, cut, up, scenario>>
    BY DEF ListDatabases, limits, dockerVars, secretVars
  <1>2. PICK x \in {"services", "database"} : pass' = [pass EXCEPT !.base = row, !.at = x]
    BY DEF ListDatabases
  <1>3. PICK g : g = [pass EXCEPT !.base = row, !.at = x]
    OBVIOUS
  <1>4. pass \in Held /\ row \in Rows /\ x \in Places
    BY DEF DatabasesInv, Typed, Places, DatabasePlaces
  <1>5. /\ g \in Held /\ g.at = x /\ g.base = row /\ g.service = pass.service /\ g.bound = pass.bound
        /\ g.password = pass.password /\ g.token = pass.token /\ g.id = pass.id /\ g.todo = pass.todo
    BY <1>3, <1>4 DEF Held
  <1>6. Fits(pass) /\ Honest(pass) /\ ForDatabase(row.container)
    BY DEF DatabasesInv, Sound, Secrets
  <1>7. pass.service = "database" /\ pass.id = None
    BY <1>1, <1>6 DEF Fits, DatabasePlaces
  <1>8. Fits(g)
    BY <1>5, <1>6, <1>7 DEF Fits, ReplicaPlaces, DatabasePlaces
  <1>9. Honest(g)
    BY <1>5, <1>6, <1>7 DEF Honest
  <1> QED BY <1>1, <1>2, <1>3, <1>5, <1>7, <1>8, <1>9, PassKeeps

LEMMA ListServicesStep == ASSUME DatabasesInv, ListServices PROVE DatabasesInv'
  <1>1. /\ up /\ pass.at = "services"
        /\ UNCHANGED <<row, services, containers, volume, secret, minted, cut, up, scenario>>
    BY DEF ListServices, limits, dockerVars, secretVars
  <1> DEFINE listed == {<<s, services[s].bound>> : s \in {r \in Services : services[r].exists /\ services[r].replica = None}}
  <1>2. PICK g : g = [Idle EXCEPT !.at = "next", !.todo = listed]
    OBVIOUS
  <1>3. pass' = g
    BY <1>2 DEF ListServices
  <1>4. listed \in SUBSET (Services \X BOOLEAN) /\ "next" \in Places
    <2>1. \A s \in Services : services[s].bound \in BOOLEAN
      BY DEF DatabasesInv, Typed, ServiceRows
    <2> QED BY <2>1 DEF Places, DatabasePlaces
  <1>5. \A p \in listed : Said(p[1], p[2])
    BY DEF Said
  <1> HIDE DEF listed
  <1>6. /\ g \in Held /\ g.at = "next" /\ g.todo = listed /\ g.service = "database" /\ g.id = None /\ g.base = NoRow
        /\ g.token = None /\ g.password = None
    BY <1>2, <1>4, IdleIs DEF Held
  <1>7. Rest(g)
    BY <1>5, <1>6 DEF Rest
  <1> QED BY <1>1, <1>3, <1>6, <1>7, RestFits, PassKeeps

\* The pass ends, whether it is done or a call of it raised.
LEMMA PassEnds == ASSUME DatabasesInv, EndPass \/ PassFails PROVE DatabasesInv'
  <1>1. /\ up /\ Abort /\ pass.at # "join"
        /\ UNCHANGED <<row, services, containers, volume, secret, minted, cut, up, scenario>>
    BY DEF EndPass, PassFails, Fault, limits, dockerVars, secretVars
  <1> QED BY <1>1, PassRests

\* The pass holds the row it is about to write.
LEMMA PutMoves ==
    ASSUME DatabasesInv, pass.service = "database", pass.id = None,
           NEW base \in Rows, NEW x \in {"put", "put and leave"},
           ToPut(base, x), x = "put" => base.container # None, x = "put and leave" => base = Pending
    PROVE  /\ pass' \in Held /\ pass'.at = x /\ pass'.base = base /\ pass'.service = "database" /\ pass'.id = None
           /\ Honest(pass')
           /\ ForDatabase(base.container) => Fits(pass')
  <1>1. PICK g : g = [pass EXCEPT !.base = base, !.at = x]
    OBVIOUS
  <1>2. pass' = g /\ pass \in Held /\ x \in Places
    BY <1>1 DEF ToPut, DatabasesInv, Typed, Places, DatabasePlaces
  <1>3. /\ g \in Held /\ g.at = x /\ g.base = base /\ g.service = "database" /\ g.bound = pass.bound
        /\ g.password = pass.password /\ g.token = pass.token /\ g.id = None /\ g.todo = pass.todo
    BY <1>1, <1>2 DEF Held
  <1>4. Fits(pass) /\ Honest(pass)
    BY DEF DatabasesInv, Sound, Secrets
  <1>5. Honest(g)
    BY <1>3, <1>4 DEF Honest
  <1>6. ForDatabase(base.container) => Fits(g)
    BY <1>3, <1>4 DEF Fits, ReplicaPlaces, DatabasePlaces
  <1> QED BY <1>2, <1>3, <1>5, <1>6

\* What the pass holds at a place of the database's.
LEMMA AtDatabase ==
    ASSUME DatabasesInv, pass.at \in DatabasePlaces
    PROVE  /\ pass \in Held /\ Fits(pass) /\ Honest(pass) /\ pass.service = "database"
           /\ pass.id = None /\ pass.base \in Rows
  <1>1. pass \in Held /\ Fits(pass) /\ Honest(pass)
    BY DEF DatabasesInv, Typed, Sound, Secrets
  <1>2. pass.at \notin {"attach", "record"}
    BY DEF DatabasePlaces
  <1> QED BY <1>1, <1>2 DEF Fits, Held

\* The stopped container of the database is removed before another is created.
LEMMA StaleRemoved ==
    ASSUME DatabasesInv, up, pass.at = "database", Goto("password"),
           containers' = [i \in Ids |-> IF i \in Of("database") THEN NoContainer ELSE containers[i]],
           UNCHANGED <<row, services, volume, secret, minted, cut, up, scenario>>
    PROVE  DatabasesInv'
  <1>1. PICK g : g = pass'
    OBVIOUS
  <1>2. g \in Held /\ g.at = "password" /\ Same(g, pass)
    BY <1>1, GotoMoves DEF DatabasesInv, Places, PasswordPlaces
  <1>3. /\ Fits(pass) /\ Honest(pass) /\ pass.service = "database" /\ pass.id = None
    BY AtDatabase DEF DatabasePlaces
  <1>4. Fits(g) /\ Honest(g)
    BY <1>2, <1>3 DEF Fits, Honest, Same, ReplicaPlaces, DatabasePlaces
  <1>5. \A i \in Ids : containers'[i] = IF containers[i].of = "database" THEN NoContainer ELSE containers[i]
    BY DEF Of
  <1>6. Typed'
    BY <1>1, <1>2, Rooms DEF DatabasesInv, Typed
  <1>7. ASSUME NEW i \in Ids \cup {None}, ForDatabase(i) PROVE ForDatabase(i)'
    BY <1>5, <1>7, Rooms DEF ForDatabase
  <1>8. Recorded' /\ OneDatabase' /\ ForDatabase(row.container)'
    <2>1. Recorded'
      BY <1>5, Refer, Rooms DEF DatabasesInv, Sound, Recorded
    <2>2. OneDatabase'
      BY <1>5, Rooms DEF OneDatabase
    <2> QED BY <1>7, <2>1, <2>2, Refer DEF DatabasesInv, Sound
  <1>9. Fits(pass)'
    <2>1. ForDatabase(g.base.container)'
      BY <1>2, <1>4, <1>7, Refer DEF DatabasesInv, Fits, Same
    <2>2. Fits(g)'
      BY <1>2, <1>3, <1>4, <2>1 DEF Fits, Said, Steady, Same
    <2> QED BY <1>1, <2>2 DEF Fits, ForDatabase, Said, Steady
  <1>10. Sound'
    BY <1>8, <1>9 DEF DatabasesInv, Sound
  <1>11. Joining'
    <2>1. Running(row.container)' => Running(row.container) /\ \A s \in Services : Joined(s) => Joined(s)'
      BY <1>5, Refer, Rooms DEF DatabasesInv, Running, Joined
    <2>2. \A s \in Services : Present(s)' => Present(s)
      BY <1>1, <1>2 DEF Present
    <2> QED BY <2>1, <2>2 DEF DatabasesInv, Joining, Steady
  <1>12. Secrets'
    <2>1. Honest(pass)'
      BY <1>1, <1>4 DEF Honest
    <2>2. \A i \in Ids : Given(containers[i])'
      BY <1>5, Rooms, Names DEF DatabasesInv, Secrets, Given
    <2> QED BY <2>1, <2>2 DEF DatabasesInv, Secrets
  <1> QED BY <1>6, <1>10, <1>11, <1>12 DEF DatabasesInv

LEMMA ReconcileStep == ASSUME DatabasesInv, ReconcileDatabase PROVE DatabasesInv'
  <1>1. /\ up /\ pass.at = "database"
        /\ UNCHANGED <<row, services, volume, secret, minted, cut, up, scenario>>
    BY DEF ReconcileDatabase, limits, secretVars
  <1>2. PICK base : base = pass.base
    OBVIOUS
  <1>3. /\ pass \in Held /\ Fits(pass) /\ Honest(pass) /\ pass.service = "database" /\ pass.id = None
        /\ base \in Rows /\ ForDatabase(base.container)
    BY <1>1, <1>2, AtDatabase DEF DatabasePlaces, Fits
  <1>4. ASSUME NEW b \in Rows, NEW x \in {"put", "put and leave"}, ToPut(b, x), UNCHANGED containers,
               x = "put" => b.container # None, x = "put and leave" => b = Pending, ForDatabase(b.container)
        PROVE  DatabasesInv'
    <2>1. /\ pass' \in Held /\ pass'.at = x /\ pass'.id = None /\ Honest(pass') /\ Fits(pass')
      BY <1>3, <1>4, PutMoves
    <2> QED BY <1>1, <1>4, <2>1, PassKeeps
  <1>5. CASE base.container # None /\ ~Running(base.container)
    <2>1. ToPut(Pending, "put and leave") /\ UNCHANGED containers
      BY <1>2, <1>5 DEF ReconcileDatabase, Forgotten
    <2> QED BY <1>4, <2>1, Rooms DEF ForDatabase
  <1>6. CASE base.container # None /\ Running(base.container)
    <2>1. base.status = "running"
      BY <1>3, <1>6, Rooms
    <2>2. Goto("services") /\ UNCHANGED containers
      BY <1>2, <1>6, <2>1 DEF ReconcileDatabase
    <2>3. PICK g : g = pass'
      OBVIOUS
    <2>4. g \in Held /\ g.at = "services" /\ Same(g, pass)
      BY <2>2, <2>3, GotoMoves DEF DatabasesInv, Places, DatabasePlaces
    <2>5. Fits(g) /\ Honest(g)
      BY <1>3, <2>4 DEF Fits, Same, Honest, ReplicaPlaces, DatabasePlaces
    <2> QED BY <1>1, <1>3, <2>2, <2>3, <2>4, <2>5, PassKeeps DEF Same
  <1>7. CASE base.container = None /\ \E i \in Of("database") : Running(i)
    <2>1. PICK i \in Of("database") : i = Max(Of("database"))
      <3>1. PICK i \in Of("database") : TRUE
        BY <1>7
      <3> QED BY <3>1, LastIs DEF DatabasesInv, Sound
    <2>2. i \in Ids /\ containers[i].of = "database"
      BY DEF Of
    <2>3. ToPut([status |-> "running", container |-> i], "put") /\ UNCHANGED containers
      BY <1>2, <1>7, <2>1 DEF ReconcileDatabase
    <2>4. PICK b : b = [status |-> "running", container |-> i]
      OBVIOUS
    <2>5. b \in Rows /\ b.container = i /\ i # None
      BY <2>2, <2>4, Rooms
    <2>6. ForDatabase(b.container) /\ ToPut(b, "put")
      BY <2>2, <2>3, <2>4, <2>5 DEF ForDatabase
    <2> QED BY <1>4, <2>3, <2>5, <2>6
  <1>8. CASE base.container = None /\ ~\E i \in Of("database") : Running(i)
    <2>1. /\ containers' = [i \in Ids |-> IF i \in Of("database") THEN NoContainer ELSE containers[i]]
          /\ Goto("password")
      BY <1>2, <1>8 DEF ReconcileDatabase
    <2> QED BY <1>1, <2>1, StaleRemoved
  <1> QED BY <1>5, <1>6, <1>7, <1>8

----------------------------------------------------------------------------
(* What a replica needs *)

LEMMA BeginReplicaStep ==
    ASSUME DatabasesInv, NEW s \in Services, NEW bound \in BOOLEAN, BeginReplica(s, bound)
    PROVE  DatabasesInv'
  <1>1. /\ up /\ pass.at = "next" /\ <<s, bound>> \in pass.todo
        /\ UNCHANGED <<row, services, containers, volume, secret, minted, cut, up, scenario>>
    BY DEF BeginReplica, limits, dockerVars, secretVars
  <1>2. /\ pass \in Held /\ Fits(pass) /\ Honest(pass) /\ pass.service = "database" /\ pass.id = None
    BY <1>1, AtDatabase DEF DatabasePlaces
  <1>3. PICK todo : todo = pass.todo \ {<<s, bound>>}
    OBVIOUS
  <1>4. PICK g : g = [pass EXCEPT !.at = "token", !.service = s, !.bound = bound, !.todo = todo]
    OBVIOUS
  <1>5. pass' = g
    BY <1>3, <1>4 DEF BeginReplica
  <1>6. "token" \in Places /\ todo \in SUBSET (Services \X BOOLEAN)
    BY <1>2, <1>3 DEF Places, ReplicaPlaces, Held
  <1>7. /\ g \in Held /\ g.at = "token" /\ g.service = s /\ g.bound = bound /\ g.base = pass.base
        /\ g.password = pass.password /\ g.token = pass.token /\ g.id = pass.id /\ g.todo = todo
    BY <1>2, <1>4, <1>6 DEF Held
  <1>8. Said(s, bound) /\ \A p \in todo : Said(p[1], p[2])
    BY <1>1, <1>2, <1>3 DEF Fits
  <1>9. Fits(g)
    BY <1>2, <1>7, <1>8 DEF Fits, DatabasePlaces
  <1>10. Honest(g)
    BY <1>1, <1>2, <1>7 DEF Honest
  <1> QED BY <1>1, <1>2, <1>5, <1>7, <1>9, <1>10, PassKeeps

\* Where the pass looks for a token or the password.
Searching == {"token", "mint token"} \cup PasswordPlaces

\* What the pass asks for, and where it goes with it.
LEMMA Sought ==
    ASSUME DatabasesInv, pass.at \in Searching
    PROVE  /\ pass \in Held /\ Fits(pass) /\ Honest(pass) /\ pass.id = None /\ Asked \in Words
           /\ pass.at \in {"token", "mint token"} =>
                  /\ Asked = pass.service /\ pass.service \in Services
                  /\ Then \in {"database env", "create replica"}
           /\ pass.at \in PasswordPlaces =>
                  /\ Asked = "password"
                  /\ Then = IF pass.service = "database" THEN "create database" ELSE "create replica"
  <1>1. pass \in Held /\ Fits(pass) /\ Honest(pass) /\ pass.id = None
    BY DEF DatabasesInv, Typed, Sound, Secrets, Fits, Searching, PasswordPlaces
  <1>2. CASE pass.at \in {"token", "mint token"}
    <2>1. pass.service \in Services /\ Asked = pass.service
      BY <1>1, <1>2 DEF Fits, ReplicaPlaces, Asked
    <2>2. Then = IF pass.bound THEN "database env" ELSE "create replica"
      BY <2>1, Names DEF Then
    <2>3. pass.at \notin PasswordPlaces
      BY <1>2 DEF PasswordPlaces
    <2> QED BY <1>1, <2>1, <2>2, <2>3 DEF Words
  <1>3. CASE pass.at \in PasswordPlaces
    <2>1. Asked = "password" /\ "password" # pass.service
      BY <1>1, <1>3, Names DEF Asked, PasswordPlaces, Held
    <2>2. Then = IF pass.service = "database" THEN "create database" ELSE "create replica"
      BY <2>1 DEF Then
    <2> QED BY <1>1, <1>3, <2>1, <2>2 DEF Words, PasswordPlaces
  <1> QED BY <1>2, <1>3 DEF Searching

\* The pass has its password or token, from the store or made just now.
LEMMA KnownStep ==
    ASSUME DatabasesInv, up, pass.at \in Searching, NEW value \in Nat \ {None}, Known(value),
           UNCHANGED <<row, services, containers, volume, cut, up, scenario>>, minted' \in Nat,
           secret' = [secret EXCEPT ![Asked] = value], secret[Asked] \in {None, value}
    PROVE  DatabasesInv'
  <1>1. /\ pass \in Held /\ Fits(pass) /\ Honest(pass) /\ pass.id = None /\ Asked \in Words
        /\ pass.at \in {"token", "mint token"} =>
               /\ Asked = pass.service /\ pass.service \in Services
               /\ Then \in {"database env", "create replica"}
        /\ pass.at \in PasswordPlaces =>
               /\ Asked = "password"
               /\ Then = IF pass.service = "database" THEN "create database" ELSE "create replica"
    BY Sought
  <1>2. PICK x : x = Then
    OBVIOUS
  <1>3. x \in {"database env", "create replica", "create database"} /\ x \in Places
    BY <1>1, <1>2 DEF Searching, Places, ReplicaPlaces, DatabasePlaces
  <1>4. PICK pw, tk : pw = (IF Asked = "password" THEN value ELSE pass.password)
                      /\ tk = (IF Asked = "password" THEN pass.token ELSE value)
    OBVIOUS
  <1>5. pw \in Nat /\ tk \in Nat
    BY <1>1, <1>4 DEF Held
  <1>6. PICK g : g = [pass EXCEPT !.at = x, !.password = pw, !.token = tk]
    OBVIOUS
  <1>7. pass' = g
    BY <1>2, <1>4, <1>6 DEF Known
  <1>8. /\ g \in Held /\ g.at = x /\ g.service = pass.service /\ g.bound = pass.bound /\ g.base = pass.base
        /\ g.password = pw /\ g.token = tk /\ g.id = pass.id /\ g.todo = pass.todo
    BY <1>1, <1>3, <1>5, <1>6 DEF Held
  <1>9. x = "create database" <=> pass.service = "database"
    <2>1. pass.service \in Services => pass.service # "database"
      BY Names
    <2>2. pass.service \in Services \cup {"database"}
      BY <1>1 DEF Held
    <2> QED BY <1>1, <1>2, <2>1, <2>2 DEF Searching
  <1>10. Fits(g)
    <2>1. g.at \in ReplicaPlaces => g.service \in Services
      BY <1>1, <1>3, <1>8, <1>9 DEF ReplicaPlaces, Held
    <2>2. g.at \in DatabasePlaces => g.service = "database"
      BY <1>3, <1>8, <1>9 DEF DatabasePlaces
    <2> QED BY <1>1, <1>3, <1>8, <2>1, <2>2 DEF Fits
  <1>11. secret' \in [Words -> Nat] /\ \A n \in Words : secret'[n] = IF n = Asked THEN value ELSE secret[n]
    BY <1>1 DEF DatabasesInv, Typed
  <1>12. Typed' /\ Sound' /\ Joining'
    <2>1. Grown
      BY GrownOrNot DEF DatabasesInv
    <2>2. g.at # "record" /\ pass.at # "join" /\ g.id = None /\ volume' \in Nat /\ cut' \in BOOLEAN
      BY <1>1, <1>3, <1>8 DEF Searching, PasswordPlaces, DatabasesInv, Typed
    <2> QED BY <1>7, <1>8, <1>10, <1>11, <2>1, <2>2, PassMoves DEF DatabasesInv
  <1>13. Secrets'
    <2>1. \A n \in Words : secret[n] # None => secret'[n] = secret[n]
      BY <1>11
    <2>2. "password" \in Words /\ \A s \in Services : s \in Words
      BY DEF Words
    <2>3. Honest(g)'
      <3>1. CASE pass.at \in {"token", "mint token"}
        <4>1. g.token = value /\ g.password = pass.password /\ g.service \in Services /\ secret'[g.service] = value
          BY <1>1, <1>4, <1>8, <1>11, <2>2, <3>1, Names
        <4>2. g.at \in {"database env", "create replica"}
          BY <1>1, <1>2, <1>8, <3>1
        <4>3. g.password # None => g.password = secret'["password"]
          BY <1>1, <2>1, <2>2, <4>1 DEF Honest
        <4> QED BY <4>1, <4>2, <4>3 DEF Honest
      <3>2. CASE pass.at \in PasswordPlaces
        <4>1. g.password = value /\ secret'["password"] = value /\ g.token = pass.token /\ g.service = pass.service
          BY <1>1, <1>4, <1>8, <1>11, <2>2, <3>2
        <4>2. pass.service # "database" => pass.token # None
          BY <1>1, <3>2 DEF Honest, PasswordPlaces
        <4>3. pass.token # None => pass.service \in Services /\ pass.token = secret'[pass.service]
          BY <1>1, <2>1, <2>2 DEF Honest
        <4> QED BY <1>3, <1>8, <4>1, <4>2, <4>3 DEF Honest
      <3> QED BY <3>1, <3>2 DEF Searching
    <2>4. Honest(pass)'
      BY <1>7, <2>3 DEF Honest
    <2>5. \A i \in Ids : Given(containers[i])'
      BY <2>1, <2>2 DEF DatabasesInv, Secrets, Given
    <2>6. volume # None => volume = secret'["password"]
      BY <2>1, <2>2 DEF DatabasesInv, Secrets
    <2> QED BY <2>4, <2>5, <2>6 DEF Secrets
  <1> QED BY <1>12, <1>13 DEF DatabasesInv

LEMMA GetSecretStep == ASSUME DatabasesInv, GetSecret PROVE DatabasesInv'
  <1>1. /\ up /\ pass.at \in {"token", "password"}
        /\ UNCHANGED <<row, services, containers, volume, secret, minted, cut, up, scenario>>
    BY DEF GetSecret, limits, dockerVars, secretVars
  <1>2. /\ pass \in Held /\ Fits(pass) /\ Honest(pass) /\ pass.id = None /\ Asked \in Words
        /\ pass.at = "token" => Asked = pass.service /\ pass.service \in Services
        /\ pass.at = "password" => Asked = "password"
    BY <1>1, Sought DEF Searching, PasswordPlaces
  <1>3. CASE secret[Asked] # None
    <2>1. PICK value : value = secret[Asked]
      OBVIOUS
    <2>2. value \in Nat \ {None} /\ secret' = [secret EXCEPT ![Asked] = value] /\ minted' \in Nat
      BY <1>1, <1>2, <1>3, <2>1 DEF DatabasesInv, Typed
    <2>3. Known(value)
      BY <1>3, <2>1 DEF GetSecret
    <2> QED BY <1>1, <2>1, <2>2, <2>3, KnownStep DEF Searching, PasswordPlaces
  <1>4. CASE secret[Asked] = None
    <2>1. PICK x : x = IF pass.at = "token" THEN "mint token" ELSE "mint password"
      OBVIOUS
    <2>2. Goto(x)
      BY <1>4, <2>1 DEF GetSecret
    <2>3. x \in Places
      BY <2>1 DEF Places, ReplicaPlaces, PasswordPlaces
    <2>4. PICK g : g = pass'
      OBVIOUS
    <2>5. g \in Held /\ g.at = x /\ Same(g, pass)
      BY <2>2, <2>3, <2>4, GotoMoves DEF DatabasesInv
    <2>6. Fits(g)
      BY <1>1, <1>2, <2>1, <2>5 DEF Fits, Same, ReplicaPlaces, DatabasePlaces
    <2>7. Honest(g)
      <3>1. x = "mint token" => secret[pass.service] = None
        BY <1>2, <1>4, <2>1
      <3>2. x = "mint password" => secret["password"] = None /\ pass.at = "password"
        BY <1>1, <1>2, <1>4, <2>1
      <3> QED BY <1>2, <2>1, <2>5, <3>1, <3>2 DEF Honest, Same
    <2> QED BY <1>1, <1>2, <2>1, <2>4, <2>5, <2>6, <2>7, PassKeeps DEF Same
  <1> QED BY <1>3, <1>4

LEMMA CreateSecretStep == ASSUME DatabasesInv, CreateSecret PROVE DatabasesInv'
  <1>1. /\ up /\ UNCHANGED <<row, services, containers, volume, cut, up, scenario>>
        /\ minted' = minted + 1 /\ secret' = [secret EXCEPT ![Asked] = minted + 1] /\ Known(minted + 1)
        /\ pass.at \in {"mint token", "mint password"}
    BY DEF CreateSecret, limits, dockerVars
  <1>2. PICK value : value = minted + 1
    OBVIOUS
  <1>3. value \in Nat \ {None} /\ minted' \in Nat
    <2>1. minted \in Nat /\ minted' = minted + 1
      BY <1>1 DEF DatabasesInv, Typed
    <2> QED BY <1>2, <2>1 DEF None
  <1>4. pass.at \in Searching
    BY <1>1 DEF Searching, PasswordPlaces
  <1>5. secret[Asked] = None
    BY <1>1 DEF DatabasesInv, Secrets, Honest, Asked
  <1> QED BY <1>1, <1>2, <1>3, <1>4, <1>5, KnownStep

LEMMA DatabaseEnvStep == ASSUME DatabasesInv, DatabaseEnv PROVE DatabasesInv'
  <1>1. /\ up /\ pass.at = "database env"
        /\ UNCHANGED <<row, services, containers, volume, secret, minted, cut, up, scenario>>
    BY DEF DatabaseEnv, limits, dockerVars, secretVars
  <1>2. pass \in Held /\ Fits(pass) /\ Honest(pass) /\ pass.service \in Services /\ pass.id = None
    BY <1>1 DEF DatabasesInv, Typed, Sound, Secrets, Fits, ReplicaPlaces
  <1>3. PICK x \in {"create replica", "password"} : Goto(x)
    BY DEF DatabaseEnv
  <1>4. x \in Places
    BY DEF Places, ReplicaPlaces, PasswordPlaces
  <1>5. PICK g : g = pass'
    OBVIOUS
  <1>6. g \in Held /\ g.at = x /\ Same(g, pass)
    BY <1>3, <1>4, <1>5, GotoMoves DEF DatabasesInv
  <1>7. Fits(g)
    BY <1>2, <1>6 DEF Fits, Same, DatabasePlaces
  <1>8. Honest(g)
    BY <1>1, <1>2, <1>6, Names DEF Honest, Same
  <1> QED BY <1>1, <1>2, <1>5, <1>6, <1>7, <1>8, PassKeeps DEF Same

----------------------------------------------------------------------------
(* Containers that are created, of replicas and of the database *)

\* A container made with a fresh id.
MadeOf(i, c) ==
    /\ FreshIds # {} /\ i = Fresh /\ c \in Made /\ containers' = [containers EXCEPT ![i] = c]
    /\ c.of = "database" => Of("database") = {}

\* A step that creates one container keeps the invariant.
LEMMA ContainerCreated ==
    ASSUME DatabasesInv, up, pass.at # "join", NEW g \in Held, pass' = g, NEW i, NEW c, MadeOf(i, c),
           UNCHANGED <<row, services, secret, minted, cut, up, scenario>>,
           Fits(g)', g.at = "record" => ~(Steady /\ services[g.service].bound),
           Honest(g), Given(c), volume' \in {None, secret["password"]}
    PROVE  DatabasesInv'
  <1>1. /\ i \in Ids /\ i # None /\ containers[i] = NoContainer /\ i # row.container /\ FreshIds # {}
        /\ \A s \in Services : services[s].replica # i
    BY FreshFree DEF DatabasesInv, MadeOf
  <1>2. \A j \in Ids : containers'[j] = IF j = i THEN c ELSE containers[j]
    BY <1>1 DEF DatabasesInv, Typed, MadeOf
  <1>3. Typed'
    <2>1. secret["password"] \in Nat
      BY DEF DatabasesInv, Typed, Words
    <2>2. c \in Containers /\ volume' \in Nat
      BY <2>1, Rooms DEF Containers, MadeOf
    <2> QED BY <1>1, <2>2 DEF DatabasesInv, Typed, MadeOf
  <1>4. Recorded'
    BY <1>1, <1>2, Refer DEF DatabasesInv, Sound, Recorded
  <1>5. OneDatabase'
    BY <1>2 DEF DatabasesInv, Sound, OneDatabase, Of, MadeOf
  <1>6. ForDatabase(row.container)'
    BY <1>1, <1>2, Refer DEF DatabasesInv, Sound, ForDatabase
  <1>7. Fits(pass)'
    BY DEF Fits, ForDatabase, Said, Steady
  <1>8. Sound'
    BY <1>4, <1>5, <1>6, <1>7 DEF DatabasesInv, Sound
  <1>9. Joining'
    <2>1. Running(row.container)' = Running(row.container) /\ \A s \in Services : Joined(s) => Joined(s)'
      BY <1>1, <1>2, Refer DEF DatabasesInv, Running, Joined
    <2>2. ASSUME NEW s \in Services, Steady, services[s].bound, Present(s)' PROVE Present(s)
      BY <2>2 DEF Present
    <2> QED BY <2>1, <2>2 DEF DatabasesInv, Joining, Steady
  <1>10. Secrets'
    <2>1. Honest(pass)'
      BY DEF Honest
    <2>2. \A j \in Ids : Given(containers'[j])
      BY <1>2 DEF DatabasesInv, Secrets
    <2> QED BY <2>1, <2>2 DEF Secrets, Given
  <1> QED BY <1>3, <1>8, <1>9, <1>10 DEF DatabasesInv

\* What a record that fits before a container is created needs to fit afterwards.
LEMMA FitsMade ==
    ASSUME DatabasesInv, NEW g \in Held, Fits(g), g.id = None, NEW i, NEW c, MadeOf(i, c), g.base.container # i,
           UNCHANGED <<row, services, scenario>>
    PROVE  Fits(g)'
  <1>1. g.base.container \in Ids \cup {None} /\ i \in Ids
    BY Rooms, FreshFree DEF Held, DatabasesInv, MadeOf
  <1>2. ForDatabase(g.base.container)'
    BY <1>1 DEF Fits, ForDatabase, DatabasesInv, Typed, MadeOf
  <1> QED BY <1>2 DEF Fits, Said, Steady

LEMMA CreateReplicaStep == ASSUME DatabasesInv, CreateReplica PROVE DatabasesInv'
  <1>1. /\ up /\ pass.at = "create replica"
        /\ UNCHANGED <<row, services, volume, secret, minted, cut, up, scenario>>
    BY DEF CreateReplica, limits, Fault, secretVars
  <1>2. /\ pass \in Held /\ Fits(pass) /\ Honest(pass) /\ pass.service \in Services /\ pass.id = None
        /\ Said(pass.service, pass.bound)
    BY <1>1, Names DEF DatabasesInv, Typed, Sound, Secrets, Fits, ReplicaPlaces
  <1>3. CASE Over /\ UNCHANGED containers
    BY <1>1, <1>3, PassRests
  <1>4. CASE /\ FreshIds # {}
             /\ containers' = [containers EXCEPT ![Fresh] =
                    [NoContainer EXCEPT !.of = pass.service, !.running = TRUE, !.password = pass.password,
                                        !.token = pass.token]]
             /\ pass' = [pass EXCEPT !.id = Fresh, !.at = IF pass.bound THEN "attach" ELSE "record"]
    <2>1. PICK i : i = Fresh
      OBVIOUS
    <2>2. /\ i \in Ids /\ i # None /\ containers[i] = NoContainer /\ pass.base.container # i
          /\ \A s \in Services : services[s].replica # i
      BY <1>4, <2>1, FreshFree DEF DatabasesInv
    <2>3. PICK c : c = [NoContainer EXCEPT !.of = pass.service, !.running = TRUE, !.password = pass.password,
                                           !.token = pass.token]
      OBVIOUS
    <2>4. c \in Made /\ c.of = pass.service /\ c.password = pass.password /\ c.token = pass.token
      BY <1>2, <2>3 DEF Held, Made, NoContainer
    <2>5. PICK x : x = IF pass.bound THEN "attach" ELSE "record"
      OBVIOUS
    <2>6. PICK g : g = [pass EXCEPT !.id = i, !.at = x]
      OBVIOUS
    <2>7. x \in Places /\ x \in {"attach", "record"}
      BY <2>5 DEF Places, ReplicaPlaces
    <2>8. g \in Held /\ g.at = x /\ g.id = i /\ g.service = pass.service /\ g.bound = pass.bound
          /\ g.base = pass.base /\ g.password = pass.password /\ g.token = pass.token /\ g.todo = pass.todo
      BY <1>2, <2>2, <2>6, <2>7 DEF Held
    <2>9. pass' = g
      BY <1>4, <2>1, <2>5, <2>6
    <2>10. MadeOf(i, c)
      BY <1>2, <1>4, <2>1, <2>3, <2>4, Names DEF MadeOf
    <2>11. Fits(g)'
      <3>1. Fits(pass)' \/ TRUE
        OBVIOUS
      <3>2. ForDatabase(g.base.container)'
        <4>1. g.base.container \in Ids \cup {None}
          BY <2>8, Rooms DEF Held
        <4> QED BY <1>2, <2>2, <2>8, <2>10, <4>1 DEF Fits, ForDatabase, DatabasesInv, Typed, MadeOf
      <3>3. containers'[i].of = g.service
        BY <2>2, <2>4, <2>8, <2>10 DEF MadeOf, DatabasesInv, Typed
      <3>4. Said(g.service, g.bound)' /\ \A p \in g.todo : Said(p[1], p[2])'
        BY <1>1, <1>2, <2>8 DEF Fits, Said, Steady
      <3>5. g.at \notin DatabasePlaces /\ g.at \in ReplicaPlaces /\ g.service \in Services
        BY <1>2, <2>7, <2>8 DEF DatabasePlaces, ReplicaPlaces
      <3> QED BY <1>1, <2>2, <2>7, <2>8, <3>2, <3>3, <3>4, <3>5 DEF Fits
    <2>12. g.at = "record" => ~(Steady /\ services[g.service].bound)
      BY <1>2, <2>5, <2>8 DEF Said
    <2>13. Honest(g) /\ Given(c)
      <3>1. Honest(g)
        BY <1>1, <1>2, <2>7, <2>8 DEF Honest
      <3>2. pass.token # None
        BY <1>1, <1>2, Names DEF Honest
      <3> QED BY <1>2, <2>4, <3>1, <3>2 DEF Honest, Given
    <2>14. volume' \in {None, secret["password"]}
      BY <1>1 DEF DatabasesInv, Secrets
    <2> QED BY <1>1, <2>8, <2>9, <2>10, <2>11, <2>12, <2>13, <2>14, ContainerCreated
  <1> QED BY <1>3, <1>4 DEF CreateReplica

LEMMA CreateDatabaseStep == ASSUME DatabasesInv, CreateDatabase PROVE DatabasesInv'
  <1>1. /\ up /\ pass.at = "create database"
        /\ UNCHANGED <<row, services, secret, minted, cut, up, scenario>>
    BY DEF CreateDatabase, limits, Fault, secretVars
  <1>2. /\ pass \in Held /\ Fits(pass) /\ Honest(pass) /\ pass.service = "database" /\ pass.id = None
        /\ pass.password = secret["password"]
    BY <1>1, AtDatabase DEF DatabasePlaces, Honest
  <1>3. CASE Over /\ UNCHANGED <<containers, volume>>
    BY <1>1, <1>3, PassRests
  <1>4. ASSUME NEW running \in BOOLEAN, Creates(running), Of("database") = {}
        PROVE  /\ \E c : MadeOf(Fresh, c) /\ Given(c) /\ c.of = "database"
               /\ volume' \in {None, secret["password"]}
    <2>1. PICK c : c = [NoContainer EXCEPT !.of = "database", !.running = running, !.password = pass.password]
      OBVIOUS
    <2>2. c \in Made /\ c.of = "database"
      BY <1>2, <2>1, Rooms DEF Held, Made, NoContainer
    <2>3. MadeOf(Fresh, c)
      BY <1>4, <2>1, <2>2 DEF Creates, MadeOf
    <2>4. Given(c)
      BY <2>2, Names DEF Given
    <2>5. volume' \in {None, secret["password"]}
      BY <1>2, <1>4 DEF Creates, DatabasesInv, Secrets
    <2> QED BY <2>2, <2>3, <2>4, <2>5
  <1>5. CASE Creates(TRUE) /\ Of("database") = {} /\ ToPut([status |-> "running", container |-> Fresh], "put")
    <2>1. PICK c : MadeOf(Fresh, c) /\ Given(c) /\ c.of = "database"
      BY <1>4, <1>5
    <2>2. volume' \in {None, secret["password"]}
      BY <1>4, <1>5
    <2>3. PICK b, i : i = Fresh /\ b = [status |-> "running", container |-> Fresh]
      OBVIOUS
    <2>4. i \in Ids /\ i # None
      BY <2>1, <2>3, FreshFree DEF DatabasesInv, MadeOf
    <2>5. b \in Rows /\ b.container = i /\ ToPut(b, "put")
      BY <1>5, <2>3, <2>4, Rooms
    <2>6. PICK g : g = pass'
      OBVIOUS
    <2>7. /\ g \in Held /\ g.at = "put" /\ g.base = b /\ g.service = "database" /\ g.id = None /\ Honest(g)
      BY <1>2, <2>4, <2>5, <2>6, PutMoves
    <2>8. g.todo = pass.todo
      <3>1. pass' = [pass EXCEPT !.base = b, !.at = "put"]
        BY <2>5 DEF ToPut
      <3> QED BY <1>2, <2>6, <3>1 DEF Held
    <2>9. Fits(g)'
      <3>1. containers'[i].of = "database"
        BY <2>1, <2>3, <2>4 DEF MadeOf, DatabasesInv, Typed
      <3>2. ForDatabase(g.base.container)'
        BY <2>5, <2>7, <3>1 DEF ForDatabase
      <3>3. \A p \in g.todo : Said(p[1], p[2])'
        BY <1>1, <1>2, <2>8 DEF Fits, Said, Steady
      <3> QED BY <2>4, <2>5, <2>7, <3>2, <3>3 DEF Fits, ReplicaPlaces
    <2> QED BY <1>1, <2>1, <2>2, <2>6, <2>7, <2>9, ContainerCreated
  <1>6. CASE Over /\ Of("database") = {} /\ \E running \in BOOLEAN : Creates(running)
    <2>1. PICK c : MadeOf(Fresh, c) /\ Given(c) /\ c.of = "database"
      BY <1>4, <1>6
    <2>2. volume' \in {None, secret["password"]}
      BY <1>4, <1>6
    <2>3. PICK g : pass' = g /\ Rest(g)
      BY <1>6, OverRests
    <2>4. g \in Held /\ g.at # "record" /\ g.id = None /\ Fits(g) /\ Honest(g) /\ g.base.container = None
      BY <2>3, RestFits, Rooms DEF Rest
    <2>5. Fresh # None
      BY <2>1, FreshFree DEF DatabasesInv, MadeOf
    <2>6. Fits(g)'
      BY <1>1, <2>1, <2>4, <2>5, FitsMade
    <2> QED BY <1>1, <2>1, <2>2, <2>3, <2>4, <2>6, ContainerCreated
  <1> QED BY <1>3, <1>5, <1>6 DEF CreateDatabase, dockerVars

----------------------------------------------------------------------------
(* Joining networks *)

\* An attachment adds networks to one container.
LEMMA NetsGrow ==
    ASSUME Typed, NEW id \in Ids, NEW nets \in SUBSET Services, nets # {} => containers[id] # NoContainer,
           containers' = Attached(id, nets)
    PROVE  Grown /\ nets \subseteq containers'[id].nets
  <1>1. CASE nets = {}
    BY <1>1, GrownOrNot DEF Attached
  <1>2. CASE nets # {}
    <2>1. PICK c : c = [containers[id] EXCEPT !.nets = containers[id].nets \cup nets]
      OBVIOUS
    <2>2. containers[id] \in Made
      BY <1>2 DEF Typed, Containers
    <2>3. /\ c \in Made /\ c.of = containers[id].of /\ c.running = containers[id].running
          /\ c.password = containers[id].password /\ c.token = containers[id].token
          /\ c.nets = containers[id].nets \cup nets
      BY <2>1, <2>2 DEF Made
    <2>4. containers' = [containers EXCEPT ![id] = c]
      BY <1>2, <2>1 DEF Attached
    <2>5. \A i \in Ids : containers'[i] = IF i = id THEN c ELSE containers[i]
      BY <2>4 DEF Typed
    <2>6. containers' \in [Ids -> Containers]
      BY <2>3, <2>4 DEF Typed, Containers
    <2> QED BY <2>3, <2>5, <2>6 DEF Grown
  <1> QED BY <1>1, <1>2

LEMMA AttachReplicaStep == ASSUME DatabasesInv, AttachReplica PROVE DatabasesInv'
  <1>1. /\ up /\ pass.at = "attach"
        /\ UNCHANGED <<row, services, volume, secret, minted, cut, up, scenario>>
    BY DEF AttachReplica, limits, secretVars
  <1>2. /\ pass \in Held /\ Fits(pass) /\ Honest(pass) /\ pass.service \in Services /\ pass.id # None
    BY <1>1 DEF DatabasesInv, Typed, Sound, Secrets, Fits, ReplicaPlaces
  <1>3. PICK nets : nets = IF row.container = None THEN {} ELSE {pass.service}
    OBVIOUS
  <1>4. nets \in SUBSET Services /\ row.container \in Ids \cup {None}
    BY <1>2, <1>3, Refer DEF DatabasesInv
  <1>5. Join(row.container, nets, "record")
    BY <1>3 DEF AttachReplica
  <1>6. CASE nets # {} /\ containers[row.container] = NoContainer
    <2>1. Abort /\ UNCHANGED containers
      BY <1>5, <1>6 DEF Join
    <2> QED BY <1>1, <2>1, PassRests
  <1>7. CASE ~(nets # {} /\ containers[row.container] = NoContainer)
    <2>1. Goto("record") /\ containers' = Attached(row.container, nets)
      BY <1>5, <1>7 DEF Join
    <2>2. PICK g : g = pass'
      OBVIOUS
    <2>3. g \in Held /\ g.at = "record" /\ Same(g, pass)
      BY <2>1, <2>2, GotoMoves DEF DatabasesInv, Places, ReplicaPlaces
    <2>4. Fits(g) /\ Honest(g)
      BY <1>1, <1>2, <2>3 DEF Fits, Honest, Same, DatabasePlaces
    <2>5. Grown /\ (row.container # None => g.service \in containers'[row.container].nets)
      <3>1. CASE row.container = None
        BY <1>3, <2>1, <3>1, GrownOrNot DEF DatabasesInv, Attached
      <3>2. CASE row.container # None
        BY <1>3, <1>4, <1>7, <2>1, <2>3, <3>2, NetsGrow DEF DatabasesInv, Same
      <3> QED BY <3>1, <3>2
    <2>6. Running(row.container) => Joined(g.service)'
      <3>1. Running(row.container) => row.container # None /\ Running(row.container)'
        BY <1>1, <1>4, <2>5 DEF Running, Grown
      <3> QED BY <1>1, <2>5, <3>1 DEF Joined
    <2>7. Typed' /\ Sound' /\ Joining'
      <3>1. pass.at # "join" /\ g.id = pass.id
        BY <1>1, <2>3 DEF Same
      <3> QED BY <1>1, <2>2, <2>3, <2>4, <2>5, <2>6, <3>1, PassMoves DEF DatabasesInv, Typed
    <2>8. Secrets'
      BY <1>1, <2>2, <2>4, <2>5, SecretsKeep DEF DatabasesInv
    <2> QED BY <2>7, <2>8 DEF DatabasesInv
  <1> QED BY <1>6, <1>7

\* What holds when the pass is to join the networks of the bound services.
LEMMA AtJoin ==
    ASSUME DatabasesInv, pass.at = "join"
    PROVE  /\ pass.base.container \in Ids /\ row.container \in {None, pass.base.container}
           /\ BoundServices \in SUBSET Services /\ Honest(pass) /\ Fits(pass) /\ pass.id = None
  <1>1. Fits(pass) /\ Honest(pass) /\ pass.id = None /\ pass.base \in Rows
    BY AtDatabase DEF DatabasePlaces
  <1> QED BY <1>1, Rooms DEF Fits, BoundServices

LEMMA JoinBoundServicesStep == ASSUME DatabasesInv, JoinBoundServices PROVE DatabasesInv'
  <1>1. /\ up /\ pass.at = "join"
        /\ UNCHANGED <<row, services, volume, secret, minted, cut, up, scenario>>
    BY DEF JoinBoundServices, limits, secretVars
  <1>2. PICK id : id = pass.base.container
    OBVIOUS
  <1>3. /\ id \in Ids /\ row.container \in {None, id} /\ BoundServices \in SUBSET Services
        /\ Honest(pass) /\ Fits(pass) /\ pass.id = None
    BY <1>1, <1>2, AtJoin
  <1>4. Join(id, BoundServices, "services")
    BY <1>2 DEF JoinBoundServices
  <1>5. CASE BoundServices # {} /\ containers[id] = NoContainer
    <2>1. pass' = Idle /\ UNCHANGED containers
      BY <1>4, <1>5 DEF Join, Abort
    <2>2. ~Running(row.container) /\ Grown
      BY <1>3, <1>5, <2>1, Rooms, GrownOrNot DEF Running, DatabasesInv
    <2>3. Fits(Idle) /\ Honest(Idle) /\ Idle \in Held /\ Idle.at # "record" /\ Idle.id = None
      BY IdleRests, RestFits, IdleIs
    <2>4. Typed' /\ Sound' /\ Joining'
      BY <1>1, <2>1, <2>2, <2>3, PassMoves DEF DatabasesInv, Typed
    <2>5. Secrets'
      BY <1>1, <2>1, <2>2, <2>3, SecretsKeep DEF DatabasesInv
    <2> QED BY <2>4, <2>5 DEF DatabasesInv
  <1>6. CASE ~(BoundServices # {} /\ containers[id] = NoContainer)
    <2>1. Goto("services") /\ containers' = Attached(id, BoundServices)
      BY <1>4, <1>6 DEF Join
    <2>2. PICK g : g = pass'
      OBVIOUS
    <2>3. g \in Held /\ g.at = "services" /\ Same(g, pass)
      BY <2>1, <2>2, GotoMoves DEF DatabasesInv, Places, DatabasePlaces
    <2>4. Fits(g) /\ Honest(g) /\ g.id = None
      BY <1>1, <1>3, <2>3 DEF Fits, Honest, Same, ReplicaPlaces, DatabasePlaces
    <2>5. Grown /\ BoundServices \subseteq containers'[id].nets
      BY <1>3, <1>6, <2>1, NetsGrow DEF DatabasesInv
    <2>6. ASSUME NEW s \in Services, services[s].exists, services[s].bound, Running(row.container)
          PROVE  Joined(s)'
      <3>1. row.container = id
        BY <1>3, <2>6 DEF Running
      <3>2. Running(id)'
        BY <1>3, <2>5, <2>6, <3>1 DEF Running, Grown
      <3>3. s \in BoundServices
        BY <2>6 DEF BoundServices
      <3> QED BY <1>1, <2>5, <3>1, <3>2, <3>3 DEF Joined, Running
    <2>7. Typed' /\ Sound' /\ Joining'
      BY <1>1, <2>2, <2>3, <2>4, <2>5, <2>6, PassMoves DEF DatabasesInv, Typed
    <2>8. Secrets'
      BY <1>1, <2>2, <2>4, <2>5, SecretsKeep DEF DatabasesInv
    <2> QED BY <2>7, <2>8 DEF DatabasesInv
  <1> QED BY <1>5, <1>6

LEMMA JoinFailsStep == ASSUME DatabasesInv, JoinFails PROVE DatabasesInv'
  <1>1. /\ up /\ pass.at = "join" /\ pass' = Idle /\ cut' = TRUE
        /\ UNCHANGED <<row, services, volume, secret, minted, up, scenario>>
    BY DEF JoinFails, Fault, Abort, secretVars
  <1>2. pass.base.container \in Ids /\ BoundServices \in SUBSET Services
    BY <1>1, AtJoin
  <1>3. Grown
    <2>1. PICK nets \in SUBSET BoundServices :
              containers' = IF containers[pass.base.container] = NoContainer THEN containers
                            ELSE Attached(pass.base.container, nets)
      BY DEF JoinFails
    <2>2. nets \in SUBSET Services
      BY <1>2
    <2>3. CASE containers[pass.base.container] = NoContainer
      BY <2>1, <2>3, GrownOrNot DEF DatabasesInv
    <2>4. CASE containers[pass.base.container] # NoContainer
      BY <1>2, <2>1, <2>2, <2>4, NetsGrow DEF DatabasesInv
    <2> QED BY <2>3, <2>4
  <1>4. Fits(Idle) /\ Honest(Idle) /\ Idle \in Held /\ Idle.at # "record" /\ Idle.id = None
    BY IdleRests, RestFits, IdleIs
  <1>5. Typed' /\ Sound' /\ Joining'
    BY <1>1, <1>3, <1>4, PassMoves DEF DatabasesInv, Typed
  <1>6. Secrets'
    BY <1>1, <1>3, <1>4, SecretsKeep DEF DatabasesInv
  <1> QED BY <1>5, <1>6 DEF DatabasesInv

----------------------------------------------------------------------------
(* The rows *)

\* The row of the database changes, and perhaps the pass moves on.
LEMMA RowChanges ==
    ASSUME DatabasesInv, row' \in Rows, ForDatabase(row'.container), NEW g \in Held, pass' = g,
           UNCHANGED <<services, containers, volume, secret, minted, up, scenario>>, cut' \in BOOLEAN,
           Fits(g)', Honest(g), ~up => pass' = pass, row'.container = None \/ g.at = "join"
    PROVE  DatabasesInv'
  <1>1. Typed'
    BY DEF DatabasesInv, Typed
  <1>2. Recorded' /\ OneDatabase' /\ ForDatabase(row.container)'
    BY DEF DatabasesInv, Sound, Recorded, OneDatabase, ForDatabase
  <1>3. Fits(pass)'
    BY DEF Fits, ForDatabase, Said, Steady
  <1>4. Sound'
    BY <1>2, <1>3 DEF DatabasesInv, Sound
  <1>5. Joining'
    BY DEF Joining, Running
  <1>6. Secrets'
    <2>1. Honest(pass)'
      BY DEF Honest
    <2> QED BY <2>1 DEF DatabasesInv, Secrets, Given
  <1> QED BY <1>1, <1>4, <1>5, <1>6 DEF DatabasesInv

\* A client applies or destroys the database.
LEMMA RowStep ==
    ASSUME DatabasesInv, row' \in {NoRow, Pending},
           UNCHANGED <<services, containers, volume, secret, minted, pass, cut, up, scenario>>
    PROVE  DatabasesInv'
  <1>1. row' \in Rows /\ row'.container = None
    BY Rooms
  <1>2. PICK g : g = pass
    OBVIOUS
  <1>3. g \in Held /\ Fits(g) /\ Honest(g) /\ cut \in BOOLEAN
    BY <1>2 DEF DatabasesInv, Typed, Sound, Secrets
  <1>4. Fits(g)'
    BY <1>1, <1>3 DEF Fits, ForDatabase, Said, Steady
  <1> QED BY <1>1, <1>2, <1>3, <1>4, RowChanges DEF ForDatabase

LEMMA PutDatabaseStep == ASSUME DatabasesInv, PutDatabase PROVE DatabasesInv'
  <1>1. /\ up /\ pass.at \in {"put", "put and leave"} /\ cut' = FALSE /\ row' = pass.base
        /\ UNCHANGED <<services, containers, volume, secret, minted, up, scenario>>
    BY DEF PutDatabase, limits, dockerVars, secretVars
  <1>2. /\ pass \in Held /\ Fits(pass) /\ Honest(pass) /\ pass.service = "database" /\ pass.id = None
        /\ pass.base \in Rows
    BY <1>1, AtDatabase DEF DatabasePlaces
  <1>3. PICK x : x = IF pass.at = "put" THEN "join" ELSE "services"
    OBVIOUS
  <1>4. Goto(x) /\ x \in Places /\ x \in {"join", "services"}
    BY <1>3 DEF PutDatabase, Places, DatabasePlaces
  <1>5. PICK g : g = pass'
    OBVIOUS
  <1>6. g \in Held /\ g.at = x /\ Same(g, pass)
    BY <1>4, <1>5, GotoMoves DEF DatabasesInv
  <1>7. ForDatabase(pass.base.container) /\ row'.container \in Ids \cup {None}
    BY <1>1, <1>2, Rooms DEF Fits
  <1>8. Fits(g)'
    <2>1. ForDatabase(g.base.container)'
      BY <1>1, <1>6, <1>7 DEF ForDatabase, Same
    <2>2. \A p \in g.todo : Said(p[1], p[2])'
      BY <1>1, <1>2, <1>6 DEF Fits, Said, Steady, Same
    <2>3. x = "join" => g.base.container # None
      BY <1>1, <1>2, <1>3, <1>6 DEF Fits, Same
    <2>4. g.id = None /\ g.service = "database" /\ row' = g.base
      BY <1>1, <1>2, <1>6 DEF Same
    <2> QED BY <1>4, <1>6, <2>1, <2>2, <2>3, <2>4 DEF Fits, ReplicaPlaces
  <1>9. Honest(g)
    BY <1>2, <1>4, <1>6 DEF Honest, Same
  <1>10. row'.container = None \/ g.at = "join"
    BY <1>1, <1>2, <1>3, <1>6, Rooms DEF Fits
  <1> QED BY <1>1, <1>2, <1>5, <1>6, <1>7, <1>8, <1>9, <1>10, RowChanges

\* The row of a service stays, and in a steady scenario is not bound anew.
Kept(s) == services'[s].exists /\ (Steady /\ services'[s].bound => services[s].bound)

\* The rows of services change as they may.
LEMMA ServicesChange ==
    ASSUME DatabasesInv, services' \in [Services -> ServiceRows], NEW g \in Held, pass' = g,
           UNCHANGED <<row, containers, volume, secret, minted, cut, up, scenario>>,
           Recorded', Fits(g), Honest(g), ~up => pass' = pass, pass.at = "join" => g.at = "join",
           \A s \in Services : services[s].exists => Kept(s),
           g.id # None => \A s \in Services : services'[s].replica # g.id,
           \A s \in Services : Present(s)' => Present(s)
    PROVE  DatabasesInv'
  <1>1. Typed'
    BY DEF DatabasesInv, Typed
  <1>2. \A s, b : Said(s, b) => Said(s, b)'
    BY DEF Said, Steady, Kept
  <1>3. Fits(pass)'
    <2>1. Fits(g)'
      BY <1>2 DEF Fits, ForDatabase
    <2> QED BY <2>1 DEF Fits, ForDatabase, Said, Steady
  <1>4. Sound'
    BY <1>3 DEF DatabasesInv, Sound, OneDatabase, ForDatabase
  <1>5. ASSUME NEW s \in Services, Present(s) PROVE services[s].exists
    <2>1. CASE services[s].replica # None
      BY <2>1 DEF DatabasesInv, Sound, Recorded
    <2>2. CASE pass.at = "record" /\ pass.service = s
      <3>1. Fits(pass)
        BY DEF DatabasesInv, Sound
      <3> QED BY <2>2, <3>1, Names DEF Fits, Said
    <2> QED BY <1>5, <2>1, <2>2 DEF Present
  <1>6. Joining'
    <2>1. ASSUME NEW s \in Services, Steady, up, services'[s].bound, Running(row.container), Present(s)'
          PROVE  Joined(s) \/ g.at = "join" \/ cut
      <3>1. Present(s) /\ services[s].bound
        BY <1>5, <2>1 DEF Kept
      <3> QED BY <2>1, <3>1 DEF DatabasesInv, Joining
    <2> QED BY <2>1 DEF Joining, Steady, Running, Joined
  <1>7. Secrets'
    <2>1. Honest(pass)'
      BY DEF Honest
    <2> QED BY <2>1 DEF DatabasesInv, Secrets, Given
  <1> QED BY <1>1, <1>4, <1>6, <1>7 DEF DatabasesInv

LEMMA ApplyServiceStep ==
    ASSUME DatabasesInv, NEW s \in Services, NEW bound \in BOOLEAN, ApplyService(s, bound)
    PROVE  DatabasesInv'
  <1>1. UNCHANGED <<row, containers, volume, secret, minted, pass, cut, up, scenario>>
    BY DEF ApplyService, Client, dockerVars, secretVars
  <1>2. PICK v : v = [services[s] EXCEPT !.exists = TRUE, !.bound = bound]
    OBVIOUS
  <1>3. v \in ServiceRows /\ v.exists /\ v.bound = bound /\ v.replica = services[s].replica
    <2>1. services[s] \in ServiceRows
      BY DEF DatabasesInv, Typed
    <2> QED BY <1>2, <2>1 DEF ServiceRows
  <1>4. services' = [services EXCEPT ![s] = v]
    BY <1>2 DEF ApplyService
  <1>5. services' \in [Services -> ServiceRows] /\ \A x \in Services : services'[x] = IF x = s THEN v ELSE services[x]
    BY <1>3, <1>4 DEF DatabasesInv, Typed
  <1>6. services[s].exists /\ Steady => (bound => services[s].bound)
    BY DEF ApplyService, Steady
  <1>7. \A x \in Services : services'[x].replica = services[x].replica
    BY <1>3, <1>5
  <1>8. \A x \in Services : services[x].exists => Kept(x)
    BY <1>3, <1>5, <1>6 DEF Kept
  <1>9. Recorded'
    BY <1>1, <1>7, <1>8 DEF DatabasesInv, Sound, Recorded, Kept
  <1>10. \A x \in Services : Present(x)' => Present(x)
    BY <1>1, <1>7 DEF Present
  <1>11. pass \in Held /\ Fits(pass) /\ Honest(pass)
    BY DEF DatabasesInv, Typed, Sound, Secrets
  <1>12. pass.id # None => \A x \in Services : services'[x].replica # pass.id
    BY <1>7, <1>11 DEF Fits
  <1> QED BY <1>1, <1>5, <1>8, <1>9, <1>10, <1>11, <1>12, ServicesChange

LEMMA RecordReplicaStep == ASSUME DatabasesInv, RecordReplica PROVE DatabasesInv'
  <1>1. /\ up /\ pass.at = "record" /\ Over
        /\ UNCHANGED <<row, containers, volume, secret, minted, cut, up, scenario>>
    BY DEF RecordReplica, limits, dockerVars, secretVars
  <1>2. PICK s, id : s = pass.service /\ id = pass.id
    OBVIOUS
  <1>3. /\ s \in Services /\ id \in Ids /\ containers[id].of = s /\ services[s].exists
    <2>1. Fits(pass) /\ pass.id \in Ids \cup {None}
      BY Refer DEF DatabasesInv, Sound
    <2> QED BY <1>1, <1>2, <2>1, Names DEF Fits, ReplicaPlaces, Said
  <1>4. PICK v : v = [services[s] EXCEPT !.replica = id]
    OBVIOUS
  <1>5. v \in ServiceRows /\ v.exists = services[s].exists /\ v.bound = services[s].bound /\ v.replica = id
    <2>1. services[s] \in ServiceRows
      BY <1>3 DEF DatabasesInv, Typed
    <2> QED BY <1>3, <1>4, <2>1 DEF ServiceRows
  <1>6. services' = [services EXCEPT ![s] = v]
    BY <1>2, <1>4 DEF RecordReplica
  <1>7. services' \in [Services -> ServiceRows] /\ \A x \in Services : services'[x] = IF x = s THEN v ELSE services[x]
    BY <1>5, <1>6 DEF DatabasesInv, Typed
  <1>8. PICK g : pass' = g /\ Rest(g)
    BY <1>1, OverRests
  <1>9. Recorded'
    BY <1>1, <1>3, <1>5, <1>7 DEF DatabasesInv, Sound, Recorded
  <1>10. \A x \in Services : Present(x)' => Present(x)
    BY <1>1, <1>2, <1>7, <1>8 DEF Present, Rest
  <1>11. \A x \in Services : services[x].exists => Kept(x)
    BY <1>5, <1>7 DEF Kept
  <1>12. g \in Held /\ Fits(g) /\ Honest(g) /\ g.id = None
    BY <1>8, RestFits DEF Rest
  <1> QED BY <1>1, <1>7, <1>8, <1>9, <1>10, <1>11, <1>12, ServicesChange

LEMMA UnrecordReplicaStep ==
    ASSUME DatabasesInv, NEW s \in Services, UnrecordReplica(s)
    PROVE  DatabasesInv'
  <1>1. UNCHANGED <<row, containers, volume, secret, minted, pass, cut, up, scenario>>
    BY DEF UnrecordReplica, limits, dockerVars, secretVars
  <1>2. PICK v : v = [services[s] EXCEPT !.replica = None]
    OBVIOUS
  <1>3. v \in ServiceRows /\ v.exists = services[s].exists /\ v.bound = services[s].bound /\ v.replica = None
    <2>1. services[s] \in ServiceRows
      BY DEF DatabasesInv, Typed
    <2> QED BY <1>2, <2>1 DEF ServiceRows
  <1>4. services' = [services EXCEPT ![s] = v]
    BY <1>2 DEF UnrecordReplica
  <1>5. services' \in [Services -> ServiceRows] /\ \A x \in Services : services'[x] = IF x = s THEN v ELSE services[x]
    BY <1>3, <1>4 DEF DatabasesInv, Typed
  <1>6. Recorded'
    BY <1>1, <1>3, <1>5 DEF DatabasesInv, Sound, Recorded
  <1>7. \A x \in Services : Present(x)' => Present(x)
    BY <1>1, <1>3, <1>5 DEF Present
  <1>8. \A x \in Services : services[x].exists => Kept(x)
    BY <1>3, <1>5 DEF Kept
  <1>9. pass \in Held /\ Fits(pass) /\ Honest(pass)
    BY DEF DatabasesInv, Typed, Sound, Secrets
  <1>10. pass.id # None => \A x \in Services : services'[x].replica # pass.id
    BY <1>3, <1>5, <1>9 DEF Fits
  <1> QED BY <1>1, <1>5, <1>6, <1>7, <1>8, <1>9, <1>10, ServicesChange

----------------------------------------------------------------------------
(* Containers that are lost *)

\* Containers stop or are removed, but not the one the pass is about to record.
Lost ==
    /\ containers' \in [Ids -> Containers]
    /\ pass.id # None => containers'[pass.id] = containers[pass.id]
    /\ \A i \in Ids :
        /\ containers'[i].of \in {containers[i].of, "nothing"}
        /\ containers'[i].running => containers'[i] = containers[i]
        /\ containers'[i].of \in Services => containers'[i] = containers[i]

LEMMA LostStep ==
    ASSUME DatabasesInv, Lost, UNCHANGED <<row, services, volume, secret, minted, pass, cut, scenario>>,
           UNCHANGED up \/ (up' = TRUE /\ ~Running(row.container)')
    PROVE  DatabasesInv'
  <1>1. Typed'
    BY DEF DatabasesInv, Typed, Lost
  <1>2. \A i \in Ids \cup {None} : ForDatabase(i) => ForDatabase(i)'
    BY DEF ForDatabase, Lost
  <1>3. Recorded'
    BY Refer DEF DatabasesInv, Sound, Recorded, Lost
  <1>4. OneDatabase'
    BY DEF DatabasesInv, Sound, OneDatabase, Lost
  <1>5. ForDatabase(row.container)'
    BY <1>2, Refer DEF DatabasesInv, Sound
  <1>6. Fits(pass)'
    <2>1. Fits(pass) /\ ForDatabase(pass.base.container)'
      BY <1>2, Refer DEF DatabasesInv, Sound, Fits
    <2>2. pass.id # None => containers'[pass.id].of = pass.service
      BY <2>1 DEF Fits, Lost
    <2> QED BY <2>1, <2>2 DEF Fits, ForDatabase, Said, Steady
  <1>7. Sound'
    BY <1>3, <1>4, <1>5, <1>6 DEF DatabasesInv, Sound
  <1>8. Joining'
    <2>1. Running(row.container)' => Running(row.container) /\ \A s \in Services : Joined(s) => Joined(s)'
      BY Refer DEF DatabasesInv, Running, Joined, Lost
    <2> QED BY <2>1 DEF DatabasesInv, Joining, Steady, Present
  <1>9. Secrets'
    <2>1. \A i \in Ids : Given(containers[i]) => Given(containers'[i])
      BY DEF Given, Lost
    <2> QED BY <2>1 DEF DatabasesInv, Secrets, Honest, Given
  <1> QED BY <1>1, <1>7, <1>8, <1>9 DEF DatabasesInv

\* One container stops or is gone.
LEMMA OneLost ==
    ASSUME DatabasesInv, NEW i \in Ids, NEW c \in Containers, containers' = [containers EXCEPT ![i] = c],
           c.of \in {containers[i].of, "nothing"}, c.of \notin Services, ~c.running, pass.id # i
    PROVE  Lost
  BY Refer DEF DatabasesInv, Typed, Lost

LEMMA RetireReplicaStep ==
    ASSUME DatabasesInv, NEW s \in Services, RetireReplica(s)
    PROVE  DatabasesInv'
  <1>1. /\ UNCHANGED <<row, services, volume, secret, minted, pass, cut, up, scenario>>
        /\ services[s].replica # None /\ containers' = [containers EXCEPT ![services[s].replica] = NoContainer]
    BY DEF RetireReplica, Client, secretVars
  <1>2. PICK i : i = services[s].replica
    OBVIOUS
  <1>3. i \in Ids /\ i # pass.id
    BY <1>1, <1>2, Refer DEF DatabasesInv, Sound, Fits
  <1>4. Lost
    BY <1>1, <1>2, <1>3, Rooms, Names, OneLost
  <1> QED BY <1>1, <1>4, LostStep

LEMMA DatabaseFailsStep ==
    ASSUME DatabasesInv, NEW i \in Ids, NEW how, DatabaseFails(i, how)
    PROVE  DatabasesInv'
  <1>1. UNCHANGED <<row, services, volume, secret, minted, pass, cut, up, scenario>> /\ containers[i].of = "database"
    BY DEF DatabaseFails, Fault, secretVars
  <1>2. PICK c : c = IF how = "vanishes" THEN NoContainer ELSE [containers[i] EXCEPT !.running = FALSE]
    OBVIOUS
  <1>3. containers[i] \in Made
    BY <1>1, Rooms DEF DatabasesInv, Typed, Containers
  <1>4. c \in Containers /\ c.of \in {"database", "nothing"} /\ ~c.running
    <2>1. CASE how = "vanishes"
      BY <1>2, <2>1, Rooms
    <2>2. CASE how # "vanishes"
      BY <1>1, <1>2, <1>3, <2>2 DEF Made, Containers
    <2> QED BY <2>1, <2>2
  <1>5. containers' = [containers EXCEPT ![i] = c]
    BY <1>2 DEF DatabaseFails
  <1>6. pass.id # i
    <2>1. Fits(pass) /\ i # None
      BY Rooms DEF DatabasesInv, Sound
    <2> QED BY <1>1, <2>1, Names DEF Fits, ReplicaPlaces
  <1>7. Lost
    BY <1>1, <1>4, <1>5, <1>6, Names, OneLost
  <1> QED BY <1>1, <1>7, LostStep

LEMMA StartStep == ASSUME DatabasesInv, Start PROVE DatabasesInv'
  <1>1. ~up /\ up' = TRUE /\ UNCHANGED <<row, services, volume, secret, minted, pass, cut, scenario>>
    BY DEF Start, limits, secretVars
  <1>2. pass.id = None
    BY <1>1, IdleIs DEF DatabasesInv, Sound
  <1>3. PICK kept : kept = {services[s].replica : s \in Services}
    OBVIOUS
  <1>4. containers' = [i \in Ids |-> IF containers[i].running /\ i \notin kept THEN NoContainer ELSE containers[i]]
    BY <1>3 DEF Start
  <1>5. containers' \in [Ids -> Containers]
    BY <1>4, Rooms DEF DatabasesInv, Typed
  <1>6. Lost
    BY <1>2, <1>4, <1>5, Rooms, Names DEF Lost
  <1>7. ~Running(row.container)'
    <2>1. row.container \in Ids \cup {None} /\ ForDatabase(row.container)
      BY Refer DEF DatabasesInv, Sound
    <2>2. row.container # None /\ containers[row.container].running => row.container \notin kept
      <3> SUFFICES ASSUME row.container # None, containers[row.container].running,
                          NEW s \in Services, services[s].replica = row.container
                   PROVE  FALSE
        BY <1>3
      <3>1. containers[row.container].of = "database"
        BY <2>1, Refer, Rooms DEF ForDatabase, DatabasesInv
      <3> QED BY <3>1, Names DEF DatabasesInv, Sound, Recorded
    <2> QED BY <1>1, <1>4, <2>1, <2>2, Rooms DEF Running
  <1> QED BY <1>1, <1>6, <1>7, LostStep

LEMMA CrashStep == ASSUME DatabasesInv, Crash PROVE DatabasesInv'
  <1>1. /\ up /\ up' = FALSE /\ pass' = Idle
        /\ UNCHANGED <<row, services, containers, volume, secret, minted, cut, scenario>>
    BY DEF Crash, Fault, Abort, dockerVars, secretVars
  <1>2. PICK g : g = Idle
    OBVIOUS
  <1>3. g \in Held /\ Fits(g) /\ Honest(g) /\ pass' = g
    BY <1>1, <1>2, IdleRests, RestFits, IdleIs
  <1>4. Typed'
    BY <1>1, <1>3 DEF DatabasesInv, Typed
  <1>5. Fits(pass)'
    BY <1>1, <1>3 DEF Fits, ForDatabase, Said, Steady
  <1>6. Sound'
    BY <1>1, <1>5 DEF DatabasesInv, Sound, Recorded, OneDatabase, ForDatabase, Idle, NoRow
  <1>7. Joining'
    BY <1>1 DEF Joining
  <1>8. Secrets'
    <2>1. Honest(pass)'
      BY <1>1, <1>3 DEF Honest
    <2> QED BY <1>1, <2>1 DEF DatabasesInv, Secrets, Given
  <1> QED BY <1>4, <1>6, <1>7, <1>8 DEF DatabasesInv

----------------------------------------------------------------------------
(* The invariant, and what it says *)

LEMMA DatabasesInit == Init => DatabasesInv
  <1> SUFFICES ASSUME Init PROVE DatabasesInv
    OBVIOUS
  <1>1. pass = Idle /\ Fits(Idle) /\ Honest(Idle) /\ Idle \in Held
    BY IdleRests, RestFits, IdleIs DEF Init
  <1>2. \A i \in Ids : containers[i] = NoContainer
    BY DEF Init
  <1>3. \A s \in Services : services[s] = NoServiceRow /\ services[s].replica = None /\ ~services[s].bound
    BY DEF Init, NoServiceRow
  <1>4. Typed
    BY <1>1, Rooms DEF Init, Typed, Words
  <1>5. Sound
    <2>1. Recorded /\ OneDatabase
      BY <1>2, <1>3, Rooms DEF Recorded, OneDatabase
    <2>2. ForDatabase(row.container)
      BY Rooms DEF ForDatabase, Init
    <2> QED BY <1>1, <2>1, <2>2 DEF Sound
  <1>6. Joining
    BY <1>3 DEF Joining
  <1>7. Secrets
    BY <1>1, <1>2, Names, Rooms DEF Secrets, Given, Init
  <1> QED BY <1>4, <1>5, <1>6, <1>7 DEF DatabasesInv

LEMMA PassStepKeeps == ASSUME DatabasesInv, PassStep PROVE DatabasesInv'
  BY ListDatabasesStep, ReconcileStep, CreateDatabaseStep, PutDatabaseStep, JoinBoundServicesStep,
     ListServicesStep, PassEnds, BeginReplicaStep, GetSecretStep, CreateSecretStep, DatabaseEnvStep,
     CreateReplicaStep, AttachReplicaStep, RecordReplicaStep
     DEF PassStep

LEMMA DatabasesNext == DatabasesInv /\ [Next]_vars => DatabasesInv'
  <1> SUFFICES ASSUME DatabasesInv, [Next]_vars PROVE DatabasesInv'
    OBVIOUS
  <1>1. CASE UNCHANGED vars
    <2>1. UNCHANGED <<row, services, containers, volume, secret, minted, pass, cut, up, scenario>>
      BY <1>1 DEF vars, dockerVars, secretVars, limits
    <2>2. Typed'
      BY <2>1 DEF DatabasesInv, Typed
    <2>3. Sound'
      BY <2>1 DEF DatabasesInv, Sound, Recorded, OneDatabase, ForDatabase, Fits, Said, Steady, Idle, NoRow
    <2>4. Joining' /\ Secrets'
      BY <2>1 DEF DatabasesInv, Joining, Present, Steady, Running, Joined, Secrets, Honest, Given
    <2> QED BY <2>2, <2>3, <2>4 DEF DatabasesInv
  <1>2. CASE PassStep
    BY <1>2, PassStepKeeps
  <1>3. CASE JoinFails \/ PassFails
    BY <1>3, JoinFailsStep, PassEnds
  <1>4. CASE ApplyDatabase \/ DestroyDatabase
    <2>1. /\ row' \in {NoRow, Pending}
          /\ UNCHANGED <<services, containers, volume, secret, minted, pass, cut, up, scenario>>
      BY <1>4 DEF ApplyDatabase, DestroyDatabase, Client, dockerVars, secretVars
    <2> QED BY <2>1, RowStep
  <1>5. CASE \E s \in Services, bound \in BOOLEAN : ApplyService(s, bound)
    BY <1>5, ApplyServiceStep
  <1>6. CASE \E s \in Services : RetireReplica(s) \/ UnrecordReplica(s)
    BY <1>6, RetireReplicaStep, UnrecordReplicaStep
  <1>7. CASE \E i \in Ids, how \in {"stops", "vanishes"} : DatabaseFails(i, how)
    BY <1>7, DatabaseFailsStep
  <1>8. CASE Crash
    BY <1>8, CrashStep
  <1>9. CASE Start
    BY <1>9, StartStep
  <1> QED BY <1>1, <1>2, <1>3, <1>4, <1>5, <1>6, <1>7, <1>8, <1>9 DEF Next

LEMMA DatabasesAlways == Spec => []DatabasesInv
  BY DatabasesInit, DatabasesNext, PTL DEF Spec

\* A bound service with a replica and the database that its row names share a
\* network, in whatever order the two started, whatever was lost since and
\* wherever a pass was cut off but in the joining of that container, of which
\* the next pass knows nothing (_attach_service_replica_networks,
\* _attach_database_to_bound_service_networks).
THEOREM BoundAreJoined == Spec => []BoundJoined
  <1>1. DatabasesInv => BoundJoined
    BY DEF DatabasesInv, Joining, Present, Steady, BoundJoined
  <1> QED BY <1>1, DatabasesAlways, PTL

\* Every recorded replica that is there holds the password the data was made
\* with and its service's token as it is stored, wherever passes were cut off
\* between making a secret and using it (_database_password, _service_token).
THEOREM CredentialsStayGood == Spec => []CredentialsAgree
  <1>1. DatabasesInv => CredentialsAgree
    <2> SUFFICES ASSUME DatabasesInv, NEW s \in Services, services[s].replica # None,
                        NEW c, c = containers[services[s].replica], c # NoContainer
                 PROVE  c.token = secret[s] /\ (c.password # None /\ volume # None => c.password = volume)
      BY DEF CredentialsAgree
    <2>1. services[s].replica \in Ids /\ c \in Containers
      BY Refer DEF DatabasesInv
    <2>2. c.of = s
      BY <2>1, Rooms DEF DatabasesInv, Sound, Recorded
    <2>3. Given(c) /\ (volume # None => volume = secret["password"])
      BY <2>1 DEF DatabasesInv, Secrets
    <2> QED BY <2>2, <2>3 DEF Given
  <1> QED BY <1>1, DatabasesAlways, PTL
=============================================================================
