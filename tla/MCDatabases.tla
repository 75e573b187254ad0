----------------------------- MODULE MCDatabases -----------------------------
EXTENDS Databases

CONSTANTS s1, s2

\* Replicas come and go, and everything is lost or raises at any time.
Joining == [services |-> {s1}, ops |-> {"destroy", "retire"}, maxOps |-> 4,
            faults |-> {"vanishes", "crash", "docker", "error"}, maxFaults |-> 2, containers |-> 5]

\* Two services bound to a database that is not destroyed.
Serving == [services |-> {s1, s2}, ops |-> {}, maxOps |-> 3,
            faults |-> {"stops", "vanishes", "crash", "docker", "error"}, maxFaults |-> 2, containers |-> 7]

\* Two services, and a database whose row is destroyed and applied again.
Secrets == [services |-> {s1, s2}, ops |-> {"destroy"}, maxOps |-> 4,
            faults |-> {"stops", "crash", "error"}, maxFaults |-> 1, containers |-> 4]

AllScenarios == {Joining, Serving, Secrets}

\* Scenarios in which a binding or a destroy has no effect, and in which one
\* call raises while the database joins its networks.
Alone == [services |-> {s1}, ops |-> {}, maxOps |-> 3,
          faults |-> {}, maxFaults |-> 0, containers |-> 4]
LateBinding == {[Alone EXCEPT !.ops = {"bind"}]}
LateUnbinding == {[Alone EXCEPT !.ops = {"unbind"}]}
Destroying == {[Alone EXCEPT !.ops = {"destroy"}]}
CutOff == {[Alone EXCEPT !.faults = {"error"}, !.maxFaults = 1]}

(* Properties *)

\* A database whose row stays gets a container that runs and that the bound
\* services reach, after any loss of the container or of the orchestrator and
\* after any pass that raised but in the joining of that container.
StaysServed == scenario = Serving => DatabaseServes
=============================================================================
