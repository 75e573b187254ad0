---------------------------- MODULE MCSharedNodes ----------------------------
EXTENDS SharedNodes, TLC

\* Nodes that two services can fill; a container exits or a pass is cut off
\* within the life of one process.
Full == [sizes |-> {3, 6}, ops |-> {"scale", "delete"}, maxOps |-> 2,
         faults |-> {"exit", "raise"}, maxFaults |-> 1]

\* Passes that are cut off when a replica is charged and not yet recorded: it
\* runs on, charged, and no row knows it.
Leaking == [sizes |-> {3}, ops |-> {"scale", "delete"}, maxOps |-> 2,
            faults |-> {"raise_in_record", "raise"}, maxFaults |-> 2]

\* Room for everything, also for replicas that no row knows and for shares that
\* are released twice or late.
Roomy == [sizes |-> {1}, ops |-> {"scale", "delete"}, maxOps |-> 2,
          faults |-> Faults, maxFaults |-> 1]
Failing == [Roomy EXCEPT !.maxOps = 1, !.maxFaults = 2]

\* The same, for services that change what they ask for.
Resized == [sizes |-> {1, 2}, ops |-> {"resize"}, maxOps |-> 2,
            faults |-> Faults, maxFaults |-> 1]

\* A rollout of one service beside the other.
Rolling == [sizes |-> {2}, ops |-> {"rollout"}, maxOps |-> 1,
            faults |-> {"crash", "exit", "raise"}, maxFaults |-> 1]

\* Scenarios in which the code does overfill a node of capacity 2.
AfterRestart == {[sizes |-> {2}, ops |-> {"scale"}, maxOps |-> 2,
                  faults |-> {"crash"}, maxFaults |-> 1]}
BesideRollout == {[sizes |-> {1}, ops |-> {"scale", "rollout"}, maxOps |-> 3,
                   faults |-> {}, maxFaults |-> 0]}
AfterResize == {[sizes |-> {1, 2}, ops |-> {"scale", "resize"}, maxOps |-> 3,
                 faults |-> {}, maxFaults |-> 0]}
AfterFailure == {[sizes |-> {1, 2}, ops |-> {"scale"}, maxOps |-> 2,
                  faults |-> {"raise_in_removal"}, maxFaults |-> 1]}
Uncharged == {[sizes |-> {2}, ops |-> {"scale"}, maxOps |-> 1,
               faults |-> {"raise_in_start"}, maxFaults |-> 1]}

\* Nothing happens but that Docker refuses one service its network.
Quiet == {[sizes |-> {1}, ops |-> {}, maxOps |-> 0, faults |-> {}, maxFaults |-> 0]}

AllScenarios == {Full, Leaking, Roomy, Failing, Resized, Rolling}

(* Properties *)

\* The ledger in the end says what runs, over containers that exit and passes
\* that are cut off at any step but between the start of a replica and its
\* charge (which leaves it running without a charge) or a removal and its record.
\* A replica that is charged and not recorded stays charged as long as it runs;
\* when it exits, its share is kept until the next start (so not in Leaking).
FullLedger == scenario \in {Full, Leaking} => LedgerRecovers

\* No room is lost for good over restarts, and over rollouts that release what
\* the pass releases.
RollingRoom == scenario = Rolling => RoomComesBack

\* Where there is room every service ends up with the replicas it asks for, or
\* gone, whatever failed for the others.
RoomyServed == scenario \in {Roomy, Failing, Resized} => AllServed
=============================================================================
