---------------------------- MODULE MCUpdateSystem ----------------------------
(* Small instances: one update of the container, one rollback job.           *)
EXTENDS UpdateSystem, TLC

CONSTANTS u1, r1

Scenario(cancellable, overrun, late, cleanups, crashed, lostWrites) ==
    [cancellable |-> cancellable, overrun |-> overrun, late |-> late,
     cleanups |-> cleanups, crashes |-> crashed, lostWrites |-> lostWrites]

\* Cancels at every point, a host cleanup and a lost write without a crash;
\* two crashes with overrun deadlines and a lost write; a crash with overrun
\* deadlines whose workers end in time; a crash with cancels that meet it and
\* a worker request that outlives the process.
MCScenarios ==
    {Scenario({u1}, {}, {}, TRUE, 0, 1),
     Scenario({}, {u1, r1}, {}, FALSE, 2, 1),
     Scenario({}, {u1, r1}, {}, FALSE, 1, 1),
     Scenario({u1}, {}, {u1}, FALSE, 1, 0)}

MCOneCrash == {Scenario({}, {}, {}, FALSE, 1, 0)}
=============================================================================
