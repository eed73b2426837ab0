-------------------------- MODULE MCDashboardStatus --------------------------
(* Small instances of DashboardStatus for TLC.                              *)
EXTENDS DashboardStatus, TLC

CONSTANTS r1, r2, c1, u1, a1

OneOwner == [c \in Connections |-> u1]

\* At most one of: a tick, a midnight, a reconnect, a run with a fault.
Budget ==
    now + today + (IF conn[Selected].epoch > 1 THEN 1 ELSE 0)
      + Cardinality({r \in Runs : faults[r] > 0}) <= 1

OneDisturbance == DashboardInit /\ [][DashboardNext /\ Budget']_dashVars

\* The button's run is r1, r2 is the scheduler's.  The budget takes away
\* faults only, never the plain answer of a call.
FairPress ==
    /\ DashboardInit
    /\ [][DashboardNext /\ Budget' /\ tab'.run # r2]_dashVars
    /\ DashboardFairness

Symmetry == Permutations(Runs)
=============================================================================
