------------------------- MODULE MCStorefrontWorker -------------------------
(* Small instances of StorefrontWorker for TLC.                             *)
EXTENDS StorefrontWorker, TLC

CONSTANTS r1, r2, r3, c1, c2, u1, a1

\* Every row belongs to the one user u1.
OneOwner == [c \in Connections |-> u1]

Reconnects(c) == IF conn[c].epoch > 1 THEN 1 ELSE 0

\* At most one of: midnight, a reconnect, a fault in the second run too.
Budget ==
    today + Reconnects(c1) + (IF \A r \in Runs : faults[r] > 0 THEN 1 ELSE 0)
      <= 1
FaultsAndTime == Init /\ [][Next /\ Budget']_vars

\* A second account is connected only while the clock stands still and nothing
\* is reconnected.
Quiet == now = 0 /\ today = 0 /\ \A c \in Connections : Reconnects(c) = 0
TimeOrAccounts ==
    Init /\ [][Next /\ (Quiet \/ conn[c2].state = "absent")']_vars

Symmetry == Permutations(Runs)
=============================================================================
