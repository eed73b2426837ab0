--------------------------- MODULE MCCloudConnect ---------------------------
(* Small instances of CloudConnect for TLC.                                 *)
EXTENDS CloudConnect, TLC

CONSTANTS q1, q2, q3, create

Symmetry == Permutations(Requests)
=============================================================================
