------------------------- MODULE MCExtensionConnect -------------------------
(* Model values for ExtensionConnect. *)
EXTENDS ExtensionConnect, TLC

CONSTANTS window, otherWindow, first, second

Symmetry == Permutations(Panels) \cup Permutations(Requests)
=============================================================================
