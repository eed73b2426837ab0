------------------------ MODULE MCCredentialConnect ------------------------
(* Model values for CredentialConnect. *)
EXTENDS CredentialConnect, TLC

CONSTANTS login, otherLogin, code, otherCode, export, alpha, beta

Symmetry == Permutations(Logins) \cup Permutations(Codes) \cup Permutations(Accounts)
=============================================================================
