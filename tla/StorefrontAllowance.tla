------------------------ MODULE StorefrontAllowance -------------------------
(***************************************************************************)
(* What the storefront refresh promises about Riot, without leases, claims *)
(* or sessions: every storefront request is paid for by an allowance, an   *)
(* allowance is spent before the request leaves, it pays for one request   *)
(* at most, and it is never paid back.                                     *)
(***************************************************************************)
CONSTANTS
    Allowances,     \* an automatic or a manual check of one store day
    Requesters      \* whoever may ask Riot for a storefront

VARIABLES
    spent,          \* allowances that are used up
    granted,        \* <<requester, allowance>> pairs that may become a request
    sent            \* <<requester, allowance>> pairs that went out to Riot

vars == <<spent, granted, sent>>

Init == spent = {} /\ granted = {} /\ sent = {}

\* Spending an allowance pays for one request, or for none when the requester
\* never learns that it succeeded.
Spend(k) ==
    /\ k \in Allowances \ spent
    /\ spent' = spent \cup {k}
    /\ \/ \E r \in Requesters : granted' = granted \cup {<<r, k>>}
       \/ UNCHANGED granted
    /\ UNCHANGED sent

Send(p) ==
    /\ p \in granted \ sent
    /\ sent' = sent \cup {p}
    /\ UNCHANGED <<spent, granted>>

Next ==
    \/ \E k \in Allowances : Spend(k)
    \/ \E p \in granted : Send(p)

Spec == Init /\ [][Next]_vars

\* At most one request was ever sent for an allowance.
OncePerAllowance ==
    \A p, q \in sent : p[2] = q[2] => p = q

\* Why: an allowance in granted is spent, and was granted to one requester.
GrantInv ==
    /\ sent \subseteq granted
    /\ \A p \in granted : p[2] \in spent
    /\ \A p, q \in granted : p[2] = q[2] => p = q
=============================================================================
