--------------------------- MODULE SingleDelivery ---------------------------
(***************************************************************************)
(* What an email reservation promises: a message belongs to one key, one   *)
(* caller claims the key before it calls the provider, the provider gets   *)
(* the message at most once, and only a message it accepted is recorded as *)
(* emailed.  A claimed key whose message was never accepted stays claimed: *)
(* the promise is at most once, not exactly once.                          *)
(***************************************************************************)
EXTENDS Integers

CONSTANT Keys

VARIABLES stage,        \* "open", "claimed", "emailed" or "gone"
          mails         \* messages the provider accepted

vars == <<stage, mails>>

Init ==
    /\ stage \in [Keys -> {"open", "gone"}]
    /\ mails = [k \in Keys |-> 0]

Claim(k) ==
    /\ stage[k] = "open"
    /\ stage' = [stage EXCEPT ![k] = "claimed"]
    /\ UNCHANGED mails

\* The provider accepts the message.  A caller that learns nothing of it, and
\* whose row is deleted already, is gone with it.
Send(k) ==
    /\ stage[k] = "claimed" /\ mails[k] = 0
    /\ mails' = [mails EXCEPT ![k] = 1]
    /\ \/ UNCHANGED stage
       \/ stage' = [stage EXCEPT ![k] = "gone"]

Record(k) ==
    /\ stage[k] = "claimed" /\ mails[k] = 1
    /\ stage' = [stage EXCEPT ![k] = "emailed"]
    /\ UNCHANGED mails

\* Rows are deleted with their owner, several at a time.
Delete ==
    /\ \E ks \in SUBSET Keys :
         stage' = [k \in Keys |-> IF k \in ks THEN "gone" ELSE stage[k]]
    /\ UNCHANGED mails

Next == Delete \/ \E k \in Keys : Claim(k) \/ Send(k) \/ Record(k)

Spec == Init /\ [][Next]_vars
=============================================================================
