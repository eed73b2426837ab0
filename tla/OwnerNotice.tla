---------------------------- MODULE OwnerNotice ----------------------------
(***************************************************************************)
(* GET /auth/confirm and the owner's notification of a new account.  The   *)
(* row of account_creation_notifications is queued by a trigger when the   *)
(* user is created; every sign-in callback of that user tries to claim and *)
(* deliver it before it answers, and answers whatever became of it.        *)
(* Callbacks of one user overlap: a link opened twice, two devices.        *)
(***************************************************************************)
EXTENDS Integers

CONSTANTS Callbacks,    \* sign-in callbacks of one user
          MaxFaults     \* bound: crashes, failed calls, lost answers

VARIABLES row,          \* the outbox row
          pc,
          signedIn,     \* callbacks whose session cookies are on the response
          mails,        \* history: messages the provider accepted
          faults

vars == <<row, pc, signedIn, mails, faults>>

\* An account older than the outbox has no row.
Rows == {"none", "queued", "claimed", "emailed"}
Working == {"exchange", "claim", "send", "mark"}
Answers == {"dashboard", "signIn"}
Pcs == {"idle", "crashed"} \cup Working \cup Answers

Init ==
    /\ row \in {"none", "queued"}
    /\ pc = [b \in Callbacks |-> "idle"]
    /\ signedIn = {}
    /\ mails = 0
    /\ faults = 0

Goto(b, label) == pc' = [pc EXCEPT ![b] = label]
Fault == faults < MaxFaults /\ faults' = faults + 1

Open(b) ==
    /\ pc[b] = "idle"
    /\ Goto(b, "exchange")
    /\ UNCHANGED <<row, signedIn, mails, faults>>

\* exchangeCodeForSession or verifyOtp; a spent or foreign link is refused.
Exchange(b) ==
    /\ pc[b] = "exchange"
    /\ \/ Goto(b, "claim") /\ signedIn' = signedIn \cup {b}
       \/ Goto(b, "signIn") /\ UNCHANGED signedIn
    /\ UNCHANGED <<row, mails, faults>>

\* Mutant: any row that was not emailed can be claimed.
ClaimableUnmailed == row \in {"queued", "claimed"}

Claimable == row = "queued"

Claim(b) ==
    /\ pc[b] = "claim"
    /\ \/ Claimable /\ row' = "claimed" /\ Goto(b, "send")
       \/ ~Claimable /\ Goto(b, "dashboard") /\ UNCHANGED row
    /\ UNCHANGED <<signedIn, mails, faults>>

Accept == mails' = IF mails < 2 THEN mails + 1 ELSE 2

Send(b) ==
    /\ pc[b] = "send"
    /\ Accept
    /\ Goto(b, "mark")
    /\ UNCHANGED <<row, signedIn, faults>>

\* Mutant: the row is never marked.
MarkNothing(b) == pc[b] = "mark" /\ Goto(b, "dashboard")
                    /\ UNCHANGED <<row, signedIn, mails, faults>>

Mark(b) ==
    /\ pc[b] = "mark"
    /\ row' = "emailed"
    /\ Goto(b, "dashboard")
    /\ UNCHANGED <<signedIn, mails, faults>>

\* The route's catch: the response is the redirect it had prepared.
Swallowed(b) == Goto(b, "dashboard")

\* A missing configuration, a failed call, or an answer lost after its effect.
NoticeFails(b) ==
    /\ pc[b] \in {"claim", "send", "mark"} /\ Fault
    /\ Swallowed(b)
    /\ \/ UNCHANGED <<row, mails>>
       \/ pc[b] = "claim" /\ Claimable /\ row' = "claimed" /\ UNCHANGED mails
       \/ pc[b] = "send" /\ Accept /\ UNCHANGED row
       \/ pc[b] = "mark" /\ row' = "emailed" /\ UNCHANGED mails
    /\ UNCHANGED signedIn

Crash(b) ==
    /\ pc[b] \in Working /\ Fault
    /\ Goto(b, "crashed")
    /\ UNCHANGED <<row, signedIn, mails>>

Proceed(b) == Exchange(b) \/ Claim(b) \/ Send(b) \/ Mark(b)

Next == \E b \in Callbacks : Open(b) \/ Proceed(b) \/ NoticeFails(b) \/ Crash(b)

Spec == Init /\ [][Next]_vars

\* A request that was received is handled.
FairSpec == Spec /\ \A b \in Callbacks : WF_vars(Proceed(b))

-----------------------------------------------------------------------------
(* Properties.                                                             *)

TypeOK ==
    /\ row \in Rows
    /\ pc \in [Callbacks -> Pcs]
    /\ signedIn \in SUBSET Callbacks
    /\ mails \in 0 .. 2
    /\ faults \in 0 .. MaxFaults

\* The outbox implements the same promise as a storefront reservation: one
\* claim, at most one message, and emailed only when it was accepted.
User == "user"
Single == INSTANCE SingleDelivery
            WITH Keys <- {User},
                 stage <- [k \in {User} |-> CASE row = "none" -> "gone"
                                              [] row = "queued" -> "open"
                                              [] OTHER -> row],
                 mails <- [k \in {User} |-> mails]
ImplementsSingleDelivery == Single!Spec

\* The outbox of 20260823012723 "ensur[es] the owner notification is attempted
\* once per new Auth user": unless a call fails, a sign-in leaves it emailed.
NoticeDelivered ==
    \A b \in Callbacks :
        b \in signedIn ~> row \in {"none", "emailed"} \/ faults > 0
=============================================================================
