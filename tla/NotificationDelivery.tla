------------------------ MODULE NotificationDelivery ------------------------
(***************************************************************************)
(* What runAccount does once a storefront is stored: plan the emails for   *)
(* the watched skins it offers and deliver them.  Every run is a process   *)
(* of its own, one step is one database call or one call of the email      *)
(* provider, and cron, manual and operator runs of one account overlap     *)
(* here, because the rotation lease is gone by now.  A row of              *)
(* notifications is reserved before the provider is called and marked      *)
(* when it has answered.                                                   *)
(***************************************************************************)
EXTENDS Integers, FiniteSets

CONSTANTS Runs,
          Checks,       \* shop_checks of one user and store day, one per account
          Skins,
          MaxFaults     \* bound: crashes, failed calls, lost answers

VARIABLES rows,         \* notifications, by shop check and skin
          alive,        \* checks whose connection still exists
          watched,      \* the watchlist of each connection
          pc,
          check,        \* the shop check a run has recorded
          offers,       \* the skins of its storefront
          sent,         \* what loadSentNotifications answered
          planned,      \* plan.emails
          todo,         \* planned emails still to be handled
          current,      \* the skins of the email being delivered: one or none
          report,       \* notificationStatus and reason of the account result
          emailsSent,
          mails,        \* history: messages the provider accepted
          delivered,    \* history: the skins a run saw emailed and recorded
          faults

plan == <<check, offers, sent, planned>>
result == <<report, emailsSent>>
history == <<mails, delivered>>
vars == <<rows, alive, watched, pc, check, offers, sent, planned, todo, current,
          report, emailsSent, mails, delivered, faults>>

\* "unattempted" rows were reserved before delivery_attempted_at existed.
Stages == {"none", "unattempted", "claimed", "emailed"}
Pcs == {"idle", "loadSent", "plan", "names", "enrich", "recipient", "reserve",
        "send", "mark", "done", "crashed"}
Reports == {"none", "succeeded", "not-needed", "CATALOG_FAILED",
            "DELIVERY_FAILED"}

Init ==
    /\ rows \in [Checks -> [Skins -> {"none", "unattempted"}]]
    /\ alive = Checks
    /\ watched \in [Checks -> {Skins}]
    /\ pc = [r \in Runs |-> "idle"]
    /\ check \in [Runs -> Checks]
    /\ offers = [r \in Runs |-> {}]
    /\ sent = [r \in Runs |-> {}]
    /\ planned = [r \in Runs |-> {}]
    /\ todo = [r \in Runs |-> {}]
    /\ current = [r \in Runs |-> {}]
    /\ report = [r \in Runs |-> "none"]
    /\ emailsSent = [r \in Runs |-> 0]
    /\ mails = [c \in Checks |-> [s \in Skins |-> 0]]
    /\ delivered = [r \in Runs |-> {}]
    /\ faults = 0

-----------------------------------------------------------------------------
(* The pure parts of the plan.                                             *)

Match(offered, watchlist) == offered \cap watchlist

Decide(matches, already) == matches \ already

Emailed(c) == {s \in Skins : rows[c][s] = "emailed"}

-----------------------------------------------------------------------------
(* One run.                                                                *)

Fault == faults < MaxFaults /\ faults' = faults + 1

Goto(r, label) == pc' = [pc EXCEPT ![r] = label]

End(r, outcome) ==
    /\ Goto(r, "done")
    /\ report' = [report EXCEPT ![r] = outcome]

\* A thrown error: terminated() reports no email, however many were sent.
Fails(r, outcome) ==
    /\ End(r, outcome)
    /\ emailsSent' = [emailsSent EXCEPT ![r] = 0]
    /\ UNCHANGED <<rows, history, todo, current>>

\* The storefront is stored and the lease released.
Start(r) ==
    /\ pc[r] = "idle" /\ check[r] \in alive
    /\ Goto(r, "loadSent")
    /\ \E o \in SUBSET Skins : offers' = [offers EXCEPT ![r] = o]
    /\ UNCHANGED <<rows, alive, watched, check, sent, planned, todo, current,
                   result, history, faults>>

LoadSent(r) ==
    /\ pc[r] = "loadSent"
    /\ Goto(r, "plan")
    /\ sent' = [sent EXCEPT ![r] = IF check[r] \in alive
                                   THEN Emailed(check[r]) ELSE {}]
    /\ UNCHANGED <<rows, alive, watched, check, offers, planned, todo, current,
                   result, history, faults>>

\* Level resolution and the watchlist are read together; names come next.
Plan(r) ==
    /\ pc[r] = "plan"
    /\ LET toSend == Decide(Match(offers[r], watched[check[r]]), sent[r])
       IN  /\ planned' = [planned EXCEPT ![r] = toSend]
           /\ todo' = [todo EXCEPT ![r] = toSend]
           /\ Goto(r, IF toSend = {} THEN "enrich" ELSE "names")
    /\ UNCHANGED <<rows, alive, watched, check, offers, sent, current, result,
                   history, faults>>

Names(r) ==
    /\ pc[r] = "names"
    /\ Goto(r, "enrich")
    /\ UNCHANGED <<rows, alive, watched, plan, todo, current, result, history,
                   faults>>

\* The second record call decorates the row; a deleted row refuses it.
Enrich(r) ==
    /\ pc[r] = "enrich"
    /\ \/ /\ check[r] \in alive
          /\ IF todo[r] = {} THEN End(r, "not-needed")
                             ELSE Goto(r, "recipient") /\ UNCHANGED report
          /\ UNCHANGED <<rows, history, todo, current, emailsSent>>
       \/ check[r] \notin alive /\ Fails(r, "CATALOG_FAILED")
    /\ UNCHANGED <<alive, watched, plan, faults>>

Recipient(r) ==
    /\ pc[r] = "recipient"
    /\ Goto(r, "reserve")
    /\ UNCHANGED <<rows, alive, watched, plan, todo, current, result, history,
                   faults>>

\* Mutant: a reservation that was never accepted is claimed again.
ClaimableUnmailed(row) == row # "emailed"

Claimable(row) == row \in {"none", "unattempted"}

\* Mutant: the first claimed row ends the loop.
AfterSkipStops(r, s) == todo' = [todo EXCEPT ![r] = {}]

\* A row somebody else has claimed is skipped, and the loop goes on.
AfterSkip(r, s) == todo' = [todo EXCEPT ![r] = @ \ {s}]

Reserve(r, s) ==
    /\ pc[r] = "reserve" /\ s \in todo[r]
    /\ LET c == check[r]
       IN  \/ /\ c \in alive /\ Claimable(rows[c][s])
              /\ rows' = [rows EXCEPT ![c][s] = "claimed"]
              /\ current' = [current EXCEPT ![r] = {s}]
              /\ Goto(r, "send")
              /\ UNCHANGED <<todo, history, result>>
           \/ /\ c \in alive /\ ~Claimable(rows[c][s])
              /\ AfterSkip(r, s)
              /\ UNCHANGED <<pc, rows, current, history, result>>
           \/ c \notin alive /\ Fails(r, "DELIVERY_FAILED")
    /\ UNCHANGED <<alive, watched, plan, faults>>

\* The reservation commits and its answer is lost.
ReserveUnanswered(r, s) ==
    /\ pc[r] = "reserve" /\ s \in todo[r] /\ Fault
    /\ check[r] \in alive /\ Claimable(rows[check[r]][s])
    /\ rows' = [rows EXCEPT ![check[r]][s] = "claimed"]
    /\ End(r, "DELIVERY_FAILED")
    /\ emailsSent' = [emailsSent EXCEPT ![r] = 0]
    /\ UNCHANGED <<alive, watched, plan, todo, current, history>>

Accepted(r, s) ==
    mails' = [mails EXCEPT ![check[r]][s] = IF @ < 2 THEN @ + 1 ELSE 2]

Send(r, s) ==
    /\ pc[r] = "send" /\ s \in current[r]
    /\ Accepted(r, s)
    /\ Goto(r, "mark")
    /\ UNCHANGED <<rows, alive, watched, plan, todo, current, result, delivered,
                   faults>>

\* The provider accepts and the answer is lost: the row stays claimed.
SendUnanswered(r, s) ==
    /\ pc[r] = "send" /\ s \in current[r] /\ Fault
    /\ Accepted(r, s)
    /\ End(r, "DELIVERY_FAILED")
    /\ emailsSent' = [emailsSent EXCEPT ![r] = 0]
    /\ UNCHANGED <<rows, alive, watched, plan, todo, current, delivered>>

\* Mutant: a row is marked whether or not the provider was reached.
MarkableAlways(r) == pc[r] \in {"send", "mark"}

Markable(r) == pc[r] = "mark"

\* Mutant: the accepted email is never marked.
MarkNothing(r, s) ==
    /\ Markable(r) /\ s \in current[r]
    /\ todo' = [todo EXCEPT ![r] = @ \ {s}]
    /\ Goto(r, "reserve")
    /\ UNCHANGED <<rows, alive, watched, plan, current, result, history, faults>>

MarkAccepted(r, s) ==
    /\ Markable(r) /\ s \in current[r]
    /\ \/ /\ check[r] \in alive
          /\ rows' = [rows EXCEPT ![check[r]][s] = "emailed"]
          /\ emailsSent' = [emailsSent EXCEPT ![r] = @ + 1]
          /\ todo' = [todo EXCEPT ![r] = @ \ {s}]
          /\ current' = [current EXCEPT ![r] = {}]
          /\ delivered' = [delivered EXCEPT ![r] = @ \cup {s}]
          /\ Goto(r, "reserve")
          /\ UNCHANGED <<report, mails>>
       \/ check[r] \notin alive /\ Fails(r, "DELIVERY_FAILED")
    /\ UNCHANGED <<alive, watched, plan, faults>>

\* The mark commits and its answer is lost: the run counts no email.
MarkUnanswered(r, s) ==
    /\ Markable(r) /\ s \in current[r] /\ Fault
    /\ check[r] \in alive
    /\ rows' = [rows EXCEPT ![check[r]][s] = "emailed"]
    /\ End(r, "DELIVERY_FAILED")
    /\ emailsSent' = [emailsSent EXCEPT ![r] = 0]
    /\ UNCHANGED <<alive, watched, plan, todo, current, history>>

Delivered(r) ==
    /\ pc[r] = "reserve" /\ todo[r] = {}
    /\ End(r, "succeeded")
    /\ UNCHANGED <<rows, alive, watched, plan, todo, current, emailsSent,
                   history, faults>>

\* A call that throws without effect, a refused send among them.
CallFails(r) ==
    /\ Fault
    /\ \/ /\ pc[r] \in {"loadSent", "plan", "names", "enrich"}
          /\ Fails(r, "CATALOG_FAILED")
       \/ /\ pc[r] \in {"recipient", "reserve", "send", "mark"}
          /\ Fails(r, "DELIVERY_FAILED")
    /\ UNCHANGED <<alive, watched, plan>>

Crash(r) ==
    /\ pc[r] \notin {"idle", "done", "crashed"} /\ Fault
    /\ Goto(r, "crashed")
    /\ UNCHANGED <<rows, alive, watched, plan, todo, current, result, history>>

-----------------------------------------------------------------------------
(* The user.                                                               *)

\* setSkinWatched: an upsert or a delete of one watchlist row.
SetSkinWatched(c, s) ==
    /\ c \in alive
    /\ watched' = [watched EXCEPT ![c] = IF s \in @ THEN @ \ {s} ELSE @ \cup {s}]
    /\ UNCHANGED <<rows, alive, pc, plan, todo, current, result, history, faults>>

\* Deleting a connection deletes its checks, notifications and watchlist.
Disconnect(c) ==
    /\ c \in alive
    /\ alive' = alive \ {c}
    /\ rows' = [rows EXCEPT ![c] = [s \in Skins |-> "none"]]
    /\ watched' = [watched EXCEPT ![c] = {}]
    /\ UNCHANGED <<pc, plan, todo, current, result, history, faults>>

Planning(r) == LoadSent(r) \/ Plan(r) \/ Names(r) \/ Enrich(r) \/ Recipient(r)

Delivering(r) ==
    \/ \E s \in Skins : Reserve(r, s) \/ Send(r, s) \/ MarkAccepted(r, s)
    \/ Delivered(r)

Failing(r) ==
    \/ \E s \in Skins :
          ReserveUnanswered(r, s) \/ SendUnanswered(r, s) \/ MarkUnanswered(r, s)
    \/ CallFails(r) \/ Crash(r)

Next ==
    \/ \E r \in Runs : Start(r) \/ Planning(r) \/ Delivering(r) \/ Failing(r)
    \/ \E c \in Checks : Disconnect(c) \/ \E s \in Skins : SetSkinWatched(c, s)

Spec == Init /\ [][Next]_vars

\* A running process goes on; users and faults owe nothing.
FairSpec == Spec /\ \A r \in Runs : WF_vars(Planning(r) \/ Delivering(r))

-----------------------------------------------------------------------------
(* Properties.                                                             *)

TypeOK ==
    /\ rows \in [Checks -> [Skins -> Stages]]
    /\ alive \in SUBSET Checks
    /\ watched \in [Checks -> SUBSET Skins]
    /\ pc \in [Runs -> Pcs]
    /\ check \in [Runs -> Checks]
    /\ offers \in [Runs -> SUBSET Skins]
    /\ sent \in [Runs -> SUBSET Skins]
    /\ planned \in [Runs -> SUBSET Skins]
    /\ todo \in [Runs -> SUBSET Skins]
    /\ current \in [Runs -> SUBSET Skins]
    /\ report \in [Runs -> Reports]
    /\ emailsSent \in [Runs -> Nat]
    /\ mails \in [Checks -> [Skins -> 0 .. 2]]
    /\ delivered \in [Runs -> SUBSET Skins]
    /\ faults \in 0 .. MaxFaults

\* Run r is delivering skin s of check c.
Holds(r, c, s) == pc[r] \in {"send", "mark"} /\ check[r] = c /\ s \in current[r]

\* However the runs of a check overlap, crash or lose answers, the user gets
\* at most one email for a skin of it ("at-most-once claim set before calling
\* the email provider").
AtMostOneMail == \A c \in Checks, s \in Skins : mails[c][s] <= 1

\* Why: an unclaimed row was never mailed, and a claimed one has at most one
\* holder, which has not mailed it before it reaches the mark.
ReservationInv ==
    /\ \A c \in alive, s \in Skins : Claimable(rows[c][s]) => mails[c][s] = 0
    /\ \A r1, r2 \in Runs, c \in Checks, s \in Skins :
         Holds(r1, c, s) /\ Holds(r2, c, s) => r1 = r2
    /\ \A r \in Runs, c \in Checks, s \in Skins :
         Holds(r, c, s) =>
            /\ pc[r] = "send" => mails[c][s] = 0
            /\ pc[r] = "mark" => mails[c][s] = 1
            /\ c \in alive => rows[c][s] = "claimed"
    /\ \A c \in Checks, s \in Skins :
         rows[c][s] = "emailed" => mails[c][s] = 1
    /\ AtMostOneMail

\* Without faults no reservation is lost: a claimed row that is not emailed
\* is being delivered by somebody.
NoSilentLoss ==
    faults = 0 =>
        \A c \in alive, s \in Skins :
            rows[c][s] = "claimed" => \E r \in Runs : Holds(r, c, s)

\* A run that reports success leaves no email of its plan behind: each has
\* been claimed, by this run or by another one.
SuccessCoversPlan ==
    \A r \in Runs : report[r] = "succeeded" /\ check[r] \in alive =>
        \A s \in planned[r] : rows[check[r]][s] \in {"claimed", "emailed"}

\* The delivery implements the reservation's promise.  A row that is deleted
\* while a run delivers it stays claimed until that run is through.
Key == Checks \X Skins
StageOf(c, s) ==
    CASE c \in alive /\ Claimable(rows[c][s]) -> "open"
      [] c \in alive /\ ~Claimable(rows[c][s]) -> rows[c][s]
      [] c \notin alive /\ (\E r \in Runs : Holds(r, c, s)) -> "claimed"
      [] OTHER -> "gone"
Single == INSTANCE SingleDelivery
            WITH Keys <- Key,
                 stage <- [k \in Key |-> StageOf(k[1], k[2])],
                 mails <- [k \in Key |-> mails[k[1]][k[2]]]
ImplementsSingleDelivery == Single!Spec

\* Under fairness a planned email is emailed, deleted with its account or
\* lost to a fault: the loop neither blocks nor forgets one.
PlannedIsSettled ==
    \A r \in Runs, s \in Skins :
        s \in todo[r] ~>
            \/ rows[check[r]][s] = "emailed"
            \/ check[r] \notin alive
            \/ faults > 0

\* README.md: the run log records "how many emails were actually sent".
RunLogCountsEmails ==
    \A r \in Runs : pc[r] = "done" => emailsSent[r] = Cardinality(delivered[r])

\* SECURITY.md: "Storefront notifications are reserved atomically by user,
\* skin, and UTC rotation."
OneMailPerUserAndSkin ==
    \A s \in Skins, c1, c2 \in Checks :
        mails[c1][s] > 0 /\ mails[c2][s] > 0 => c1 = c2
=============================================================================
