--------------------------- MODULE DashboardStatus ---------------------------
(***************************************************************************)
(* One browser tab on the dashboard of one account, over the worker and    *)
(* its tables.  loadStorefrontDashboardStatus reads the account list, the  *)
(* store day, the connection row and the manual row one after the other,   *)
(* the shop in parallel; the refresh button starts a manual run through    *)
(* refreshRiotStorefront, shows its outcome and reads everything again.    *)
(* Cron and operator runs start at any time, and so does the rest of       *)
(* StorefrontWorker: the tab shows what was true when it was read.         *)
(***************************************************************************)
EXTENDS StorefrontWorker

CONSTANT Selected       \* the connection the dashboard shows

ASSUME SelectedAssumption == Selected \in Connections
ASSUME ManualAssumption == "manual" \in Triggers

VARIABLES
    tab,        \* what the tab has read, shows and waits for
    report,     \* the reason runAccount ended with
    lastLog,    \* reason of the newest automatic riot_run_logs row with a run id
    lastCheck   \* reason of the newest claimed run to end, of any trigger

tabVars == <<tab, report, lastLog, lastCheck>>
dashVars == <<vars, tabVars>>

\* The reasons of runs that ended without a run id, and with one.
Unstarted == {"none", "skipped", "leased", "unavailable", "held", "unexpected"}
Reasons ==
    Unstarted \cup {"session", "fenced", "lease", "storefront", "stale",
                     "catalog", "ok"}
Checked == {"ok", "catalog", "stale"}

Availabilities ==
    {"succeeded", "exhausted", "in-progress", "reconnect", "unverified",
     "uncertain", "leased", "available"}
Messages ==
    {"none", "updated", "notConnected", "used", "refreshing", "notReady",
     "reconnect", "failed"}

Tab ==
    [step : {"accounts", "day", "identity", "manual", "shown", "owned",
             "starting", "acting"},
     auth : AuthStatuses \cup {"gone"}, now : Nat, day : Days,
     puuid : Accounts \cup {NoAccount}, view : Availabilities,
     run : Runs \cup {NoRun}, message : Messages]

DashboardTypeOK ==
    /\ tab \in Tab
    /\ report \in [Runs -> Reasons]
    /\ lastLog \in [Connections -> Reasons]
    /\ lastCheck \in [Connections -> Reasons]

DashboardInit ==
    /\ Init
    /\ tab = [step |-> "accounts", auth |-> "gone", now |-> 0, day |-> 0,
              puuid |-> NoAccount, view |-> "unverified", run |-> NoRun,
              message |-> "none"]
    /\ report = [r \in Runs |-> "none"]
    /\ lastLog = [c \in Connections |-> "none"]
    /\ lastCheck = [c \in Connections |-> "none"]

-----------------------------------------------------------------------------
(* manualAvailability.                                                      *)

\* Mutant: an attempted lease of today counts as stale like any other.
HoldTimed(l, d, t) ==
    IF l.token = NoRun \/ l.day # d \/ l.at < t THEN "available"
    ELSE IF l.attempted # 0 THEN "uncertain" ELSE "leased"

\* What the lease columns say of store day d at time t.
Hold(l, d, t) ==
    IF l.token = NoRun \/ l.day # d THEN "available"
    ELSE IF l.attempted # 0 THEN "uncertain"
    ELSE IF l.at >= t THEN "leased" ELSE "available"

\* An account without a manual row that settles the day.
Offered(auth, puuid, hold) ==
    IF auth # "CONNECTED" THEN "reconnect"
    ELSE IF puuid = NoAccount THEN "unverified" ELSE hold

\* Mutant: only the outcome written last counts, not that a request went out.
AvailabilityFailedIsDone(auth, puuid, hold, m, t) ==
    IF m.status = "succeeded" \/ m.failed THEN "succeeded"
    ELSE IF m.status = "requesting" \/ (m.status = "claimed" /\ m.at >= t)
    THEN "in-progress" ELSE Offered(auth, puuid, hold)

Availability(auth, puuid, hold, m, t) ==
    CASE m.status = "succeeded" -> "succeeded"
      [] m.status = "requesting" ->
           IF m.failed THEN "exhausted" ELSE "in-progress"
      [] m.status = "claimed" /\ m.at >= t -> "in-progress"
      [] OTHER -> Offered(auth, puuid, hold)

\* The current manual row of a PUUID; without one there is none.
ManualOf(a, d) == IF a = NoAccount THEN NoManual ELSE manual[a][d]

\* The status of a connection if every read happened now.
StatusNow(c) ==
    Availability(conn[c].auth, conn[c].puuid, Hold(lease[c], today, now),
                 ManualOf(conn[c].puuid, today), now)

-----------------------------------------------------------------------------
(* Loading the page, one query per action.                                  *)

ReadAccounts ==
    /\ tab.step = "accounts"
    /\ tab' = [tab EXCEPT
                 !.step = IF Live(Selected) THEN "day" ELSE "shown",
                 !.auth = IF Live(Selected) THEN conn[Selected].auth
                                            ELSE "gone"]

ReadStoreDay ==
    /\ tab.step = "day"
    /\ tab' = [tab EXCEPT !.step = "identity", !.now = now, !.day = today]

\* A row deleted since has no PUUID and no lease: undefined in the map.
ReadIdentity ==
    /\ tab.step = "identity"
    /\ tab' = [tab EXCEPT
                 !.step = "manual",
                 !.puuid = IF Live(Selected) THEN conn[Selected].puuid
                                             ELSE NoAccount,
                 !.view = Hold(lease[Selected], tab.day, tab.now)]

ReadManual ==
    /\ tab.step = "manual"
    /\ tab' = [tab EXCEPT
                 !.step = "shown",
                 !.view = Availability(tab.auth, tab.puuid, tab.view,
                                       ManualOf(tab.puuid, tab.day), tab.now)]

\* Another navigation or a revalidation loads the page again; the button keeps
\* its message.
Reload ==
    /\ tab.step = "shown"
    /\ tab' = [tab EXCEPT !.step = "accounts"]

-----------------------------------------------------------------------------
(* The refresh button and refreshRiotStorefront.                            *)

\* The control is rendered for a connected account only, and is disabled
\* unless the status says "available".
Press(r) ==
    /\ tab.step = "shown" /\ tab.auth = "CONNECTED" /\ tab.view = "available"
    /\ At(r, "idle")
    /\ tab' = [tab EXCEPT !.step = "owned", !.message = "none", !.run = r]

Finished(message) ==
    tab' = [tab EXCEPT !.step = "accounts", !.message = message]

\* The ownership read before the worker is built.
CheckOwnership ==
    /\ tab.step = "owned"
    /\ IF Live(Selected) THEN tab' = [tab EXCEPT !.step = "starting"]
                         ELSE Finished("notConnected")

\* listConnections finds the row gone: the summary has no such account.
StartNothing ==
    /\ tab.step = "starting" /\ ~Live(Selected)
    /\ Finished("failed")

\* Mutant: the reason of a refused run is not looked at.
MessageOptimistic(r) ==
    IF report[r] \in Checked \cup {"fenced"} THEN "updated" ELSE "failed"

\* Mutant: a failed session is taken for a dead one.
MessageAnyClass(r) ==
    CASE report[r] \in Checked -> "updated"
      [] report[r] = "session" -> "reconnect"
      [] OTHER -> "failed"

MessageOf(r) ==
    CASE report[r] \in Checked -> "updated"
      [] report[r] = "held" -> "used"
      [] report[r] \in {"leased", "lease"} -> "refreshing"
      [] report[r] = "unavailable" -> "notReady"
      [] report[r] \in {"session", "storefront"} /\ ctl[r].result = "DEAD" ->
           "reconnect"
      [] OTHER -> "failed"

\* Mutant: the tab has no catch for an action that died.
AnsweredAlive ==
    /\ tab.step = "acting" /\ pc[tab.run] = "done"
    /\ Finished(MessageOf(tab.run))

\* The action returns, or its process died; either way the page is refreshed.
Answered ==
    /\ tab.step = "acting" /\ pc[tab.run] \in Ended
    /\ Finished(IF pc[tab.run] = "done" THEN MessageOf(tab.run) ELSE "failed")

TabStep ==
    \/ ReadAccounts \/ ReadStoreDay \/ ReadIdentity \/ ReadManual
    \/ CheckOwnership \/ StartNothing \/ Answered

-----------------------------------------------------------------------------
(* The reason a run ends with, and its log row.                             *)

\* The step r takes throws instead of being refused.
Throws(r) == faults'[r] # faults[r]

\* The reason fixed by the step that r takes, or the one it had.
ReasonOf(r) ==
    CASE At(r, "idle") -> "skipped"
      [] At(r, "acquire") ->
           IF Throws(r) THEN "unexpected"
           ELSE IF Usable(C(r), E(r)) THEN "leased" ELSE "unavailable"
      [] At(r, "claim") ->
           IF Throws(r) THEN "unexpected"
           ELSE IF IsManual(r) /\ ~ManualAvailable(r, C(r), E(r))
           THEN "unavailable" ELSE "held"
      [] pc[r] \in {"load", "refresh"} -> "session"
      [] At(r, "renew") -> IF Throws(r) THEN "fenced" ELSE "lease"
      [] pc[r] \in {"persist", "mark"} -> "fenced"
      [] pc[r] \in {"prepare", "awaiting", "record"} -> "storefront"
      [] At(r, "healthy") -> "stale"
      [] At(r, "enrich") -> "catalog"
      [] At(r, "enrichExtras") -> "ok"
      [] OTHER -> report[r]

\* The step that leaves the straight path decides; later steps keep it.
Decides(r) ==
    \/ /\ pc'[r] \in {"done", "release", "lifecycle", "failRetry", "close"}
       /\ pc[r] \notin {"lifecycle", "failRetry", "close", "release"}
    \/ At(r, "healthy") /\ ~ctl'[r].healthy /\ pc'[r] = "record"

Reported(r) == [report EXCEPT ![r] = IF Decides(r) THEN ReasonOf(r) ELSE @]

\* recordRun, for the rows the dashboard looks at.
LoggedRun(r) ==
    pc'[r] = "done" /\ ~IsManual(r) /\ report'[r] \notin Unstarted

WorkerStep(r) ==
    /\ Proceed(r)
    /\ report' = Reported(r)
    /\ lastLog' = IF LoggedRun(r)
                  THEN [lastLog EXCEPT ![C(r)] = report'[r]] ELSE lastLog
    /\ lastCheck' = IF pc'[r] = "done" /\ report'[r] \notin Unstarted
                    THEN [lastCheck EXCEPT ![C(r)] = report'[r]] ELSE lastCheck
    /\ UNCHANGED tab

Begin(r, c, t) ==
    /\ Start(r, c, t)
    /\ report' = Reported(r)
    /\ UNCHANGED <<lastLog, lastCheck>>

\* listConnections of a manual run: the pressed button's only.
StartManual(r) ==
    /\ tab.step = "starting" /\ r = tab.run
    /\ Begin(r, Selected, "manual")
    /\ tab' = [tab EXCEPT !.step = "acting"]

DashboardNext ==
    \/ /\ TabStep \/ Reload \/ \E r \in Runs : Press(r)
       /\ UNCHANGED <<vars, report, lastLog, lastCheck>>
    \/ \E r \in Runs :
         \/ StartManual(r)
         \/ \E c \in Connections, t \in Triggers \ {"manual"} :
              r # tab.run /\ Begin(r, c, t) /\ UNCHANGED tab
         \/ WorkerStep(r)
         \/ Crash(r) /\ UNCHANGED tabVars
    \/ Environment /\ UNCHANGED <<workerVars, tabVars>>

DashboardSpec == DashboardInit /\ [][DashboardNext]_dashVars

\* Queries and actions return, and an action that was begun runs its worker;
\* every such step moves its tab, or its run's step or local control.
DashboardFairness ==
    /\ WF_tab(TabStep /\ UNCHANGED <<vars, report, lastLog, lastCheck>>)
    /\ WF_tab(\E r \in Runs : StartManual(r))
    /\ \A r \in Runs : WF_<<pc, ctl>>(WorkerStep(r))

FairDashboard == DashboardSpec /\ DashboardFairness

-----------------------------------------------------------------------------
(* Properties.                                                              *)

\* What claim_riot_session_rotation and claim_riot_manual_refresh would accept
\* from a manual run that started now.
ManualWouldRun(c) ==
    /\ RotationClaimable(c, conn[c].epoch)
    /\ conn[c].auth = "CONNECTED" /\ conn[c].puuid # NoAccount
    /\ ManualFree(conn[c].puuid)

\* The read model and the database functions agree: in every state that runs,
\* timeouts, resets and reconnects can produce, the dashboard offers the manual
\* refresh exactly when the two claims behind the button would be granted.
AvailableIsClaimable ==
    \A c \in Connections :
       Live(c) => (StatusNow(c) = "available" <=> ManualWouldRun(c))

\* However the reads interleave with runs, a page that calls the day's refresh
\* succeeded or exhausted is right for the rest of that day: no later claim for
\* this PUUID is granted and no lease on it can be marked again.
SpentIsSpent ==
    tab.step = "shown" /\ tab.view \in {"succeeded", "exhausted"} =>
       /\ manual[tab.puuid][tab.day].stamp # 0
       /\ tab.day = today => ~ManualFree(tab.puuid)
       /\ tab.view = "succeeded" =>
            manual[tab.puuid][tab.day].status = "succeeded"

\* "Updated just now": the run's storefront, or a later one, is stored for this
\* session and the allowance it spent reads succeeded.
UpdatedIsStored ==
    tab.message = "updated" =>
       LET r == tab.run
       IN  /\ manual[A(r)][D(r)].status = "succeeded"
           /\ Current(C(r), E(r)) => shop[C(r)][D(r)].stamp >= attempt[r]

\* The button asks for a reconnect only for a session that was marked dead and
\* stays so until it is reconnected: the refreshed page offers the same way out.
ReconnectIsNeeded ==
    tab.message = "reconnect" /\ faults[tab.run] = 0
    /\ Current(C(tab.run), E(tab.run))
    => conn[C(tab.run)].auth = "REAUTH_REQUIRED"

\* What the button says is so: "updated" after the shop was stored, and
\* "reconnect" only when the account needs it.
MessageIsTrue == DashboardTypeOK /\ UpdatedIsStored /\ ReconnectIsNeeded

\* A pressed button leaves its pending state, and the page is read again.
PressIsAnswered ==
    tab.step \in {"owned", "starting", "acting"} ~> tab.step = "shown"

\* The reasons failureLabel has a text for.
Labelled == {"session", "storefront", "catalog", "fenced", "lease", "stale"}

\* StoreAttentionPanel "renders nothing while today's store is present and
\* healthy": for a connected account whose store of today is stored and whose
\* latest check, of whatever trigger, ended without a problem.
QuietWhenHealthy ==
    \A c \in Connections :
       /\ Live(c) /\ conn[c].auth = "CONNECTED"
       /\ shop[c][today].stamp # 0 /\ lastCheck[c] = "ok"
       => lastLog[c] \notin Labelled

\* "A previous storefront request has an uncertain outcome. Manual refresh
\* returns after the next UTC reset or reconnect."
UncertainUntilReset ==
    [][\A c \in Connections :
         /\ Live(c) /\ StatusNow(c) = "uncertain"
         /\ today' = today /\ conn'[c].state = "live"
         /\ conn'[c].epoch = conn[c].epoch /\ conn'[c].auth = "CONNECTED"
         => StatusNow(c)' = "uncertain"]_dashVars
=============================================================================
