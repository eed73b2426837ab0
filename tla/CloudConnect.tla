---------------------------- MODULE CloudConnect ----------------------------
(***************************************************************************)
(* One temporary cloud-browser login: the control row of                   *)
(* riot_cloud_connection_sessions, the browser the cloud-browser service   *)
(* keeps for it, the request that creates both, and the status and cancel  *)
(* requests the connect page keeps sending.  The page polls on a timer     *)
(* that does not wait for the previous answer, so requests overlap; every  *)
(* step below is one database call, one call of the browser service or one *)
(* call of the worker, and everything else may happen in between.          *)
(***************************************************************************)
EXTENDS Integers, FiniteSets

CONSTANTS Requests,     \* status and cancel requests in flight at a time
          Creator,      \* the request that creates the session
          MaxFaults     \* bound: crashes, lost calls, lost answers

ASSUME CreatorAssumption == Creator \notin Requests
ASSUME FaultAssumption == MaxFaults \in Nat

VARIABLES row,          \* the control row; `consumed` counts its writes
          browser,      \* the Session object of the browser service
          launch,       \* the createBrowserSession call under way
          expired,      \* expires_at has passed
          pc,           \* where each request stands
          seen,         \* the browser state a status request was answered
          claims,       \* history: capture claims, counted up to two
          faults

vars == <<row, browser, launch, expired, pc, seen, claims, faults>>

\* Mutant: the user's first input takes the session out of the polled states.
ActiveUntilInput == {"created", "starting_browser", "waiting_for_user"}
Active == {"created", "starting_browser", "waiting_for_user", "authenticating"}
Capturing == {"capturing_session", "validating_session"}
Terminal == {"connected", "failed", "expired", "cancelled"}
RowStates == Active \cup Capturing \cup Terminal \cup {"none"}
BrowserStates == {"none", "waiting_for_user", "authenticating", "captured",
                  "failed", "expired"}
Processes == Requests \cup {Creator}

\* A request that has claimed the capture and has yet to settle the row.
CapturePcs == {"cookies", "validating", "connect", "note", "storefront",
               "finish", "fail"}
RequestPcs == CapturePcs \cup
    {"idle", "expireDestroy", "expire", "poll", "observe", "vanished", "drop",
     "write", "claim", "cleanup", "mark", "cancelDestroy", "cancel"}
CreatorPcs == {"insert", "starting", "launch", "waiting", "attach", "undo",
               "abandon", "answered", "gone"}

Pcs == RequestPcs \cup CreatorPcs

Rows == [state : RowStates, provider : BOOLEAN, consumed : 0 .. 2,
         destroyed : BOOLEAN]
Browsers == [listed : BOOLEAN, state : BrowserStates, cookies : BOOLEAN]

Init ==
    /\ row = [state |-> "none", provider |-> FALSE, consumed |-> 0,
              destroyed |-> FALSE]
    /\ browser = [listed |-> FALSE, state |-> "none", cookies |-> FALSE]
    /\ launch = "none"
    /\ expired = FALSE
    /\ pc = [p \in Processes |-> IF p = Creator THEN "insert" ELSE "idle"]
    /\ seen = [r \in Requests |-> "none"]
    /\ claims = 0
    /\ faults = 0

-----------------------------------------------------------------------------
(* The two services a request calls.                                       *)

Goto(p, label) == pc' = [pc EXCEPT ![p] = label]
Fault == faults < MaxFaults /\ faults' = faults + 1
CountTwo(n) == IF n < 2 THEN n + 1 ELSE 2

\* Mutant: no such constraint.
PermittedAlways(new) == TRUE

\* riot_cloud_connection_sessions_consumed_check.
Permitted(new) == new.consumed > 0 => new.state = "connected"

\* updateOwned: a guarded write and the answer to it.  No matching row, the
\* check constraint, a lost call and a lost answer all throw alike.
Writable(new, from) == row.state \in from /\ Permitted(new)

UpdateOwned(p, new, from, then, thrown) ==
    \/ /\ Writable(new, from)
       /\ row' = new
       /\ Goto(p, then)
       /\ UNCHANGED faults
    \/ /\ ~Writable(new, from)
       /\ Goto(p, thrown)
       /\ UNCHANGED <<row, faults>>
    \/ /\ Fault
       /\ \/ row' = row
          \/ Writable(new, from) /\ row' = new
       /\ Goto(p, thrown)

\* destroy() of the service: the session leaves the map before anything is
\* awaited.  `terminal` is the state the caller gives it, if any.
Delisted(terminal) == [listed |-> FALSE, state |-> terminal, cookies |-> FALSE]

\* destroy() of the controller: one DELETE whose failure is swallowed.
DestroyBrowser ==
    \/ /\ browser' = IF browser.listed THEN Delisted(browser.state) ELSE browser
       /\ UNCHANGED faults
    \/ Fault /\ UNCHANGED browser

-----------------------------------------------------------------------------
(* create()                                                                *)

Insert ==
    /\ pc[Creator] = "insert" /\ row.state = "none"
    /\ row' = [row EXCEPT !.state = "created"]
    /\ Goto(Creator, "starting")
    /\ UNCHANGED <<browser, launch, expired, seen, claims, faults>>

Starting ==
    /\ pc[Creator] = "starting"
    /\ UpdateOwned(Creator, [row EXCEPT !.state = "starting_browser"],
                   {"created"}, "launch", "abandon")
    /\ UNCHANGED <<browser, launch, expired, seen, claims>>

\* createSession: the service refuses an expiry in the past.
Launch ==
    /\ pc[Creator] = "launch"
    /\ \/ /\ ~expired
          /\ launch' = "pending"
          /\ Goto(Creator, "waiting")
          /\ UNCHANGED faults
       \/ /\ expired
          /\ Goto(Creator, "abandon")
          /\ UNCHANGED <<launch, faults>>
       \/ /\ Fault
          /\ Goto(Creator, "abandon")
          /\ UNCHANGED launch
    /\ UNCHANGED <<row, browser, expired, seen, claims>>

\* The answer, or the fifteen-second timeout while the launch goes on.
Launched ==
    /\ pc[Creator] = "waiting"
    /\ \/ launch = "up" /\ Goto(Creator, "attach") /\ UNCHANGED faults
       \/ launch = "failed" /\ Goto(Creator, "abandon") /\ UNCHANGED faults
       \/ Fault /\ Goto(Creator, "abandon")
    /\ UNCHANGED <<row, browser, launch, expired, seen, claims>>

Attach ==
    /\ pc[Creator] = "attach"
    /\ UpdateOwned(Creator,
                   [row EXCEPT !.provider = TRUE, !.state = "waiting_for_user"],
                   {"created", "starting_browser"}, "answered", "undo")
    /\ UNCHANGED <<browser, launch, expired, seen, claims>>

Undo ==
    /\ pc[Creator] = "undo"
    /\ DestroyBrowser
    /\ Goto(Creator, "abandon")
    /\ UNCHANGED <<row, launch, expired, seen, claims>>

Abandon ==
    /\ pc[Creator] = "abandon"
    /\ UpdateOwned(Creator, [row EXCEPT !.state = "failed"], RowStates,
                   "answered", "gone")
    /\ UNCHANGED <<browser, launch, expired, seen, claims>>

Create == Insert \/ Starting \/ Launch \/ Launched \/ Attach \/ Undo \/ Abandon

-----------------------------------------------------------------------------
(* status(), the part before a capture.  The session's id is known to the  *)
(* page from create()'s answer only, so no request comes before it.  A row *)
(* in no active state is answered as it is.                                *)

Status(r) ==
    /\ pc[r] = "idle" /\ pc[Creator] = "answered"
    /\ row.state \in Active
    /\ \/ expired /\ Goto(r, IF row.provider THEN "expireDestroy" ELSE "expire")
       \/ ~expired /\ row.provider /\ Goto(r, "poll")
    /\ UNCHANGED <<row, browser, launch, expired, seen, claims, faults>>

ExpireDestroy(r) ==
    /\ pc[r] = "expireDestroy"
    /\ DestroyBrowser
    /\ Goto(r, "expire")
    /\ UNCHANGED <<row, launch, expired, seen, claims>>

Expire(r) ==
    /\ pc[r] = "expire"
    /\ UpdateOwned(r, [row EXCEPT !.state = "expired", !.destroyed = TRUE],
                   RowStates, "idle", "idle")
    /\ UNCHANGED <<browser, launch, expired, seen, claims>>

\* getStatus reaches the service: 404 once the session left the map.
Poll(r) ==
    /\ pc[r] = "poll"
    /\ \/ browser.listed /\ Goto(r, "observe") /\ UNCHANGED faults
       \/ ~browser.listed /\ Goto(r, "vanished") /\ UNCHANGED faults
       \/ Fault /\ Goto(r, "idle")
    /\ UNCHANGED <<row, browser, launch, expired, seen, claims>>

Vanished(r) ==
    /\ pc[r] = "vanished"
    /\ UpdateOwned(r, [row EXCEPT !.state = "failed", !.destroyed = TRUE],
                   RowStates, "idle", "idle")
    /\ UNCHANGED <<browser, launch, expired, seen, claims>>

\* Mutant: the captured state is written down like any other.
CapturedIgnored == FALSE

IsCaptured == browser.state = "captured"

\* The answer: the service looked at the page meanwhile, and holds on to a
\* session destroyed under it.
Observe(r) ==
    /\ pc[r] = "observe"
    /\ \/ /\ IsCaptured
          /\ Goto(r, "claim")
          /\ UNCHANGED <<seen, faults>>
       \/ /\ ~IsCaptured
          /\ seen' = [seen EXCEPT ![r] = browser.state]
          /\ Goto(r, IF browser.state \in {"failed", "expired"}
                       THEN "drop" ELSE "write")
          /\ UNCHANGED faults
       \/ Fault /\ Goto(r, "idle") /\ UNCHANGED seen
    /\ UNCHANGED <<row, browser, launch, expired, claims>>

\* Mutant: a failed or expired browser is written down and left alone.
DropNothing(r) ==
    /\ pc[r] = "drop"
    /\ Goto(r, "write")
    /\ UNCHANGED <<row, browser, launch, expired, seen, claims, faults>>

Drop(r) ==
    /\ pc[r] = "drop"
    /\ DestroyBrowser
    /\ Goto(r, "write")
    /\ UNCHANGED <<row, launch, expired, seen, claims>>

\* The state derived from a row read three calls ago, written over whatever
\* the row holds now.
Write(r) ==
    /\ pc[r] = "write"
    /\ UpdateOwned(r, [row EXCEPT !.state = seen[r],
                         !.destroyed = @ \/ seen[r] \in {"failed", "expired"}],
                   RowStates, "idle", "idle")
    /\ seen' = [seen EXCEPT ![r] = "none"]
    /\ UNCHANGED <<browser, launch, expired, claims>>

-----------------------------------------------------------------------------
(* capture()                                                               *)

\* claimCapture: the guarded write that lets one request read the cookies.
Claimable ==
    /\ row.state \in {"waiting_for_user", "authenticating"}
    /\ ~expired
    /\ row.consumed = 0

Claim(r) ==
    /\ pc[r] = "claim"
    /\ \/ /\ Claimable
          /\ row' = [row EXCEPT !.state = "capturing_session"]
          /\ claims' = CountTwo(claims)
          /\ \/ Goto(r, "cookies") /\ UNCHANGED faults
             \/ Fault /\ Goto(r, "idle")
       \/ /\ ~Claimable
          /\ Goto(r, "idle")
          /\ UNCHANGED <<row, claims, faults>>
       \/ Fault /\ Goto(r, "idle") /\ UNCHANGED <<row, claims>>
    /\ UNCHANGED <<browser, launch, expired, seen>>

\* captureCookies, and the provider's check of what came back.
Cookies(r) ==
    /\ pc[r] = "cookies"
    /\ \/ /\ browser.listed /\ browser.state = "captured" /\ browser.cookies
          /\ Goto(r, "validating")
          /\ UNCHANGED faults
       \/ Goto(r, "fail") /\ UNCHANGED faults
    /\ UNCHANGED <<row, browser, launch, expired, seen, claims>>

Validating(r) ==
    /\ pc[r] = "validating"
    /\ UpdateOwned(r, [row EXCEPT !.state = "validating_session"],
                   {"capturing_session"}, "connect", "fail")
    /\ UNCHANGED <<browser, launch, expired, seen, claims>>

\* connectCaptured: Riot resolves the identity and the account is saved, or
\* one of them refuses.
Connect(r) ==
    /\ pc[r] = "connect"
    /\ \E next \in {"note", "fail"} : Goto(r, next)
    /\ UNCHANGED <<row, browser, launch, expired, seen, claims, faults>>

\* target_connection_id and validation_succeeded: columns no step reads.
Note(r) ==
    /\ pc[r] = "note"
    /\ UpdateOwned(r, row, RowStates, "storefront", "fail")
    /\ UNCHANGED <<browser, launch, expired, seen, claims>>

ValidateStorefront(r) ==
    /\ pc[r] = "storefront"
    /\ \E next \in {"finish", "fail"} : Goto(r, next)
    /\ UNCHANGED <<row, browser, launch, expired, seen, claims, faults>>

\* Mutant: the last write asks for no state.
FinishFromAny == RowStates

FinishFrom == {"validating_session"}

Finish(r) ==
    /\ pc[r] = "finish"
    /\ UpdateOwned(r, [row EXCEPT !.state = "connected", !.consumed = CountTwo(@)],
                   FinishFrom, "cleanup", "fail")
    /\ UNCHANGED <<browser, launch, expired, seen, claims>>

\* Mutant: the error path only cleans up.
FailUnwritten(r) ==
    /\ pc[r] = "fail"
    /\ Goto(r, "cleanup")
    /\ UNCHANGED <<row, browser, launch, expired, seen, claims, faults>>

Fail(r) ==
    /\ pc[r] = "fail"
    /\ UpdateOwned(r, [row EXCEPT !.state = "failed"], RowStates,
                   "cleanup", "cleanup")
    /\ UNCHANGED <<browser, launch, expired, seen, claims>>

\* Mutant: the finally block marks the row only.
CleanupNothing(r) ==
    /\ pc[r] = "cleanup"
    /\ Goto(r, "mark")
    /\ UNCHANGED <<row, browser, launch, expired, seen, claims, faults>>

Cleanup(r) ==
    /\ pc[r] = "cleanup"
    /\ DestroyBrowser
    /\ Goto(r, "mark")
    /\ UNCHANGED <<row, launch, expired, seen, claims>>

Mark(r) ==
    /\ pc[r] = "mark"
    /\ UpdateOwned(r, [row EXCEPT !.destroyed = TRUE], RowStates, "idle", "idle")
    /\ UNCHANGED <<browser, launch, expired, seen, claims>>

-----------------------------------------------------------------------------
(* cancel()                                                                *)

StartCancel(r) ==
    /\ pc[r] = "idle" /\ pc[Creator] = "answered"
    /\ row.state \in Active
    /\ Goto(r, IF row.provider THEN "cancelDestroy" ELSE "cancel")
    /\ UNCHANGED <<row, browser, launch, expired, seen, claims, faults>>

CancelDestroy(r) ==
    /\ pc[r] = "cancelDestroy"
    /\ DestroyBrowser
    /\ Goto(r, "cancel")
    /\ UNCHANGED <<row, launch, expired, seen, claims>>

Cancel(r) ==
    /\ pc[r] = "cancel"
    /\ UpdateOwned(r, [row EXCEPT !.state = "cancelled", !.destroyed = TRUE],
                   RowStates, "idle", "idle")
    /\ UNCHANGED <<browser, launch, expired, seen, claims>>

-----------------------------------------------------------------------------
(* The browser service, its user and the clock.                            *)

\* createBrowserSession succeeds: the session enters the map.
BrowserUp ==
    /\ launch = "pending"
    /\ launch' = "up"
    /\ browser' = [listed |-> TRUE, state |-> "waiting_for_user", cookies |-> FALSE]
    /\ UNCHANGED <<row, expired, pc, seen, claims, faults>>

LaunchFails ==
    /\ launch = "pending"
    /\ launch' = "failed"
    /\ UNCHANGED <<row, browser, expired, pc, seen, claims, faults>>

UserActs ==
    /\ browser.state = "waiting_for_user"
    /\ browser' = [browser EXCEPT !.state = "authenticating"]
    /\ UNCHANGED <<row, launch, expired, pc, seen, claims, faults>>

\* observe() sees the login completed, or finds no cookies or no page.
PageObserved ==
    /\ browser.state \in {"waiting_for_user", "authenticating"}
    /\ \/ browser' = [browser EXCEPT !.state = "captured", !.cookies = TRUE]
       \/ browser' = [browser EXCEPT !.state = "failed"]
    /\ UNCHANGED <<row, launch, expired, pc, seen, claims, faults>>

\* The "disconnected" event: after destroy() closed the browser, or a crash.
Disconnected ==
    /\ browser.state \notin {"none", "failed", "expired"} /\ ~browser.cookies
    /\ browser' = [browser EXCEPT !.state = "failed"]
    /\ IF browser.listed THEN Fault ELSE UNCHANGED faults
    /\ UNCHANGED <<row, launch, expired, pc, seen, claims>>

\* The disconnect timer: no viewer for the grace period.
ViewerLeft ==
    /\ browser.listed
    /\ browser' = Delisted("failed")
    /\ UNCHANGED <<row, launch, expired, pc, seen, claims, faults>>

\* Mutant: a captured session waits for its cookies to be fetched.
OverdueUncaptured == browser.listed /\ expired /\ ~browser.cookies

\* The sweep that runs every second.
Overdue == browser.listed /\ expired

Sweep ==
    /\ Overdue
    /\ browser' = Delisted("expired")
    /\ UNCHANGED <<row, launch, expired, pc, seen, claims, faults>>

\* A restart of the service loses its sessions and the calls it was answering.
ServiceRestart ==
    /\ browser.listed \/ launch = "pending"
    /\ Fault
    /\ browser' = IF browser.listed THEN Delisted(browser.state) ELSE browser
    /\ launch' = IF launch = "pending" THEN "failed" ELSE launch
    /\ pc' = [p \in Processes |-> IF pc[p] = "observe" THEN "idle" ELSE pc[p]]
    /\ UNCHANGED <<row, expired, seen, claims>>

TimePasses ==
    /\ ~expired /\ row.state # "none"
    /\ expired' = TRUE
    /\ UNCHANGED <<row, browser, launch, pc, seen, claims, faults>>

\* A function instance is killed in the middle of a request.
Crash(p) ==
    /\ pc[p] \notin {"idle", "answered", "gone"}
    /\ Fault
    /\ Goto(p, IF p = Creator THEN "gone" ELSE "idle")
    /\ seen' = [r \in Requests |-> IF r = p THEN "none" ELSE seen[r]]
    /\ UNCHANGED <<row, browser, launch, expired, claims>>

-----------------------------------------------------------------------------
StatusStep(r) ==
    \/ Status(r) \/ ExpireDestroy(r) \/ Expire(r) \/ Poll(r) \/ Vanished(r)
    \/ Observe(r) \/ Drop(r) \/ Write(r)
CaptureStep(r) ==
    \/ Claim(r) \/ Cookies(r) \/ Validating(r) \/ Connect(r) \/ Note(r)
    \/ ValidateStorefront(r) \/ Finish(r) \/ Fail(r) \/ Cleanup(r) \/ Mark(r)
CancelStep(r) == CancelDestroy(r) \/ Cancel(r)
Step(r) == StatusStep(r) \/ CaptureStep(r) \/ CancelStep(r)
Service ==
    \/ BrowserUp \/ LaunchFails \/ UserActs \/ PageObserved \/ Disconnected
    \/ ViewerLeft \/ Sweep \/ ServiceRestart

Next ==
    \/ Create
    \/ \E r \in Requests : Step(r) \/ StartCancel(r)
    \/ \E p \in Processes : Crash(p)
    \/ Service
    \/ TimePasses

Spec == Init /\ [][Next]_vars

\* A request under way is served to its end and the page keeps polling until
\* it sees a terminal state; a launch ends by its timeouts; the sweep is on a
\* timer; time passes.  Nobody has to log in, leave or cancel.
Fairness ==
    /\ WF_vars(Create)
    /\ \A r \in Requests : WF_vars(Step(r))
    /\ WF_vars(BrowserUp \/ LaunchFails)
    /\ WF_vars(Sweep)
    /\ WF_vars(TimePasses)

FairSpec == Spec /\ Fairness

-----------------------------------------------------------------------------
(* What every state and step of it promises.                               *)

\* Every variable stays within its type; a row never holds one of the
\* browser's own states that riot_cloud_connection_sessions refuses.
TypeOK ==
    /\ row \in Rows
    /\ browser \in Browsers
    /\ launch \in {"none", "pending", "up", "failed"}
    /\ expired \in BOOLEAN
    /\ pc \in [Processes -> Pcs]
    /\ seen \in [Requests -> BrowserStates \ {"captured"}]
    /\ claims \in 0 .. 2
    /\ faults \in 0 .. MaxFaults

\* A session is consumed at most once, whatever overlapping polls, stale
\* writes and lost answers do: capture()'s last write asks for
\* validating_session, which a second capture cannot bring back.
ConsumedOnce == row.consumed <= 1

\* Once consumed, a session stays connected: no late poll, cancellation or
\* error path of another capture writes its own outcome over it.
ConsumedIsFinal ==
    [][row.consumed > 0 => row'.consumed > 0 /\ row'.state = "connected"]_vars

\* Without faults, a row being captured has a request that is still to settle
\* it: the row is never left between a claim and its outcome.
CaptureAttended ==
    faults = 0 /\ row.state \in Capturing => \E r \in Requests : pc[r] \in CapturePcs

\* Without faults, destroyed_at tells the truth: the service holds no browser
\* for a row that says its browser is gone.
DestroyedIsTrue == faults = 0 /\ row.destroyed => ~browser.listed

\* Without faults, expiry, cancellation, success and failure all destroy the
\* browser: once no request is under way, a settled row has none.
Settled ==
    /\ row.state \in Terminal
    /\ pc[Creator] \in {"answered", "gone"}
    /\ \A r \in Requests : pc[r] = "idle"
BrowserReleased == faults = 0 /\ Settled => ~browser.listed

\* A browser does not outlive its deadline for good: crashes, lost calls and
\* a creation nobody waited for are left to the service's own sweep.
BrowserEnds == browser.listed ~> ~browser.listed

\* While nothing fails, a page that keeps polling is told an outcome, and the
\* outcome stays: no stale write revives the session for ever.
SettlesUnlessFaulted ==
    <>(faults > 0) \/ (pc[Creator] = "answered" ~> [](row.state \in Terminal))

\* SECURITY.md: the control record "is atomically claimed once".
ClaimedOnce == claims <= 1

\* docs/cloud-browser-riot-connection.md: errors, rejection and expiry offer
\* a retry and the manual fallback "rather than an endless spinner", which
\* the page shows until the row is in a terminal state.
NoEndlessSpinner == pc[Creator] = "answered" ~> row.state \in Terminal
=============================================================================
