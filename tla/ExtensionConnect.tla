-------------------------- MODULE ExtensionConnect --------------------------
(***************************************************************************)
(* Signing in with the browser extension.  A dashboard panel mints a       *)
(* one-time capture token and hands it to the extension; the extension     *)
(* opens Riot's sign-in tab, keeps a job for it in session storage, and    *)
(* when the tab reaches Riot's callback posts the cookies and the token to *)
(* /api/desktop/connect.  Four listeners work on a job (start, callback,   *)
(* tab removed, alarm), each awaiting its calls one by one, and all jobs   *)
(* live in one stored table that every listener reads and writes whole.    *)
(***************************************************************************)
EXTENDS FiniteSets, Naturals

CONSTANTS Panels,       \* dashboard tabs of one user
          Requests,     \* connect requests
          None,
          MaxFaults     \* bound: failed calls and restarts of the worker

VARIABLES token,        \* desktop_capture_tokens, by the request it is for
          saved,        \* sessions saved with each token, counted up to 2
          panel,
          jobs,         \* the stored job table
          alarm,        \* jobs whose alarm is set
          tab,          \* Riot's sign-in tab of each request
          hand,         \* listeners at work
          busy,         \* processingTabs
          faults

server == <<token, saved>>
extension == <<jobs, alarm, tab, hand, busy>>
vars == <<token, saved, panel, jobs, alarm, tab, hand, busy, faults>>

Kinds == {"start", "callback", "removed", "alarm"}
\* The seven failure codes differ in the message only.
Outcomes == {"ok", "failed"}
HandlerPcs == {"idle", "create", "read", "write", "arm", "navigate", "find",
               "capture", "submit", "save", "drop", "disarm", "notify", "close"}
Tokens == {"none", "live", "consumed", "deleted", "expired"}
Tabs == {"none", "blank", "riot", "completed", "denied", "closed"}
PanelPcs == {"idle", "delete", "insert", "waiting", "connected", "failed"}

Idle == [pc |-> "idle", snap |-> {}, outcome |-> "ok"]

Init ==
    /\ token = [r \in Requests |-> "none"]
    /\ saved = [r \in Requests |-> 0]
    /\ panel = [p \in Panels |-> [pc |-> "idle", req |-> None]]
    /\ jobs = {} /\ alarm = {} /\ busy = {}
    /\ tab = [r \in Requests |-> "none"]
    /\ hand = [k \in Kinds |-> [r \in Requests |-> Idle]]
    /\ faults = 0

Fault == faults < MaxFaults /\ faults' = faults + 1
At(k, r, label) == hand[k][r].pc = label
Moved(h, k, r, label) == [h EXCEPT ![k][r].pc = label]
Goto(k, r, label) == hand' = Moved(hand, k, r, label)

-----------------------------------------------------------------------------
(* The panel and the token it mints.                                       *)

Unused(r) == token[r] = "none" /\ \A p \in Panels : panel[p].req # r
Pending(p) == panel[p].pc \in {"delete", "insert", "waiting"}

\* connectViaExtension(): disabled while a request is pending.
Click(p, r) ==
    /\ ~Pending(p) /\ Unused(r)
    /\ panel' = [panel EXCEPT ![p] = [pc |-> "delete", req |-> r]]
    /\ UNCHANGED <<server, extension, faults>>

\* Mutant: an earlier token stays.
SupersededNot == token

\* mintCaptureToken(): delete the user's unconsumed tokens, then insert one.
Superseded == [r \in Requests |->
                  IF token[r] \in {"live", "expired"} THEN "deleted" ELSE token[r]]

MintDelete(p) ==
    /\ panel[p].pc = "delete"
    /\ token' = Superseded
    /\ panel' = [panel EXCEPT ![p].pc = "insert"]
    /\ UNCHANGED <<saved, extension, faults>>

MintInsert(p) ==
    LET r == panel[p].req IN
    /\ panel[p].pc = "insert"
    /\ token' = [token EXCEPT ![r] = "live"]
    /\ panel' = [panel EXCEPT ![p].pc = "waiting"]
    /\ Goto("start", r, "create")
    /\ UNCHANGED <<saved, jobs, alarm, tab, busy, faults>>

\* The token cannot be minted, or no content script takes the message.
MintFails(p) ==
    /\ panel[p].pc \in {"delete", "insert"} /\ Fault
    /\ panel' = [panel EXCEPT ![p].pc = "failed"]
    /\ \/ UNCHANGED token
       \/ panel[p].pc = "insert" /\ token' = [token EXCEPT ![panel[p].req] = "live"]
    /\ UNCHANGED <<saved, extension>>

\* Mutant: the panel has no timer of its own.
PanelTimeoutNever(p) == FALSE

\* EXTENSION_REQUEST_TIMEOUT_MS: the panel stops waiting.
PanelTimeout(p) ==
    /\ panel[p].pc = "waiting"
    /\ panel' = [panel EXCEPT ![p].pc = "failed"]
    /\ UNCHANGED <<server, extension, faults>>

\* Mutant: any result settles the panel's current request.
HearsAny(p, r) == panel[p].pc = "waiting"

\* onExtensionMessage(): only the active request's result counts.
Hears(p, r) == panel[p].pc = "waiting" /\ panel[p].req = r

Heard(r, outcome) ==
    panel' = [p \in Panels |->
                 IF Hears(p, r)
                 THEN [panel[p] EXCEPT !.pc = IF outcome = "ok" THEN "connected"
                                              ELSE "failed"]
                 ELSE panel[p]]

-----------------------------------------------------------------------------
(* The end of a job, by whichever listener: finishJob(), removeJob().      *)

Finish(k, r, outcome, snap) ==
    hand' = [hand EXCEPT ![k][r] = [pc |-> "drop", snap |-> snap, outcome |-> outcome]]

\* Mutant: the table is written before the job is deleted from it.
RemainingAll(k, r) == hand[k][r].snap

\* The table written back is the one this listener read.
Remaining(k, r) == hand[k][r].snap \ {r}

Drop(k, r) ==
    /\ At(k, r, "drop")
    /\ jobs' = Remaining(k, r)
    /\ hand' = [hand EXCEPT ![k][r].pc = "disarm", ![k][r].snap = {}]
    /\ UNCHANGED <<server, panel, alarm, tab, busy, faults>>

Disarm(k, r) ==
    /\ At(k, r, "disarm")
    /\ alarm' = alarm \ {r}
    /\ Goto(k, r, "notify")
    /\ UNCHANGED <<server, panel, jobs, tab, busy, faults>>

End(k, r) == hand' = [hand EXCEPT ![k][r] = Idle]

Notify(k, r) ==
    /\ At(k, r, "notify")
    /\ Heard(r, hand[k][r].outcome)
    /\ IF k = "removed" \/ tab[r] = "none" THEN End(k, r) ELSE Goto(k, r, "close")
    /\ UNCHANGED <<server, jobs, alarm, tab, busy, faults>>

\* Closing a tab wakes the listener for removed tabs.
Closed(h, r) == IF tab[r] = "closed" THEN h ELSE Moved(h, "removed", r, "find")

CloseTab(k, r) ==
    /\ At(k, r, "close")
    /\ tab' = [tab EXCEPT ![r] = "closed"]
    /\ hand' = Closed([hand EXCEPT ![k][r] = Idle], r)
    /\ busy' = IF k = "callback" THEN busy \ {r} ELSE busy
    /\ UNCHANGED <<server, panel, jobs, alarm, faults>>

-----------------------------------------------------------------------------
(* startConnect().                                                         *)

\* Host access may not be granted (Firefox), and the tab may not open.
Create(r) ==
    /\ At("start", r, "create")
    /\ \/ /\ tab' = [tab EXCEPT ![r] = "blank"]
          /\ Goto("start", r, "read")
       \/ /\ hand' = [hand EXCEPT !["start"][r].pc = "notify",
                                   !["start"][r].outcome = "failed"]
          /\ UNCHANGED tab
    /\ UNCHANGED <<server, panel, jobs, alarm, busy, faults>>

Read(r) ==
    /\ At("start", r, "read")
    /\ hand' = [hand EXCEPT !["start"][r].pc = "write",
                            !["start"][r].snap = jobs \cup {r}]
    /\ UNCHANGED <<server, panel, jobs, alarm, tab, busy, faults>>

Write(r) ==
    /\ At("start", r, "write")
    /\ jobs' = hand["start"][r].snap
    /\ Goto("start", r, "arm")
    /\ UNCHANGED <<server, panel, alarm, tab, busy, faults>>

Arm(r) ==
    /\ At("start", r, "arm")
    /\ alarm' = alarm \cup {r}
    /\ Goto("start", r, "navigate")
    /\ UNCHANGED <<server, panel, jobs, tab, busy, faults>>

Navigate(r) ==
    /\ At("start", r, "navigate")
    /\ \/ /\ tab[r] = "blank" /\ tab' = [tab EXCEPT ![r] = "riot"]
          /\ End("start", r)
       \/ /\ tab[r] = "closed" /\ UNCHANGED tab
          /\ Finish("start", r, "failed", hand["start"][r].snap)
    /\ UNCHANGED <<server, panel, jobs, alarm, busy, faults>>

-----------------------------------------------------------------------------
(* The callback page: onUpdated and the content script both report it.     *)

\* processingTabs lets one report through; it looks the tab's job up.
Observe(r) ==
    /\ tab[r] \in {"completed", "denied"}
    /\ r \notin busy /\ r \in jobs
    /\ busy' = busy \cup {r}
    /\ \/ /\ tab[r] = "denied"
          /\ Finish("callback", r, "failed", jobs)
       \/ /\ tab[r] = "completed"
          /\ hand' = [hand EXCEPT !["callback"][r].pc = "capture",
                                  !["callback"][r].snap = jobs]
    /\ UNCHANGED <<server, panel, jobs, alarm, tab, faults>>

\* Cookies that cannot be read, or none that proves a session.
Capture(r) ==
    /\ At("callback", r, "capture")
    /\ \/ Goto("callback", r, "submit")
       \/ Finish("callback", r, "failed", hand["callback"][r].snap)
    /\ UNCHANGED <<server, panel, jobs, alarm, tab, busy, faults>>

\* Mutant: the token is looked up and not claimed.
ClaimableAgain(r) == token[r] \in {"live", "consumed"}

\* consumeCaptureToken(): one conditional update.
Claimable(r) == token[r] = "live"

Submit(r) ==
    /\ At("callback", r, "submit")
    /\ \/ /\ Claimable(r)
          /\ token' = [token EXCEPT ![r] = "consumed"]
          /\ Goto("callback", r, "save")
       \/ /\ ~Claimable(r) /\ UNCHANGED token
          /\ Finish("callback", r, "failed", hand["callback"][r].snap)
    /\ UNCHANGED <<saved, panel, jobs, alarm, tab, busy, faults>>

Count(r) == saved' = [saved EXCEPT ![r] = IF @ < 2 THEN @ + 1 ELSE @]

\* connectSubmittedRiotJar(), after the token is spent.
Save(r) ==
    /\ At("callback", r, "save")
    /\ \/ Count(r) /\ Finish("callback", r, "ok", hand["callback"][r].snap)
       \/ /\ UNCHANGED saved
          /\ Finish("callback", r, "failed", hand["callback"][r].snap)
    /\ UNCHANGED <<token, panel, jobs, alarm, tab, busy, faults>>

\* The request or its answer is lost.
SubmitUnanswered(r) ==
    /\ At("callback", r, "submit") \/ At("callback", r, "save")
    /\ Fault
    /\ Finish("callback", r, "failed", hand["callback"][r].snap)
    /\ \/ UNCHANGED server
       \/ /\ Claimable(r) \/ At("callback", r, "save")
          /\ token' = [token EXCEPT ![r] = "consumed"]
          /\ Count(r) \/ UNCHANGED saved
    /\ UNCHANGED <<panel, jobs, alarm, tab, busy>>

-----------------------------------------------------------------------------
(* onRemoved and onAlarm.                                                  *)

UserCloses(r) ==
    /\ tab[r] \notin {"none", "closed"}
    /\ tab' = [tab EXCEPT ![r] = "closed"]
    /\ hand' = Closed(hand, r)
    /\ UNCHANGED <<server, panel, jobs, alarm, busy, faults>>

Found(k, r, outcome) == IF r \in jobs THEN Finish(k, r, outcome, jobs) ELSE End(k, r)

Removed(r) ==
    /\ At("removed", r, "find")
    /\ Found("removed", r, "failed")
    /\ UNCHANGED <<server, panel, jobs, alarm, tab, busy, faults>>

Fire(r) ==
    /\ r \in alarm /\ At("alarm", r, "idle")
    /\ alarm' = alarm \ {r}
    /\ Found("alarm", r, "failed")
    /\ UNCHANGED <<server, panel, jobs, tab, busy, faults>>

-----------------------------------------------------------------------------
(* Calls of the browser that throw.                                        *)

\* The session storage or the alarms refuse: the listener ends where it is.
\* Only startConnect() has a catch, which tells the panel; handleRiotCallback()
\* lets go of the tab on its way out.
StorageFails(k, r) ==
    /\ hand[k][r].pc \in {"read", "write", "arm", "find", "drop", "disarm"} /\ Fault
    /\ End(k, r)
    /\ IF k = "start" THEN Heard(r, "failed") ELSE UNCHANGED panel
    /\ busy' = IF k = "callback" THEN busy \ {r} ELSE busy
    /\ UNCHANGED <<server, jobs, alarm, tab>>

\* The alarm has fired and the job table cannot be read.
FireFails(r) ==
    /\ r \in alarm /\ At("alarm", r, "idle") /\ Fault
    /\ alarm' = alarm \ {r}
    /\ UNCHANGED <<server, panel, jobs, tab, hand, busy>>

-----------------------------------------------------------------------------
(* The environment.                                                        *)

\* classifyRiotAuthCallback(), over the URLs Riot ends a sign-in with.
Ends == {"completed", "denied"}

SignIn(r) ==
    /\ tab[r] = "riot"
    /\ \E end \in Ends : tab' = [tab EXCEPT ![r] = end]
    /\ UNCHANGED <<server, panel, jobs, alarm, hand, busy, faults>>

ExpireToken(r) ==
    /\ token[r] = "live"
    /\ token' = [token EXCEPT ![r] = "expired"]
    /\ UNCHANGED <<saved, panel, extension, faults>>

\* The browser stops the worker: storage, alarms and tabs survive, its
\* listeners and processingTabs do not.  A post on its way may still arrive.
Restart ==
    /\ \E k \in Kinds, r \in Requests : ~At(k, r, "idle")
    /\ Fault
    /\ hand' = [k \in Kinds |-> [r \in Requests |-> Idle]]
    /\ busy' = {}
    /\ \/ UNCHANGED saved
       \/ \E r \in Requests : At("callback", r, "save") /\ Count(r)
    /\ UNCHANGED <<token, panel, jobs, alarm, tab>>

Listener(k, r) == Drop(k, r) \/ Disarm(k, r) \/ Notify(k, r) \/ CloseTab(k, r)

Work(r) == \/ Create(r) \/ Read(r) \/ Write(r) \/ Arm(r) \/ Navigate(r)
           \/ Capture(r) \/ Submit(r) \/ Save(r) \/ Removed(r)
           \/ \E k \in Kinds : Listener(k, r)

World(r) == Observe(r) \/ UserCloses(r) \/ Fire(r) \/ SignIn(r) \/ ExpireToken(r)
              \/ SubmitUnanswered(r) \/ FireFails(r)
              \/ \E k \in Kinds : StorageFails(k, r)

Mint(p) == MintDelete(p) \/ MintInsert(p)

Next == \/ \E p \in Panels : \/ Mint(p) \/ MintFails(p) \/ PanelTimeout(p)
                             \/ \E r \in Requests : Click(p, r)
        \/ \E r \in Requests : Work(r) \/ World(r)
        \/ Restart

Spec == Init /\ [][Next]_vars

\* The server answers the panel and the panel's timer runs.
FairSpec == Spec /\ \A p \in Panels : WF_vars(Mint(p)) /\ WF_vars(PanelTimeout(p))

-----------------------------------------------------------------------------
(* Properties.                                                             *)

TypeOK ==
    /\ token \in [Requests -> Tokens]
    /\ saved \in [Requests -> 0 .. 2]
    /\ panel \in [Panels -> [pc : PanelPcs, req : Requests \cup {None}]]
    /\ jobs \subseteq Requests /\ alarm \subseteq Requests /\ busy \subseteq Requests
    /\ tab \in [Requests -> Tabs]
    /\ hand \in [Kinds -> [Requests -> [pc : HandlerPcs, snap : SUBSET Requests,
                                        outcome : Outcomes]]]
    /\ faults \in 0 .. MaxFaults

\* "a token can be claimed exactly once no matter how many requests race on
\* it": one session at most is saved with a token, over restarts and replays.
TokenOnce == \A r \in Requests : saved[r] <= 1

\* A panel says "connected" only of the request it is on, and that request's
\* session is saved: a late result of an earlier request is not taken for it.
ConnectedIsSaved ==
    \A p \in Panels : panel[p].pc = "connected" => saved[panel[p].req] > 0

\* "Transient extension state is removed after success, failure, cancellation,
\* or timeout": a stored job has its tab, its alarm or a listener at work.
TransientStateRemoved ==
    faults = 0 =>
        \A r \in jobs : \/ tab[r] # "closed" \/ r \in alarm
                        \/ \E k \in Kinds : ~At(k, r, "idle")

\* "at most one live token exists per user at a time."
OneLiveToken == Cardinality({r \in Requests : token[r] = "live"}) <= 1

\* "Riot sign-in wasn't detected": what the panel reports as failed has not
\* been, and is not being, connected.
FailureIsFinal ==
    \A p \in Panels : panel[p].pc = "failed" => saved[panel[p].req] = 0

\* The panel never waits for ever: every request ends in a state it can be
\* repeated from, whatever becomes of the extension.
PanelSettles == \A p \in Panels : Pending(p) ~> ~Pending(p)
=============================================================================
