-------------------------- MODULE StorefrontWorker --------------------------
(***************************************************************************)
(* DailyStorefrontWorker.runAccount, one process per run, over the rows of *)
(* StorefrontDatabase.  A run is one iteration of the loop in run(): the   *)
(* connection snapshot that listConnections read, then one awaited call    *)
(* per step.  Between two steps anything may happen: other runs, midnight, *)
(* the five-minute timeout, a reconnect or disconnect, or a crash of the   *)
(* process.  A database call may fail without effect or take effect and    *)
(* lose its response.                                                      *)
(***************************************************************************)
EXTENDS StorefrontDatabase

CONSTANTS
    Triggers,       \* the triggers in use, of "cron", "manual", "operator"
    MaxFaults       \* bound on crashes and failed or unanswered calls per run

ASSUME TriggersAssumption ==
    /\ Triggers # {} /\ Triggers \subseteq {"cron", "manual", "operator"}
    /\ MaxFaults \in Nat

VARIABLES
    pc,         \* the step each run is about to take
    job,        \* the snapshot the run works from, and its trigger
    claim,      \* the run row it claimed: store date, PUUID of a manual row
    attempt,    \* checkedAt, the mark's storefront_attempted_at, or 0
    hand,       \* the session jar in memory and the Riot account it is for
    ctl,        \* local variables that steer the rest of the run
    sent,       \* runs whose storefront request went out to Riot
    noticed,    \* runs that sent a session-expired email
    uncertain,  \* runs whose storefront request has an ambiguous outcome
    faults      \* faults injected into each run so far

workerVars == <<pc, job, claim, attempt, hand, ctl, sent, noticed, uncertain,
                faults>>
vars == <<dbVars, workerVars>>

Steps ==
    {"idle", "acquire", "claim", "load", "renew", "refresh", "persist",
     "prepare", "mark", "fetch", "awaiting", "lifecycle", "healthy", "record",
     "extras", "puuid", "enrich", "enrichExtras", "failRetry",
     "failAmbiguous", "close", "expire", "release", "done", "crashed"}
Ended == {"done", "crashed"}

Job == [conn : Connections, epoch : Nat, trigger : Triggers, failures : Nat]
Claim == [day : Days, account : Accounts]
Hand == [jar : Nat, account : Accounts]
Control ==
    [held : BOOLEAN, handled : BOOLEAN, terminal : BOOLEAN, healthy : BOOLEAN,
     result : {"OK", "DEAD", "TRANSIENT"}, tries : 0..2]

NoJob == [conn |-> AnyConnection, epoch |-> 0,
          trigger |-> CHOOSE t \in Triggers : TRUE, failures |-> 0]
NoClaim == [day |-> 0, account |-> AnyAccount]
NoHand == [jar |-> 0, account |-> AnyAccount]
NewControl == [held |-> FALSE, handled |-> FALSE, terminal |-> FALSE,
               healthy |-> FALSE, result |-> "TRANSIENT", tries |-> 0]

TypeOK ==
    /\ DatabaseTypeOK
    /\ pc \in [Runs -> Steps]
    /\ job \in [Runs -> Job]
    /\ claim \in [Runs -> Claim]
    /\ attempt \in [Runs -> Nat]
    /\ hand \in [Runs -> Hand]
    /\ ctl \in [Runs -> Control]
    /\ sent \subseteq Runs /\ noticed \subseteq Runs /\ uncertain \subseteq Runs
    /\ faults \in [Runs -> 0..MaxFaults]

Init ==
    /\ DatabaseInit
    /\ pc = [r \in Runs |-> "idle"]
    /\ job = [r \in Runs |-> NoJob]
    /\ claim = [r \in Runs |-> NoClaim]
    /\ attempt = [r \in Runs |-> 0]
    /\ hand = [r \in Runs |-> NoHand]
    /\ ctl = [r \in Runs |-> NewControl]
    /\ sent = {} /\ noticed = {} /\ uncertain = {}
    /\ faults = [r \in Runs |-> 0]

-----------------------------------------------------------------------------
(* Abbreviations for the run's connection, epoch, claim and trigger.        *)

C(r) == job[r].conn
E(r) == job[r].epoch
D(r) == claim[r].day
A(r) == claim[r].account
IsManual(r) == job[r].trigger = "manual"

At(r, step) == pc[r] = step
Goto(r, step) == pc' = [pc EXCEPT ![r] = step]

Fault(r) ==
    faults[r] < MaxFaults /\ faults' = [faults EXCEPT ![r] = @ + 1]

\* Mutant: the finally block is missing.
FinallyNothing(held) == "done"

\* The finally block runs the release only while rotationLeaseHeld.
Finally(held) == IF held THEN "release" ELSE "done"

\* After failRefresh: the expiry email if the lifecycle write was terminal.
AfterFailure(r, held) ==
    IF ctl[r].terminal THEN "expire" ELSE Finally(held)

\* The failRefresh variant for a classified failure.
Finalize(r) ==
    CASE attempt[r] = 0 -> "failRetry"
      [] attempt[r] # 0 /\ ctl[r].handled -> "close"
      [] OTHER -> "failAmbiguous"

AfterIdentity(r) == IF ctl[r].healthy THEN "enrich" ELSE "done"
AfterRecord(r) == IF IsManual(r) THEN AfterIdentity(r) ELSE "puuid"

\* Where runAccount goes when the call of a step throws.
OnError(r) ==
    CASE pc[r] = "claim" -> "release"
      [] pc[r] = "load" -> "lifecycle"
      [] pc[r] \in {"renew", "persist", "mark"} -> "failRetry"
      [] pc[r] = "lifecycle" -> Finalize(r)
      [] pc[r] = "healthy" -> "record"
      [] pc[r] = "extras" -> AfterRecord(r)
      [] pc[r] = "puuid" -> AfterIdentity(r)
      [] pc[r] \in {"failRetry", "close"} -> AfterFailure(r, TRUE)
      [] pc[r] = "failAmbiguous" -> AfterFailure(r, FALSE)
      [] OTHER -> "done"

\* persistStorefrontRefresh tries a failed call once more.
OnRecordError(r, giveUp) == IF ctl[r].tries = 0 THEN pc[r] ELSE giveUp

\* A call that took effect: the response arrives, or is lost.
Reply(r, next) ==
    \/ Goto(r, next) /\ UNCHANGED faults
    \/ Fault(r) /\ Goto(r, OnError(r))

\* A call that answers without touching the database.
Answer(r, next) == Goto(r, next) /\ UNCHANGED <<dbVars, faults>>

local == <<job, claim, attempt, hand, sent, noticed, uncertain>>

-----------------------------------------------------------------------------
(* Listing, lease, claim.                                                   *)

\* listConnections takes the snapshot; runAccount skips a dead session.
Start(r, c, t) ==
    /\ At(r, "idle") /\ Live(c)
    /\ job' = [job EXCEPT ![r] =
                 [conn |-> c, epoch |-> conn[c].epoch, trigger |-> t,
                  failures |-> conn[c].failures]]
    /\ Goto(r, IF conn[c].auth = "REAUTH_REQUIRED" THEN "done" ELSE "acquire")
    /\ UNCHANGED <<dbVars, claim, attempt, hand, ctl, sent, noticed,
                   uncertain, faults>>

Acquire(r) ==
    /\ At(r, "acquire")
    /\ ClaimRotation(r, C(r), E(r))
    /\ ctl' = [ctl EXCEPT ![r].held = TRUE]
    /\ Reply(r, "claim")
    /\ UNCHANGED local

AcquireRefused(r) ==
    /\ At(r, "acquire") /\ ~RotationClaimable(C(r), E(r))
    /\ Answer(r, "done")
    /\ UNCHANGED <<local, ctl>>

TakeDaily(r) ==
    /\ At(r, "claim") /\ ~IsManual(r)
    /\ ClaimDaily(r, C(r), E(r))
    /\ claim' = [claim EXCEPT ![r].day = today]
    /\ Reply(r, "load")
    /\ UNCHANGED <<job, attempt, hand, sent, noticed, uncertain, ctl>>

TakeManual(r) ==
    /\ At(r, "claim") /\ IsManual(r)
    /\ ClaimManual(r, C(r), E(r))
    /\ claim' = [claim EXCEPT ![r] =
                   [day |-> today, account |-> conn[C(r)].puuid]]
    /\ Reply(r, "load")
    /\ UNCHANGED <<job, attempt, hand, sent, noticed, uncertain, ctl>>

ClaimRefused(r) ==
    /\ At(r, "claim")
    /\ \/ IsManual(r) /\ ~ManualClaimable(r, C(r), E(r))
       \/ ~IsManual(r) /\ ~DailyClaimable(r, C(r), E(r))
    /\ Answer(r, "release")
    /\ UNCHANGED <<local, ctl>>

-----------------------------------------------------------------------------
(* Session: load, renew the lease, reauthenticate at Riot, store the jar.   *)

Load(r) ==
    /\ At(r, "load") /\ Current(C(r), E(r))
    /\ hand' = [hand EXCEPT ![r] = [jar |-> conn[C(r)].jar,
                                    account |-> conn[C(r)].account]]
    /\ Answer(r, "renew")
    /\ UNCHANGED <<job, claim, attempt, sent, noticed, uncertain, ctl>>

LoadMissing(r) ==
    /\ At(r, "load") /\ ~Current(C(r), E(r))
    /\ Answer(r, "lifecycle")
    /\ UNCHANGED <<local, ctl>>

Renew(r) ==
    /\ At(r, "renew")
    /\ RenewRotation(r, C(r), E(r))
    /\ Reply(r, "refresh")
    /\ UNCHANGED <<local, ctl>>

RenewRefused(r) ==
    /\ At(r, "renew") /\ ~RotationRenewable(r, C(r), E(r))
    /\ Answer(r, "failRetry")
    /\ UNCHANGED <<local, ctl>>

\* Riot answers a reauthentication with a new jar.
Refresh(r) ==
    /\ At(r, "refresh")
    /\ jars' = jars + 1
    /\ hand' = [hand EXCEPT ![r].jar = jars + 1]
    /\ Goto(r, "persist")
    /\ UNCHANGED <<now, today, conn, lease, daily, manual, shop, lastMark,
                   peak, job, claim, attempt, sent, noticed, uncertain, ctl,
                   faults>>

\* The session is dead, or the answer is an error or none at all.
RefreshFails(r) ==
    /\ At(r, "refresh")
    /\ \E result \in {"DEAD", "TRANSIENT"} :
         ctl' = [ctl EXCEPT ![r].result = result]
    /\ Answer(r, "lifecycle")
    /\ UNCHANGED local

Persist(r) ==
    /\ At(r, "persist")
    /\ PersistRotated(r, C(r), E(r), hand[r].jar)
    /\ Reply(r, "prepare")
    /\ UNCHANGED <<local, ctl>>

PersistRefused(r) ==
    /\ At(r, "persist") /\ ~HoldsUnattempted(r, C(r), E(r))
    /\ Answer(r, "failRetry")
    /\ UNCHANGED <<local, ctl>>

-----------------------------------------------------------------------------
(* The fenced storefront request.                                           *)

\* Entitlements, PUUID and client version, all before the fence.
Prepare(r) ==
    /\ At(r, "prepare")
    /\ \E next \in {"mark", "lifecycle"} : Answer(r, next)
    /\ UNCHANGED <<local, ctl>>

\* Both markers; a lost response leaves the run without its checkedAt.
MarkStorefrontAttempt(r) ==
    /\ At(r, "mark")
    /\ \/ ~IsManual(r) /\ MarkDaily(r, C(r), E(r), D(r))
       \/ IsManual(r) /\ MarkManual(r, C(r), E(r), A(r), D(r))
    /\ \/ /\ Goto(r, "fetch") /\ UNCHANGED faults
          /\ attempt' = [attempt EXCEPT ![r] = lastMark + 1]
       \/ Fault(r) /\ Goto(r, OnError(r)) /\ UNCHANGED attempt
    /\ UNCHANGED <<job, claim, hand, sent, noticed, uncertain, ctl>>

MarkRefused(r) ==
    /\ At(r, "mark")
    /\ \/ IsManual(r) /\ ~ManualMarkable(r, C(r), E(r), A(r), D(r))
       \/ ~IsManual(r) /\ ~DailyMarkable(r, C(r), E(r), D(r))
    /\ Answer(r, "failRetry")
    /\ UNCHANGED <<local, ctl>>

GetStore(r) ==
    /\ At(r, "fetch")
    /\ sent' = sent \cup {r}
    /\ Answer(r, "awaiting")
    /\ UNCHANGED <<job, claim, attempt, hand, noticed, uncertain, ctl>>

StoreReceived(r) ==
    /\ At(r, "awaiting")
    /\ Answer(r, "healthy")
    /\ UNCHANGED <<local, ctl>>

\* Riot answered with an error or an unreadable body: "completed".
StoreRejected(r) ==
    /\ At(r, "awaiting")
    /\ ctl' = [ctl EXCEPT ![r].handled = TRUE]
    /\ Answer(r, "lifecycle")
    /\ UNCHANGED local

\* The fetch was aborted: Riot may still be serving the request.
StoreAmbiguous(r) ==
    /\ At(r, "awaiting")
    /\ uncertain' = uncertain \cup {r}
    /\ Answer(r, "lifecycle")
    /\ UNCHANGED <<job, claim, attempt, hand, sent, noticed, ctl>>

-----------------------------------------------------------------------------
(* The failure path.                                                        *)

\* The write is decided from the snapshot's failure count, and is not guarded
\* by the lease.
Lifecycle(r) ==
    /\ At(r, "lifecycle")
    /\ ApplyLifecycle(C(r), E(r), job[r].failures, ctl[r].result)
    /\ \/ /\ Goto(r, Finalize(r)) /\ UNCHANGED faults
          /\ ctl' = [ctl EXCEPT ![r].terminal =
                       Terminal(job[r].failures, ctl[r].result)]
       \/ Fault(r) /\ Goto(r, OnError(r)) /\ UNCHANGED ctl
    /\ UNCHANGED local

LifecycleStale(r) ==
    /\ At(r, "lifecycle") /\ ~Usable(C(r), E(r))
    /\ Answer(r, Finalize(r))
    /\ UNCHANGED <<local, ctl>>

\* Only a manual claim is handed back; an automatic one waits to go stale.
FailRetry(r) ==
    /\ At(r, "failRetry")
    /\ IF IsManual(r)
       THEN FailManualRetryable(r, C(r), E(r), A(r), D(r))
       ELSE UNCHANGED dbVars
    /\ Reply(r, AfterFailure(r, TRUE))
    /\ UNCHANGED <<local, ctl>>

\* An ambiguous request keeps the lease fenced.
FailAmbiguous(r) ==
    /\ At(r, "failAmbiguous")
    /\ IF IsManual(r)
       THEN FailManualFinal(r, C(r), E(r), A(r), D(r))
       ELSE UNCHANGED dbVars
    /\ ctl' = [ctl EXCEPT ![r].held = FALSE]
    /\ Reply(r, AfterFailure(r, FALSE))
    /\ UNCHANGED local

Close(r) ==
    /\ At(r, "close")
    /\ \/ ~IsManual(r) /\ CloseDaily(r, C(r), E(r), D(r))
       \/ IsManual(r) /\ CloseManual(r, C(r), E(r), A(r), D(r))
    /\ \/ /\ Goto(r, AfterFailure(r, FALSE)) /\ UNCHANGED faults
          /\ ctl' = [ctl EXCEPT ![r].held = FALSE]
       \/ Fault(r) /\ Goto(r, OnError(r)) /\ UNCHANGED ctl
    /\ UNCHANGED local

CloseRefused(r) ==
    /\ At(r, "close")
    /\ \/ IsManual(r) /\ ~ManualClosable(r, C(r), E(r), A(r), D(r))
       \/ ~IsManual(r) /\ ~DailyClosable(r, C(r), E(r), D(r))
    /\ Answer(r, AfterFailure(r, TRUE))
    /\ UNCHANGED <<local, ctl>>

\* The email needs a verified address and may fail to go out.
SendExpiry(r) ==
    /\ At(r, "expire")
    /\ \/ noticed' = noticed \cup {r}
       \/ UNCHANGED noticed
    /\ Answer(r, Finally(ctl[r].held))
    /\ UNCHANGED <<job, claim, attempt, hand, sent, uncertain, ctl>>

Release(r) ==
    /\ At(r, "release")
    /\ ReleaseRotation(r, C(r), E(r))
    /\ Goto(r, "done")
    /\ UNCHANGED <<local, ctl, faults>>

-----------------------------------------------------------------------------
(* The success path.                                                        *)

Healthy(r) ==
    /\ At(r, "healthy")
    /\ ApplyLifecycle(C(r), E(r), job[r].failures, "OK")
    /\ \/ /\ Goto(r, "record") /\ UNCHANGED faults
          /\ ctl' = [ctl EXCEPT ![r].healthy = TRUE]
       \/ Fault(r) /\ Goto(r, OnError(r)) /\ UNCHANGED ctl
    /\ UNCHANGED local

HealthyStale(r) ==
    /\ At(r, "healthy") /\ ~Usable(C(r), E(r))
    /\ Answer(r, "record")
    /\ UNCHANGED <<local, ctl>>

\* Canonicalising the payload throws, so it is never persisted.
CanonicalizeFails(r) ==
    /\ At(r, "record") /\ ctl[r].tries = 0
    /\ Answer(r, "close")
    /\ UNCHANGED <<local, ctl>>

RecordEffect(r) ==
    \/ ~IsManual(r) /\ RecordDaily(r, C(r), E(r), D(r), attempt[r])
    \/ IsManual(r) /\ RecordManual(r, C(r), E(r), A(r), D(r), attempt[r])

Recordable(r) ==
    /\ OwnsRecordedAttempt(r, C(r), E(r), D(r), attempt[r])
    /\ IsManual(r) => \/ Completable(r, C(r), E(r), A(r), D(r), attempt[r])
                      \/ Completed(r, C(r), E(r), A(r), D(r))

Replayable(r) ==
    /\ ReplayableShop(r, C(r), E(r), D(r), attempt[r])
    /\ IsManual(r) => Completed(r, C(r), E(r), A(r), D(r))

\* The raw storefront is stored; the lease goes with it.
Record(r) ==
    /\ At(r, "record")
    /\ RecordEffect(r)
    /\ \/ /\ Goto(r, "extras") /\ UNCHANGED faults
          /\ ctl' = [ctl EXCEPT ![r] = [@ EXCEPT !.held = FALSE, !.tries = 0]]
       \/ /\ Fault(r) /\ Goto(r, OnRecordError(r, "close"))
          /\ ctl' = [ctl EXCEPT ![r].tries = 1]
    /\ UNCHANGED local

RecordReplayed(r) ==
    /\ At(r, "record") /\ Replayable(r)
    /\ ctl' = [ctl EXCEPT ![r] = [@ EXCEPT !.held = FALSE, !.tries = 0]]
    /\ Answer(r, "extras")
    /\ UNCHANGED local

RecordRefused(r) ==
    /\ At(r, "record") /\ ~Recordable(r) /\ ~Replayable(r)
    /\ ctl' = [ctl EXCEPT ![r].tries = 1]
    /\ Answer(r, OnRecordError(r, "close"))
    /\ UNCHANGED local

\* Bundle and night market go on the row afterwards, when there are any.
Extras(r) ==
    /\ pc[r] \in {"extras", "enrichExtras"}
    /\ \/ WriteExtras(C(r), D(r), attempt[r])
       \/ UNCHANGED dbVars
    /\ Goto(r, IF At(r, "extras") THEN AfterRecord(r) ELSE "done")
    /\ UNCHANGED <<local, ctl, faults>>

ResolvePuuid(r) ==
    /\ At(r, "puuid")
    /\ \/ PersistPuuid(C(r), E(r), hand[r].account)
       \/ UNCHANGED dbVars
    /\ Goto(r, AfterIdentity(r))
    /\ UNCHANGED <<local, ctl, faults>>

\* The matched, catalog-resolved storefront is written over the raw one.
Enrich(r) ==
    /\ At(r, "enrich")
    /\ EnrichShop(C(r), E(r), D(r), attempt[r])
    /\ \/ Goto(r, "enrichExtras") /\ UNCHANGED faults
       \/ Fault(r) /\ Goto(r, OnRecordError(r, "done"))
    /\ ctl' = [ctl EXCEPT ![r].tries = 1]
    /\ UNCHANGED local

\* The catalog pipeline throws: the raw storefront stays as it is.
PipelineFails(r) ==
    /\ At(r, "enrich") /\ ctl[r].tries = 0
    /\ Answer(r, "done")
    /\ UNCHANGED <<local, ctl>>

EnrichRefused(r) ==
    /\ At(r, "enrich") /\ ~Enrichable(C(r), E(r), D(r), attempt[r])
    /\ ctl' = [ctl EXCEPT ![r].tries = 1]
    /\ Answer(r, OnRecordError(r, "done"))
    /\ UNCHANGED local

-----------------------------------------------------------------------------
(* Faults, and the specification.                                           *)

CallSteps ==
    {"acquire", "claim", "load", "renew", "persist", "mark", "lifecycle",
     "healthy", "extras", "puuid", "failRetry", "failAmbiguous", "close",
     "release", "enrichExtras"}

\* The call throws and did nothing.
CallFails(r) ==
    /\ pc[r] \in CallSteps
    /\ Fault(r) /\ Goto(r, OnError(r))
    /\ ctl' = [ctl EXCEPT ![r].held =
                 IF At(r, "failAmbiguous") THEN FALSE ELSE @]
    /\ UNCHANGED <<dbVars, local>>

RecordCallFails(r) ==
    /\ pc[r] \in {"record", "enrich"}
    /\ Fault(r)
    /\ Goto(r, OnRecordError(r, IF At(r, "record") THEN "close" ELSE "done"))
    /\ ctl' = [ctl EXCEPT ![r].tries = 1]
    /\ UNCHANGED <<dbVars, local>>

Crash(r) ==
    /\ pc[r] \notin Ended \cup {"idle"}
    /\ Fault(r) /\ Goto(r, "crashed")
    /\ UNCHANGED <<dbVars, local, ctl>>

Proceed(r) ==
    \/ Acquire(r) \/ AcquireRefused(r)
    \/ TakeDaily(r) \/ TakeManual(r) \/ ClaimRefused(r)
    \/ Load(r) \/ LoadMissing(r)
    \/ Renew(r) \/ RenewRefused(r)
    \/ Refresh(r) \/ RefreshFails(r)
    \/ Persist(r) \/ PersistRefused(r)
    \/ Prepare(r)
    \/ MarkStorefrontAttempt(r) \/ MarkRefused(r)
    \/ GetStore(r) \/ StoreReceived(r) \/ StoreRejected(r) \/ StoreAmbiguous(r)
    \/ Lifecycle(r) \/ LifecycleStale(r)
    \/ FailRetry(r) \/ FailAmbiguous(r)
    \/ Close(r) \/ CloseRefused(r)
    \/ SendExpiry(r) \/ Release(r)
    \/ Healthy(r) \/ HealthyStale(r)
    \/ CanonicalizeFails(r)
    \/ Record(r) \/ RecordReplayed(r) \/ RecordRefused(r)
    \/ Extras(r) \/ ResolvePuuid(r)
    \/ Enrich(r) \/ PipelineFails(r) \/ EnrichRefused(r)
    \/ CallFails(r) \/ RecordCallFails(r)

Next ==
    \/ \E r \in Runs :
         \/ \E c \in Connections, t \in Triggers : Start(r, c, t)
         \/ Proceed(r)
         \/ Crash(r)
    \/ Environment /\ UNCHANGED workerVars

Spec == Init /\ [][Next]_vars

\* A process that has not crashed keeps running: every await returns or
\* times out.
FairSpec == Spec /\ \A r \in Runs : WF_vars(Proceed(r))

-----------------------------------------------------------------------------
(* Properties.                                                              *)

SameAllowance(r, s) ==
    /\ D(r) = D(s) /\ IsManual(r) = IsManual(s)
    /\ IF IsManual(r) THEN A(r) = A(s) ELSE C(r) = C(s)

\* At most one storefront request leaves for one automatic allowance
\* (connection, store day) or one manual allowance (PUUID, store day), through
\* crashes, lost responses, stale claims, reconnects and disconnects.
OneRequestPerAllowance ==
    \A r, s \in sent : r # s => ~SameAllowance(r, s)

\* The row of a run's allowance carries this attempt stamp.
RowStamp(r) ==
    IF IsManual(r) THEN manual[A(r)][D(r)].stamp ELSE daily[C(r)][D(r)].stamp

\* Stamps come from the clock of the marks, and only a row that was claimed
\* and marked has one: a row that can still be claimed or handed back does not.
StampsRecorded ==
    /\ \A c \in Connections, d \in Days :
         /\ daily[c][d].stamp <= lastMark
         /\ ~daily[c][d].taken => daily[c][d].stamp = 0
    /\ \A a \in Accounts, d \in Days :
         /\ manual[a][d].stamp <= lastMark
         /\ manual[a][d].status \in {"none", "claimed", "retryable_failed"}
              => manual[a][d].stamp = 0

Unclaimed == {"idle", "acquire", "claim"}

\* A run that asks Riot holds the very stamp of its allowance's row.
RunStamps ==
    \A r \in Runs :
       /\ attempt[r] # 0 => RowStamp(r) = attempt[r]
       /\ pc[r] \in Unclaimed => attempt[r] = 0
       /\ At(r, "fetch") \/ r \in sent => attempt[r] # 0

\* No two runs hold the same stamp.
AttemptsDistinct ==
    \A r, s \in Runs : r # s /\ attempt[r] # 0 => attempt[r] # attempt[s]

\* Why OneRequestPerAllowance holds, as an inductive invariant: the row is the
\* witness of who may ask, however often its claim, lease, epoch or connection
\* changed hands since.
AttemptInv == StampsRecorded /\ RunStamps /\ AttemptsDistinct

\* The allowance of a run: its connection's automatic check of the store day,
\* or its PUUID's manual one.
Allowance(r) ==
    IF IsManual(r) THEN <<"manual", A(r), D(r)>> ELSE <<"daily", C(r), D(r)>>

DailyAllowances == {"daily"} \X Connections \X Days
ManualAllowances == {"manual"} \X Accounts \X Days

\* The refinement mapping: an allowance is spent once its row has an attempt
\* stamp, and granted to the run that holds that stamp as its checkedAt.
SpentAllowances ==
    {k \in DailyAllowances : daily[k[2]][k[3]].stamp # 0} \cup
    {k \in ManualAllowances : manual[k[2]][k[3]].stamp # 0}
GrantedAttempts ==
    {<<r, Allowance(r)>> : r \in {s \in Runs : attempt[s] # 0}}
SentRequests == {<<r, Allowance(r)>> : r \in sent}

Abstract == INSTANCE StorefrontAllowance WITH
    Allowances <- DailyAllowances \cup ManualAllowances,
    Requesters <- Runs,
    spent <- SpentAllowances,
    granted <- GrantedAttempts,
    sent <- SentRequests

\* The worker implements the allowance: no request without an allowance spent
\* for it beforehand, in whatever order triggers, timeouts and faults come.
ImplementsAllowance == Abstract!Spec

\* From the mark to a settled answer the request may be at Riot; after an
\* aborted fetch it may be there for good.
InFlight(r) == pc[r] \in {"fetch", "awaiting"} \/ r \in uncertain

\* While a storefront request may be in flight, no other trigger starts one
\* for the same session on the same store day (SECURITY.md, "issuing
\* concurrent storefront requests for the same connection").
NoConcurrentRequests ==
    \A r, s \in Runs :
       r # s /\ InFlight(r) /\ InFlight(s) /\ C(r) = C(s) /\ E(r) = E(s)
       => D(r) # D(s)

\* The steps of a run after a handled failure, and after an ambiguous one.
HandledSteps == {"lifecycle", "close", "expire", "release", "done", "crashed"}
UncertainSteps ==
    {"lifecycle", "failAmbiguous", "expire", "release", "done", "crashed"}

\* The shape check of the lease columns: no attempt without a token.
LeaseShape ==
    \A c \in Connections : lease[c].token = NoRun => lease[c].attempted = 0

\* A run works on a row that exists, or existed, at its epoch or a later one.
RunsOnRows ==
    \A r \in Runs :
       /\ D(r) <= today
       /\ pc[r] # "idle" => /\ conn[C(r)].state # "absent"
                            /\ E(r) <= conn[C(r)].epoch

\* A failed attempt is handled (and closed) or ambiguous (and never closed).
Outcomes ==
    \A r \in Runs :
       /\ pc[r] \in {"fetch", "awaiting"} => attempt[r] # 0
       /\ ctl[r].handled => pc[r] \in HandledSteps /\ attempt[r] # 0
       /\ r \in uncertain =>
            pc[r] \in UncertainSteps /\ attempt[r] # 0 /\ ~ctl[r].handled

\* A request that may be in flight today keeps its session's lease fenced.
FenceHeld ==
    \A r \in Runs :
       InFlight(r) /\ Current(C(r), E(r)) /\ D(r) = today
       => /\ lease[C(r)].token = r /\ lease[C(r)].attempted # 0
          /\ lease[C(r)].day = today

\* Why NoConcurrentRequests holds, as an inductive invariant.
FenceInv ==
    LeaseShape /\ RunsOnRows /\ Outcomes /\ FenceHeld /\ NoConcurrentRequests

\* An attempted lease is cleared or taken over only by its own run's terminal
\* close or record, on a later store day, or by a reconnect or disconnect
\* (README, "after the storefront fence").
FenceClearing ==
    [][\A c \in Connections :
         lease[c].attempted # 0 /\ lease'[c] # lease[c] =>
            \/ lease[c].day < today
            \/ conn'[c].epoch # conn[c].epoch
            \/ conn'[c].state = "deleted"
            \/ /\ lease'[c] = NoLease
               /\ \E r \in Runs :
                    lease[c].token = r /\ pc[r] \in {"close", "record"}]_vars

\* A worker whose connection was reconnected or deleted under it changes
\* neither the replacement's session, status or lease, nor its storefront.
ReplacementUntouched ==
    [][\A r \in Runs :
         pc'[r] # pc[r] /\ pc[r] # "idle" /\ ~Current(C(r), E(r))
         => /\ conn' = conn /\ lease' = lease
            /\ \A c \in Connections, d \in Days :
                 shop'[c][d].stamp = shop[c][d].stamp]_vars

\* Within one epoch the stored jar is never replaced by an older one: two
\* runs that both rotated the session cannot overwrite each other backwards.
JarNeverRegresses ==
    [][\A c \in Connections :
         conn'[c].epoch = conn[c].epoch => conn'[c].jar >= conn[c].jar]_vars

\* A stored storefront is only ever replaced by one of a later attempt, by
\* the first write and by every replay; enrichment keeps the row it decorates.
ShopNeverRegresses ==
    [][\A c \in Connections, d \in Days :
         conn'[c].state # "deleted" =>
            /\ shop'[c][d].stamp >= shop[c][d].stamp
            /\ shop'[c][d].enriched \in {0, shop'[c][d].stamp}]_vars

\* A spent allowance is never handed back: the attempt stamp of a daily or
\* manual row is final, and a manual success is never undone.
AllowanceStaysSpent ==
    [][/\ \A c \in Connections, d \in Days :
            daily[c][d].stamp # 0 => daily'[c][d].stamp = daily[c][d].stamp
       /\ \A a \in Accounts, d \in Days :
            manual[a][d].stamp # 0 =>
               /\ manual'[a][d].stamp = manual[a][d].stamp
               /\ manual[a][d].status = "succeeded" =>
                     manual'[a][d].status = "succeeded"]_vars

\* The manual allowance reads succeeded only when its storefront, or a later
\* one of that day, is in shop_checks (as long as the connection exists).
SuccessIsDurable ==
    \A a \in Accounts, d \in Days :
       LET m == manual[a][d]
       IN  m.status = "succeeded" /\ Live(m.conn) =>
              m.stamp # 0 /\ shop[m.conn][d].stamp >= m.stamp

\* Disconnecting and connecting again mints no automatic allowance: a user
\* never has more daily runs than accounts held at once that day.
DailyCapacity ==
    \A u \in Users :
       Cardinality({c \in Connections :
                      Owner[c] = u /\ daily[c][today].taken}) <= peak[u]

\* One session (connection and epoch) is announced expired at most once,
\* whichever runs find it dead at the same time.
OneExpiryNotice ==
    \A r, s \in noticed : r # s => C(r) # C(s) \/ E(r) # E(s)

\* A run that ended without a fault left no lease behind, except the fenced
\* one of an ambiguous request.
NoLeaseLeak ==
    \A c \in Connections, r \in Runs :
       lease[c].token = r /\ pc[r] = "done" =>
          \/ faults[r] > 0
          \/ lease[c].attempted # 0 /\ r \in uncertain

\* Every lease is eventually let go of, turned into an attempt, or outlived
\* by a fault of its run: no path through runAccount skips the release.
LeaseLetGo ==
    \A c \in Connections, r \in Runs :
       lease[c].token = r ~>
          lease[c].token # r \/ lease[c].attempted # 0 \/ faults[r] > 0

\* README: "A failure before the fenced Riot storefront request can be
\* retried": a manual claim handed back can be claimed again by a run that
\* gets the lease.
FailureCanBeRetried ==
    \A a \in Accounts :
       LET m == manual[a][today]
       IN  /\ m.status = "retryable_failed"
           /\ Usable(m.conn, m.epoch) /\ conn[m.conn].puuid = a
           => conn[m.conn].auth = "CONNECTED"

\* SECURITY.md: "the third consecutive ambiguous failure also requires
\* reconnection".
ThirdFailureRequiresReconnect ==
    \A c \in Connections :
       Live(c) /\ conn[c].streak >= FailureThreshold
       => conn[c].auth = "REAUTH_REQUIRED"

\* record_storefront_refresh: enrichment "may only decorate the raw row for
\* this exact attempt": bundle and night market come from the row's attempt.
ExtrasOfSameAttempt ==
    [][\A c \in Connections, d \in Days :
         shop'[c][d].extras # shop[c][d].extras /\ shop'[c][d].extras # 0
         => shop'[c][d].extras = shop'[c][d].stamp]_vars
=============================================================================
