------------------------- MODULE StorefrontDatabase -------------------------
(***************************************************************************)
(* The Postgres side of the storefront refresh: the rows of                *)
(* riot_connections (with the shared session-rotation lease),              *)
(* riot_daily_runs, riot_manual_refreshes and shop_checks, and one         *)
(* operator per service-role function or single UPDATE that the worker and *)
(* the connect flows run against them.  Every such function takes its row  *)
(* locks first, so each is one atomic step.                                *)
(*                                                                         *)
(* Values that a fresh gen_random_uuid() supplies are named by who asked:  *)
(* the rotation lease token and the manual claim token of a run are the    *)
(* run itself, because one runAccount call asks for each at most once.     *)
(*                                                                         *)
(* Three things are not columns: conn[c].account, the Riot account whose   *)
(* jar the row stores, conn[c].streak, the failing checks applied to it    *)
(* since the last good one or the last connect, and peak.                  *)
(***************************************************************************)
EXTENDS Naturals, FiniteSets

CONSTANTS
    Runs,               \* runAccount calls: one trigger, one connection row
    NoRun,              \* the SQL null in a token column
    Connections,        \* ids of riot_connections rows; an id is never reused
    Users,
    Owner,              \* [Connections -> Users], the user_id of each row
    Accounts,           \* Riot accounts (PUUIDs)
    NoAccount,          \* the SQL null in the puuid column
    FailureThreshold,   \* CONSECUTIVE_FAILURE_THRESHOLD
    MaxTick,            \* bound on the clock, in steps of five minutes
    MaxDay,             \* bound on UTC store days
    MaxEpoch            \* bound on connects and reconnects of one row

ASSUME RunsAssumption == NoRun \notin Runs
ASSUME ConnectionsAssumption ==
    /\ Connections # {} /\ IsFiniteSet(Connections)
    /\ Owner \in [Connections -> Users]
ASSUME AccountsAssumption == Accounts # {} /\ NoAccount \notin Accounts
ASSUME BoundsAssumption ==
    /\ FailureThreshold \in Nat \ {0}
    /\ MaxTick \in Nat /\ MaxDay \in Nat /\ MaxEpoch \in Nat

VARIABLES
    now,        \* coarse clock: two instants five minutes apart differ
    today,      \* (current_timestamp at time zone 'UTC')::date
    conn,       \* riot_connections, without its lease columns
    lease,      \* the rotation_lease_* columns of each connection
    daily,      \* riot_daily_runs by connection and store date
    manual,     \* riot_manual_refreshes by PUUID and store date
    shop,       \* shop_checks by connection and rotation date
    lastMark,   \* the latest storefront_attempted_at handed out, as a count
    jars,       \* how many session jars Riot has issued so far
    peak        \* the most connections each user has held at once today

dbVars == <<now, today, conn, lease, daily, manual, shop, lastMark, jars, peak>>

Days == 0..MaxDay
RowStates == {"absent", "live", "deleted"}
AuthStatuses == {"CONNECTED", "TRANSIENT", "REAUTH_REQUIRED"}
ManualStatuses ==
    {"none", "claimed", "requesting", "succeeded", "retryable_failed"}

ConnectionRow ==
    [state : RowStates, epoch : Nat, auth : AuthStatuses, failures : Nat,
     puuid : Accounts \cup {NoAccount}, account : Accounts, jar : Nat,
     streak : Nat]
LeaseColumns ==
    [token : Runs \cup {NoRun}, at : Nat, day : Nat, attempted : Nat]
DailyRow ==
    [taken : BOOLEAN, epoch : Nat, at : Nat, stamp : Nat, failed : BOOLEAN]
ManualRow ==
    [status : ManualStatuses, conn : Connections, epoch : Nat,
     token : Runs \cup {NoRun}, at : Nat, stamp : Nat, failed : BOOLEAN]
ShopRow == [stamp : Nat, enriched : Nat, extras : Nat]

AnyConnection == CHOOSE c \in Connections : TRUE
AnyAccount == CHOOSE a \in Accounts : TRUE

NoLease == [token |-> NoRun, at |-> 0, day |-> 0, attempted |-> 0]
NoDaily ==
    [taken |-> FALSE, epoch |-> 0, at |-> 0, stamp |-> 0, failed |-> FALSE]
NoManual ==
    [status |-> "none", conn |-> AnyConnection, epoch |-> 0, token |-> NoRun,
     at |-> 0, stamp |-> 0, failed |-> FALSE]
NoShop == [stamp |-> 0, enriched |-> 0, extras |-> 0]

DatabaseTypeOK ==
    /\ now \in Nat /\ today \in Days
    /\ conn \in [Connections -> ConnectionRow]
    /\ lease \in [Connections -> LeaseColumns]
    /\ daily \in [Connections -> [Days -> DailyRow]]
    /\ manual \in [Accounts -> [Days -> ManualRow]]
    /\ shop \in [Connections -> [Days -> ShopRow]]
    /\ lastMark \in Nat /\ jars \in Nat
    /\ peak \in [Users -> Nat]

DatabaseInit ==
    /\ now = 0 /\ today = 0
    /\ conn = [c \in Connections |->
                 [state |-> "absent", epoch |-> 0, auth |-> "CONNECTED",
                  failures |-> 0, puuid |-> NoAccount,
                  account |-> AnyAccount, jar |-> 0, streak |-> 0]]
    /\ lease = [c \in Connections |-> NoLease]
    /\ daily = [c \in Connections |-> [d \in Days |-> NoDaily]]
    /\ manual = [a \in Accounts |-> [d \in Days |-> NoManual]]
    /\ shop = [c \in Connections |-> [d \in Days |-> NoShop]]
    /\ lastMark = 0 /\ jars = 0
    /\ peak = [u \in Users |-> 0]

-----------------------------------------------------------------------------
(* Row conditions shared by the functions.                                 *)

Live(c) == conn[c].state = "live"

\* The row with this id, owner and connection_epoch exists.
Current(c, e) == Live(c) /\ conn[c].epoch = e

\* Mutant: the epoch is not compared.
UsableAnyEpoch(c, e) == Live(c) /\ conn[c].auth # "REAUTH_REQUIRED"

\* Mutant: a dead session is still usable.
UsableWhenDead(c, e) == Current(c, e)

Usable(c, e) == Current(c, e) /\ conn[c].auth # "REAUTH_REQUIRED"

\* t is the token of a lease that has not crossed the storefront fence.
HoldsUnattempted(t, c, e) ==
    Current(c, e) /\ lease[c].token = t /\ lease[c].attempted = 0

HoldsToday(t, c, e) == HoldsUnattempted(t, c, e) /\ lease[c].day = today

-----------------------------------------------------------------------------
(* The shared session-rotation lease.                                      *)

\* Mutant: five minutes also release an attempted lease.
RotationClaimableAttempted(c, e) ==
    /\ Usable(c, e)
    /\ lease[c].token = NoRun \/ lease[c].day < today \/ lease[c].at < now

\* claim_riot_session_rotation answers 'acquired': the lease is free, left
\* over from an earlier store day, or unattempted for over five minutes.
RotationClaimable(c, e) ==
    /\ Usable(c, e)
    /\ \/ lease[c].token = NoRun
       \/ lease[c].day < today
       \/ lease[c].attempted = 0 /\ lease[c].at < now

ClaimRotation(t, c, e) ==
    /\ RotationClaimable(c, e)
    /\ lease' = [lease EXCEPT ![c] = [token |-> t, at |-> now, day |-> today,
                                      attempted |-> 0]]
    /\ UNCHANGED <<now, today, conn, daily, manual, shop, lastMark, jars, peak>>

RotationRenewable(t, c, e) ==
    HoldsToday(t, c, e) /\ conn[c].auth # "REAUTH_REQUIRED"

RenewRotation(t, c, e) ==
    /\ RotationRenewable(t, c, e)
    /\ lease' = [lease EXCEPT ![c].at = now]
    /\ UNCHANGED <<now, today, conn, daily, manual, shop, lastMark, jars, peak>>

\* Mutant: the release does not look at the storefront fence.
ReleaseAnyRotation(t, c, e) ==
    /\ lease' = IF Current(c, e) /\ lease[c].token = t
                THEN [lease EXCEPT ![c] = NoLease] ELSE lease
    /\ UNCHANGED <<now, today, conn, daily, manual, shop, lastMark, jars, peak>>

\* Clears exactly the caller's unattempted lease, otherwise updates no row.
ReleaseRotation(t, c, e) ==
    /\ lease' = IF HoldsUnattempted(t, c, e)
                THEN [lease EXCEPT ![c] = NoLease] ELSE lease
    /\ UNCHANGED <<now, today, conn, daily, manual, shop, lastMark, jars, peak>>

-----------------------------------------------------------------------------
(* The automatic allowance: one riot_daily_runs row per connection and day. *)

\* Mutant: runs of deleted connections are not counted, as before migration
\* 20260821101544.
DailyTakenLive(u) ==
    {c \in Connections : Owner[c] = u /\ Live(c) /\ daily[c][today].taken}

DailyTaken(u) == {c \in Connections : Owner[c] = u /\ daily[c][today].taken}
Held(u) == {c \in Connections : Owner[c] = u /\ Live(c)}

\* Mutant: a stale row is reclaimed even after its attempt.
DailyClaimableSpent(t, c, e) ==
    /\ HoldsToday(t, c, e) /\ conn[c].auth # "REAUTH_REQUIRED"
    /\ \/ daily[c][today].taken /\ daily[c][today].at < now
       \/ ~daily[c][today].taken

\* A taken row is reclaimed only while unattempted and stale; a new row needs
\* the user to hold more accounts than rows already spent today.
DailyClaimable(t, c, e) ==
    /\ HoldsToday(t, c, e) /\ conn[c].auth # "REAUTH_REQUIRED"
    /\ \/ /\ daily[c][today].taken
          /\ daily[c][today].stamp = 0 /\ daily[c][today].at < now
       \/ /\ ~daily[c][today].taken
          /\ Cardinality(DailyTaken(Owner[c])) < Cardinality(Held(Owner[c]))

ClaimDaily(t, c, e) ==
    /\ DailyClaimable(t, c, e)
    /\ daily' = [daily EXCEPT ![c][today] =
                   [taken |-> TRUE, epoch |-> e, at |-> now, stamp |-> 0,
                    failed |-> FALSE]]
    /\ UNCHANGED <<now, today, conn, lease, manual, shop, lastMark, jars, peak>>

DailyMarkable(t, c, e, d) ==
    /\ HoldsToday(t, c, e) /\ conn[c].auth # "REAUTH_REQUIRED"
    /\ d = today
    /\ daily[c][d].taken /\ daily[c][d].epoch = e /\ daily[c][d].stamp = 0

MarkDaily(t, c, e, d) ==
    /\ DailyMarkable(t, c, e, d)
    /\ lastMark' = lastMark + 1
    /\ daily' = [daily EXCEPT ![c][d].stamp = lastMark + 1]
    /\ lease' = [lease EXCEPT ![c].attempted = lastMark + 1]
    /\ UNCHANGED <<now, today, conn, manual, shop, jars, peak>>

-----------------------------------------------------------------------------
(* The manual allowance: one riot_manual_refreshes row per PUUID and day.   *)

\* The first guard of claim_riot_manual_refresh; failing it answers
\* 'account_unavailable'.
ManualAvailable(t, c, e) ==
    /\ HoldsToday(t, c, e) /\ conn[c].auth = "CONNECTED"
    /\ conn[c].puuid # NoAccount

\* Mutant: a stale claim is reclaimed even when its request is out.
ManualFreeRequesting(a) ==
    \/ manual[a][today].status \in {"none", "retryable_failed"}
    \/ manual[a][today].status \in {"claimed", "requesting"}
       /\ manual[a][today].at < now

\* The row is new, released for retry, or a stale pre-attempt claim.
ManualFree(a) ==
    \/ manual[a][today].status \in {"none", "retryable_failed"}
    \/ manual[a][today].status = "claimed" /\ manual[a][today].at < now

ManualClaimable(t, c, e) ==
    ManualAvailable(t, c, e) /\ ManualFree(conn[c].puuid)

ClaimManual(t, c, e) ==
    /\ ManualClaimable(t, c, e)
    /\ manual' = [manual EXCEPT ![conn[c].puuid][today] =
                    [status |-> "claimed", conn |-> c, epoch |-> e,
                     token |-> t, at |-> now, stamp |-> 0, failed |-> FALSE]]
    /\ UNCHANGED <<now, today, conn, lease, daily, shop, lastMark, jars, peak>>

\* The row a run claimed: same id, claim token, connection and epoch.
ClaimedRow(t, c, e, a, d) ==
    manual[a][d].token = t /\ manual[a][d].conn = c /\ manual[a][d].epoch = e

ManualMarkable(t, c, e, a, d) ==
    /\ HoldsToday(t, c, e) /\ conn[c].auth = "CONNECTED"
    /\ d = today /\ ClaimedRow(t, c, e, a, d)
    /\ manual[a][d].status = "claimed" /\ conn[c].puuid = a

MarkManual(t, c, e, a, d) ==
    /\ ManualMarkable(t, c, e, a, d)
    /\ lastMark' = lastMark + 1
    /\ manual' = [manual EXCEPT ![a][d] =
                    [@ EXCEPT !.status = "requesting", !.stamp = lastMark + 1]]
    /\ lease' = [lease EXCEPT ![c].attempted = lastMark + 1]
    /\ UNCHANGED <<now, today, conn, daily, shop, jars, peak>>

\* fail_riot_manual_refresh(p_retryable = true): hand the allowance back,
\* but only before the fence and on the same store day.
ManualReleasable(t, c, e, a, d) ==
    /\ d = today /\ ClaimedRow(t, c, e, a, d)
    /\ manual[a][d].status = "claimed"

FailManualRetryable(t, c, e, a, d) ==
    /\ manual' = IF ManualReleasable(t, c, e, a, d)
                 THEN [manual EXCEPT ![a][d] =
                         [@ EXCEPT !.status = "retryable_failed",
                                   !.failed = TRUE]]
                 ELSE manual
    /\ UNCHANGED <<now, today, conn, lease, daily, shop, lastMark, jars, peak>>

\* fail_riot_manual_refresh(p_retryable = false): note the failure and keep
\* the allowance spent.
ManualExhaustable(t, c, e, a, d) ==
    /\ d = today /\ ClaimedRow(t, c, e, a, d)
    /\ manual[a][d].status = "requesting" /\ ~manual[a][d].failed

FailManualFinal(t, c, e, a, d) ==
    /\ manual' = IF ManualExhaustable(t, c, e, a, d)
                 THEN [manual EXCEPT ![a][d].failed = TRUE] ELSE manual
    /\ UNCHANGED <<now, today, conn, lease, daily, shop, lastMark, jars, peak>>

-----------------------------------------------------------------------------
(* Closing an attempt: close_riot_storefront_attempt and                    *)
(* record_storefront_refresh.  Each finds the run row by the attempt stamp  *)
(* and clears the lease in the same transaction, or changes nothing.        *)

OwnsAttempt(t, c, e) ==
    Current(c, e) /\ lease[c].token = t /\ lease[c].attempted # 0

DailyClosable(t, c, e, d) ==
    /\ OwnsAttempt(t, c, e) /\ d = lease[c].day
    /\ daily[c][d].epoch = e /\ daily[c][d].stamp = lease[c].attempted
    /\ ~daily[c][d].failed

CloseDaily(t, c, e, d) ==
    /\ DailyClosable(t, c, e, d)
    /\ daily' = [daily EXCEPT ![c][d].failed = TRUE]
    /\ lease' = [lease EXCEPT ![c] = NoLease]
    /\ UNCHANGED <<now, today, conn, manual, shop, lastMark, jars, peak>>

ManualClosable(t, c, e, a, d) ==
    /\ OwnsAttempt(t, c, e) /\ d = lease[c].day
    /\ ClaimedRow(t, c, e, a, d) /\ manual[a][d].status = "requesting"
    /\ manual[a][d].stamp = lease[c].attempted /\ ~manual[a][d].failed

CloseManual(t, c, e, a, d) ==
    /\ ManualClosable(t, c, e, a, d)
    /\ manual' = [manual EXCEPT ![a][d].failed = TRUE]
    /\ lease' = [lease EXCEPT ![c] = NoLease]
    /\ UNCHANGED <<now, today, conn, daily, shop, lastMark, jars, peak>>

\* Mutant: on conflict do nothing.
StoredShopOnce(c, d, s) ==
    IF shop[c][d].stamp # 0 THEN shop ELSE [shop EXCEPT ![c][d].stamp = s]

\* The upsert keeps the row's extras: bundle and night_market are not in it.
StoredShop(c, d, s) ==
    [shop EXCEPT ![c][d] = [@ EXCEPT !.stamp = s, !.enriched = 0]]

\* Mutant: any current worker may record, leased or not.
RecordsUnleased(t, c, e, d, s) == Current(c, e)

OwnsRecordedAttempt(t, c, e, d, s) ==
    OwnsAttempt(t, c, e) /\ lease[c].day = d /\ lease[c].attempted = s

RecordDaily(t, c, e, d, s) ==
    /\ OwnsRecordedAttempt(t, c, e, d, s)
    /\ shop' = StoredShop(c, d, s)
    /\ lease' = [lease EXCEPT ![c] = NoLease]
    /\ UNCHANGED <<now, today, conn, daily, manual, lastMark, jars, peak>>

\* The manual row this very attempt may complete, or has completed.
Completable(t, c, e, a, d, s) ==
    /\ ClaimedRow(t, c, e, a, d) /\ conn[c].puuid = a
    /\ manual[a][d].status = "requesting"
    /\ manual[a][d].stamp = s /\ ~manual[a][d].failed

Completed(t, c, e, a, d) ==
    /\ ClaimedRow(t, c, e, a, d) /\ conn[c].puuid = a
    /\ manual[a][d].status = "succeeded"

RecordManual(t, c, e, a, d, s) ==
    /\ OwnsRecordedAttempt(t, c, e, d, s)
    /\ Completable(t, c, e, a, d, s) \/ Completed(t, c, e, a, d)
    /\ shop' = StoredShop(c, d, s)
    /\ manual' = [manual EXCEPT ![a][d].status = "succeeded"]
    /\ lease' = [lease EXCEPT ![c] = NoLease]
    /\ UNCHANGED <<now, today, conn, daily, lastMark, jars, peak>>

\* Without the attempted lease the call is a replay, and succeeds only while
\* the very row it wrote is still the current one.
ReplayableShop(t, c, e, d, s) ==
    /\ Current(c, e) /\ ~OwnsRecordedAttempt(t, c, e, d, s)
    /\ shop[c][d].stamp = s /\ shop[c][d].enriched = 0

\* record_storefront_refresh without a lease token: catalog enrichment, which
\* decorates the row of its own attempt and never another's.
Enrichable(c, e, d, s) == Current(c, e) /\ shop[c][d].stamp = s

EnrichShop(c, e, d, s) ==
    /\ Enrichable(c, e, d, s)
    /\ shop' = [shop EXCEPT ![c][d].enriched = s]
    /\ UNCHANGED <<now, today, conn, lease, daily, manual, lastMark, jars, peak>>

\* recordStorefrontExtras: bundle and night market, by shop_checks id alone.
\* The row is gone when the connection was deleted in between.
WriteExtras(c, d, s) ==
    /\ shop' = IF shop[c][d].stamp = 0 THEN shop
               ELSE [shop EXCEPT ![c][d].extras = s]
    /\ UNCHANGED <<now, today, conn, lease, daily, manual, lastMark, jars, peak>>

-----------------------------------------------------------------------------
(* Single-statement updates of the connection row by the worker.            *)

\* Mutant: the jar is fenced by the epoch but not by the lease.
PersistUnleased(t, c, e, j) ==
    /\ Current(c, e)
    /\ conn' = [conn EXCEPT ![c].jar = j]
    /\ UNCHANGED <<now, today, lease, daily, manual, shop, lastMark, jars, peak>>

\* persistRotated: the rotated jar is stored by the unattempted lease only.
PersistRotated(t, c, e, j) ==
    /\ HoldsUnattempted(t, c, e)
    /\ conn' = [conn EXCEPT ![c].jar = j]
    /\ UNCHANGED <<now, today, lease, daily, manual, shop, lastMark, jars, peak>>

\* decideSessionLifecycle for a session in status 'checking', and the
\* auth_status that applyLifecycle stores for it.  f is the caller's snapshot
\* of consecutive_failures.
NextFailures(f, result) ==
    CASE result = "OK" -> 0
      [] result = "DEAD" -> f
      [] OTHER -> f + 1

Terminal(f, result) ==
    \/ result = "DEAD"
    \/ result = "TRANSIENT" /\ f + 1 >= FailureThreshold

\* Mutant: the check result is stored as the status.
NextAuthIsResult(f, result) ==
    IF Terminal(f, result) THEN "REAUTH_REQUIRED" ELSE result

NextAuth(f, result) ==
    CASE Terminal(f, result) -> "REAUTH_REQUIRED"
      [] result = "OK" -> "CONNECTED"
      [] OTHER -> "TRANSIENT"

CheckedRow(row, f, result) ==
    [row EXCEPT !.auth = NextAuth(f, result),
                !.failures = NextFailures(f, result),
                !.streak = IF result = "OK" THEN 0 ELSE row.streak + 1]

ApplyLifecycle(c, e, f, result) ==
    /\ Usable(c, e)
    /\ conn' = [conn EXCEPT ![c] = CheckedRow(conn[c], f, result)]
    /\ UNCHANGED <<now, today, lease, daily, manual, shop, lastMark, jars, peak>>

\* riot_connections_puuid_key: a PUUID belongs to one live row.
PuuidFree(c, a) ==
    \A other \in Connections \ {c} : Live(other) => conn[other].puuid # a

PersistPuuid(c, e, a) ==
    /\ Usable(c, e) /\ PuuidFree(c, a)
    /\ conn' = [conn EXCEPT ![c].puuid = a]
    /\ UNCHANGED <<now, today, lease, daily, manual, shop, lastMark, jars, peak>>

-----------------------------------------------------------------------------
(* The rest of the program and the clock.                                   *)

\* save() without a connection id inserts a row; the PUUID may be unresolved.
Connect(c, a, p) ==
    /\ conn[c].state = "absent" /\ MaxEpoch > 0
    /\ p \in {a, NoAccount} /\ (p = a => PuuidFree(c, a))
    /\ jars' = jars + 1
    /\ conn' = [conn EXCEPT ![c] =
                  [state |-> "live", epoch |-> 1, auth |-> "CONNECTED",
                   failures |-> 0, puuid |-> p, account |-> a,
                   jar |-> jars + 1, streak |-> 0]]
    /\ peak' = [peak EXCEPT ![Owner[c]] =
                  IF Cardinality(Held(Owner[c])) >= @
                  THEN Cardinality(Held(Owner[c])) + 1 ELSE @]
    /\ UNCHANGED <<now, today, lease, daily, manual, shop, lastMark>>

\* save() with a connection id: a new epoch and jar, no failures, no lease.
\* A resolved PUUID must fit the stored one; without one the row keeps its own.
ReconnectedRow(row, a, p, j) ==
    [state |-> row.state, epoch |-> row.epoch + 1, auth |-> "CONNECTED",
     failures |-> 0, puuid |-> IF p = a THEN a ELSE row.puuid,
     account |-> a, jar |-> j, streak |-> 0]

Reconnect(c, a, p) ==
    /\ Live(c) /\ conn[c].epoch < MaxEpoch
    /\ \/ p = NoAccount
       \/ p = a /\ conn[c].puuid \in {NoAccount, a} /\ PuuidFree(c, a)
    /\ jars' = jars + 1
    /\ conn' = [conn EXCEPT ![c] = ReconnectedRow(conn[c], a, p, jars + 1)]
    /\ lease' = [lease EXCEPT ![c] = NoLease]
    /\ UNCHANGED <<now, today, daily, manual, shop, lastMark, peak>>

\* Deleting the row cascades to its shop checks; claims are kept.
Disconnect(c) ==
    /\ Live(c)
    /\ conn' = [conn EXCEPT ![c].state = "deleted"]
    /\ lease' = [lease EXCEPT ![c] = NoLease]
    /\ shop' = [shop EXCEPT ![c] = [d \in Days |-> NoShop]]
    /\ UNCHANGED <<now, today, daily, manual, lastMark, jars, peak>>

Tick ==
    /\ now < MaxTick /\ now' = now + 1
    /\ UNCHANGED <<today, conn, lease, daily, manual, shop, lastMark, jars, peak>>

Midnight ==
    /\ today < MaxDay /\ today' = today + 1
    /\ peak' = [u \in Users |-> Cardinality(Held(u))]
    /\ UNCHANGED <<now, conn, lease, daily, manual, shop, lastMark, jars>>

Environment ==
    \/ Tick
    \/ Midnight
    \/ \E c \in Connections :
         \/ Disconnect(c)
         \/ \E a \in Accounts : \E p \in {a, NoAccount} :
              Connect(c, a, p) \/ Reconnect(c, a, p)
=============================================================================
