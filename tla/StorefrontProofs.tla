-------------------------- MODULE StorefrontProofs ---------------------------
(***************************************************************************)
(* The storefront worker and the dashboard for every number of runs,       *)
(* connections, users, accounts and days, every trigger set and every      *)
(* number of faults.                                                       *)
(*                                                                         *)
(* First the worker: its types (what every database operation preserves,   *)
(* then the steps of a run that call them), its attempts with the          *)
(* allowance it implements, its storefront fence, and what the runs leave  *)
(* behind: the storefronts and successes they record, the allowances and   *)
(* jars they store, the sessions they announce expired and the leases they *)
(* let go of, each with a small inductive invariant of its own.            *)
(*                                                                         *)
(* Then the dashboard: its steps are steps of the worker or leave it       *)
(* alone, so everything proved of the worker holds under it; what is left  *)
(* is what the tab remembers of rows that go on changing after it has read *)
(* them.                                                                   *)
(***************************************************************************)
EXTENDS DashboardStatus, FiniteSetTheorems, TLAPS

-----------------------------------------------------------------------------
(* The types of the rows, operation by operation.                           *)

LEMMA NullRowTypes ==
    /\ AnyConnection \in Connections /\ AnyAccount \in Accounts
    /\ NoLease \in LeaseColumns /\ NoDaily \in DailyRow
    /\ NoManual \in ManualRow /\ NoShop \in ShopRow
  BY ConnectionsAssumption, AccountsAssumption
     DEF AnyConnection, AnyAccount, NoLease, NoDaily, NoManual, NoShop,
         LeaseColumns, DailyRow, ManualRow, ShopRow, ManualStatuses

LEMMA DatabaseInitType == DatabaseInit => DatabaseTypeOK
  BY NullRowTypes, BoundsAssumption
     DEF DatabaseInit, DatabaseTypeOK, Days, ConnectionRow, RowStates,
         AuthStatuses

LEMMA RowUpdate ==
  ASSUME NEW K1, NEW K2, NEW Row, NEW f \in [K1 -> [K2 -> Row]],
         NEW k1 \in K1, NEW k2 \in K2, NEW row \in Row
  PROVE  [f EXCEPT ![k1][k2] = row] \in [K1 -> [K2 -> Row]]
  OBVIOUS

LEMMA RowTypes ==
  ASSUME DatabaseTypeOK
  PROVE  /\ \A c \in Connections :
              conn[c] \in ConnectionRow /\ lease[c] \in LeaseColumns
         /\ \A c \in Connections, d \in Days :
              daily[c][d] \in DailyRow /\ shop[c][d] \in ShopRow
         /\ \A a \in Accounts, d \in Days : manual[a][d] \in ManualRow
         /\ now \in Nat /\ today \in Nat /\ lastMark + 1 \in Nat
         /\ jars + 1 \in Nat
  <1>1. today \in Nat
    BY DEF DatabaseTypeOK, Days
  <1>2. \A c \in Connections, d \in Days :
           daily[c][d] \in DailyRow /\ shop[c][d] \in ShopRow
    BY DEF DatabaseTypeOK
  <1>3. \A a \in Accounts, d \in Days : manual[a][d] \in ManualRow
    BY DEF DatabaseTypeOK
  <1> QED
    BY <1>1, <1>2, <1>3 DEF DatabaseTypeOK

LEMMA ClaimRotationType ==
  ASSUME NEW t \in Runs, NEW c \in Connections, NEW e \in Nat,
         DatabaseTypeOK, ClaimRotation(t, c, e)
  PROVE  DatabaseTypeOK'
  BY DEF ClaimRotation, DatabaseTypeOK, LeaseColumns, Days

LEMMA RenewRotationType ==
  ASSUME NEW t \in Runs, NEW c \in Connections, NEW e \in Nat,
         DatabaseTypeOK, RenewRotation(t, c, e)
  PROVE  DatabaseTypeOK'
  BY DEF RenewRotation, DatabaseTypeOK, LeaseColumns, Days

LEMMA ReleaseRotationType ==
  ASSUME NEW t \in Runs, NEW c \in Connections, NEW e \in Nat,
         DatabaseTypeOK, ReleaseRotation(t, c, e)
  PROVE  DatabaseTypeOK'
  BY NullRowTypes DEF ReleaseRotation, DatabaseTypeOK

LEMMA ClaimDailyType ==
  ASSUME NEW t \in Runs, NEW c \in Connections, NEW e \in Nat,
         DatabaseTypeOK, ClaimDaily(t, c, e)
  PROVE  DatabaseTypeOK'
  BY DEF ClaimDaily, DatabaseTypeOK, DailyRow

LEMMA MarkDailyType ==
  ASSUME NEW t \in Runs, NEW c \in Connections, NEW e \in Nat, NEW d \in Days,
         DatabaseTypeOK, MarkDaily(t, c, e, d)
  PROVE  DatabaseTypeOK'
  <1>1. [daily[c][d] EXCEPT !.stamp = lastMark + 1] \in DailyRow
    BY RowTypes DEF DailyRow
  <1>2. daily' \in [Connections -> [Days -> DailyRow]]
    BY <1>1, RowUpdate DEF MarkDaily, DatabaseTypeOK
  <1>3. [lease[c] EXCEPT !.attempted = lastMark + 1] \in LeaseColumns
    BY RowTypes DEF LeaseColumns
  <1>4. lease' \in [Connections -> LeaseColumns]
    BY <1>3 DEF MarkDaily, DatabaseTypeOK
  <1> QED
    BY <1>2, <1>4 DEF MarkDaily, DatabaseTypeOK

LEMMA ClaimManualType ==
  ASSUME NEW t \in Runs, NEW c \in Connections, NEW e \in Nat,
         DatabaseTypeOK, ClaimManual(t, c, e)
  PROVE  DatabaseTypeOK' /\ conn[c].puuid \in Accounts
  <1>1. conn[c].puuid \in Accounts
    BY DEF ClaimManual, ManualClaimable, ManualAvailable, DatabaseTypeOK,
           ConnectionRow
  <1>2. [status |-> "claimed", conn |-> c, epoch |-> e, token |-> t,
         at |-> now, stamp |-> 0, failed |-> FALSE] \in ManualRow
    BY DEF DatabaseTypeOK, ManualRow, ManualStatuses
  <1> QED
    BY <1>1, <1>2 DEF ClaimManual, DatabaseTypeOK

LEMMA MarkManualType ==
  ASSUME NEW t \in Runs, NEW c \in Connections, NEW e \in Nat,
         NEW a \in Accounts, NEW d \in Days,
         DatabaseTypeOK, MarkManual(t, c, e, a, d)
  PROVE  DatabaseTypeOK'
  <1>1. [manual[a][d] EXCEPT !.status = "requesting", !.stamp = lastMark + 1]
           \in ManualRow
    BY RowTypes DEF ManualRow, ManualStatuses
  <1>2. manual' \in [Accounts -> [Days -> ManualRow]]
    BY <1>1, RowUpdate DEF MarkManual, DatabaseTypeOK
  <1>3. [lease[c] EXCEPT !.attempted = lastMark + 1] \in LeaseColumns
    BY RowTypes DEF LeaseColumns
  <1>4. lease' \in [Connections -> LeaseColumns]
    BY <1>3 DEF MarkManual, DatabaseTypeOK
  <1> QED
    BY <1>2, <1>4 DEF MarkManual, DatabaseTypeOK

LEMMA FailManualRetryableType ==
  ASSUME NEW t \in Runs, NEW c \in Connections, NEW e \in Nat,
         NEW a \in Accounts, NEW d \in Days,
         DatabaseTypeOK, FailManualRetryable(t, c, e, a, d)
  PROVE  DatabaseTypeOK'
  <1>1. [manual[a][d] EXCEPT !.status = "retryable_failed", !.failed = TRUE]
           \in ManualRow
    BY RowTypes DEF ManualRow, ManualStatuses
  <1>2. manual' \in [Accounts -> [Days -> ManualRow]]
    BY <1>1, RowUpdate DEF FailManualRetryable, DatabaseTypeOK
  <1> QED
    BY <1>2 DEF FailManualRetryable, DatabaseTypeOK

LEMMA FailManualFinalType ==
  ASSUME NEW t \in Runs, NEW c \in Connections, NEW e \in Nat,
         NEW a \in Accounts, NEW d \in Days,
         DatabaseTypeOK, FailManualFinal(t, c, e, a, d)
  PROVE  DatabaseTypeOK'
  <1>1. [manual[a][d] EXCEPT !.failed = TRUE] \in ManualRow
    BY RowTypes DEF ManualRow
  <1>2. manual' \in [Accounts -> [Days -> ManualRow]]
    BY <1>1, RowUpdate DEF FailManualFinal, DatabaseTypeOK
  <1> QED
    BY <1>2 DEF FailManualFinal, DatabaseTypeOK

LEMMA CloseDailyType ==
  ASSUME NEW t \in Runs, NEW c \in Connections, NEW e \in Nat, NEW d \in Days,
         DatabaseTypeOK, CloseDaily(t, c, e, d)
  PROVE  DatabaseTypeOK'
  <1>1. [daily[c][d] EXCEPT !.failed = TRUE] \in DailyRow
    BY RowTypes DEF DailyRow
  <1>2. daily' \in [Connections -> [Days -> DailyRow]]
    BY <1>1, RowUpdate DEF CloseDaily, DatabaseTypeOK
  <1> QED
    BY <1>2, NullRowTypes DEF CloseDaily, DatabaseTypeOK

LEMMA CloseManualType ==
  ASSUME NEW t \in Runs, NEW c \in Connections, NEW e \in Nat,
         NEW a \in Accounts, NEW d \in Days,
         DatabaseTypeOK, CloseManual(t, c, e, a, d)
  PROVE  DatabaseTypeOK'
  <1>1. [manual[a][d] EXCEPT !.failed = TRUE] \in ManualRow
    BY RowTypes DEF ManualRow
  <1>2. manual' \in [Accounts -> [Days -> ManualRow]]
    BY <1>1, RowUpdate DEF CloseManual, DatabaseTypeOK
  <1> QED
    BY <1>2, NullRowTypes DEF CloseManual, DatabaseTypeOK

LEMMA StoredShopType ==
  ASSUME NEW c \in Connections, NEW d \in Days, NEW s \in Nat, DatabaseTypeOK
  PROVE  StoredShop(c, d, s) \in [Connections -> [Days -> ShopRow]]
  <1>1. [shop[c][d] EXCEPT !.stamp = s, !.enriched = 0] \in ShopRow
    BY RowTypes DEF ShopRow
  <1> QED
    BY <1>1, RowUpdate DEF StoredShop, DatabaseTypeOK

LEMMA RecordDailyType ==
  ASSUME NEW t \in Runs, NEW c \in Connections, NEW e \in Nat, NEW d \in Days,
         NEW s \in Nat, DatabaseTypeOK, RecordDaily(t, c, e, d, s)
  PROVE  DatabaseTypeOK'
  BY NullRowTypes, StoredShopType DEF RecordDaily, DatabaseTypeOK

LEMMA RecordManualType ==
  ASSUME NEW t \in Runs, NEW c \in Connections, NEW e \in Nat,
         NEW a \in Accounts, NEW d \in Days, NEW s \in Nat,
         DatabaseTypeOK, RecordManual(t, c, e, a, d, s)
  PROVE  DatabaseTypeOK'
  <1>1. [manual[a][d] EXCEPT !.status = "succeeded"] \in ManualRow
    BY RowTypes DEF ManualRow, ManualStatuses
  <1>2. manual' \in [Accounts -> [Days -> ManualRow]]
    BY <1>1, RowUpdate DEF RecordManual, DatabaseTypeOK
  <1> QED
    BY <1>2, NullRowTypes, StoredShopType DEF RecordManual, DatabaseTypeOK

LEMMA EnrichShopType ==
  ASSUME NEW c \in Connections, NEW e \in Nat, NEW d \in Days, NEW s \in Nat,
         DatabaseTypeOK, EnrichShop(c, e, d, s)
  PROVE  DatabaseTypeOK'
  <1>1. [shop[c][d] EXCEPT !.enriched = s] \in ShopRow
    BY RowTypes DEF ShopRow
  <1>2. shop' \in [Connections -> [Days -> ShopRow]]
    BY <1>1, RowUpdate DEF EnrichShop, DatabaseTypeOK
  <1> QED
    BY <1>2 DEF EnrichShop, DatabaseTypeOK

LEMMA WriteExtrasType ==
  ASSUME NEW c \in Connections, NEW d \in Days, NEW s \in Nat,
         DatabaseTypeOK, WriteExtras(c, d, s)
  PROVE  DatabaseTypeOK'
  <1>1. [shop[c][d] EXCEPT !.extras = s] \in ShopRow
    BY RowTypes DEF ShopRow
  <1>2. shop' \in [Connections -> [Days -> ShopRow]]
    BY <1>1, RowUpdate DEF WriteExtras, DatabaseTypeOK
  <1> QED
    BY <1>2 DEF WriteExtras, DatabaseTypeOK

LEMMA PersistRotatedType ==
  ASSUME NEW t \in Runs, NEW c \in Connections, NEW e \in Nat, NEW j \in Nat,
         DatabaseTypeOK, PersistRotated(t, c, e, j)
  PROVE  DatabaseTypeOK'
  BY DEF PersistRotated, DatabaseTypeOK, ConnectionRow

LEMMA CheckedRowType ==
  ASSUME NEW row \in ConnectionRow, NEW f \in Nat,
         NEW result \in {"OK", "DEAD", "TRANSIENT"}
  PROVE  CheckedRow(row, f, result) \in ConnectionRow
  <1> DEFINE streak == IF result = "OK" THEN 0 ELSE row.streak + 1
  <1>1. NextAuth(f, result) \in AuthStatuses /\ NextFailures(f, result) \in Nat
    BY DEF NextAuth, NextFailures, AuthStatuses
  <1>2. streak \in Nat
    BY DEF ConnectionRow
  <1>3. CheckedRow(row, f, result) =
           [row EXCEPT !.auth = NextAuth(f, result),
                       !.failures = NextFailures(f, result),
                       !.streak = streak]
    BY DEF CheckedRow
  <1> HIDE DEF streak
  <1> QED
    BY <1>1, <1>2, <1>3 DEF ConnectionRow

LEMMA ApplyLifecycleType ==
  ASSUME NEW c \in Connections, NEW e \in Nat, NEW f \in Nat,
         NEW result \in {"OK", "DEAD", "TRANSIENT"},
         DatabaseTypeOK, ApplyLifecycle(c, e, f, result)
  PROVE  DatabaseTypeOK'
  BY RowTypes, CheckedRowType DEF ApplyLifecycle, DatabaseTypeOK

LEMMA PersistPuuidType ==
  ASSUME NEW c \in Connections, NEW e \in Nat, NEW a \in Accounts,
         DatabaseTypeOK, PersistPuuid(c, e, a)
  PROVE  DatabaseTypeOK'
  BY DEF PersistPuuid, DatabaseTypeOK, ConnectionRow

LEMMA HeldCount == ASSUME NEW u PROVE Cardinality(Held(u)) \in Nat
  BY ConnectionsAssumption, FS_Subset, FS_CardinalityType DEF Held

LEMMA ConnectType ==
  ASSUME NEW c \in Connections, NEW a \in Accounts, NEW p,
         DatabaseTypeOK, Connect(c, a, p)
  PROVE  DatabaseTypeOK'
  <1>1. [state |-> "live", epoch |-> 1, auth |-> "CONNECTED", failures |-> 0,
         puuid |-> p, account |-> a, jar |-> jars + 1, streak |-> 0]
           \in ConnectionRow
    BY DEF Connect, DatabaseTypeOK, ConnectionRow, RowStates, AuthStatuses
  <1>2. peak' \in [Users -> Nat]
    <2>1. Cardinality(Held(Owner[c])) \in Nat /\ Owner[c] \in Users
      BY HeldCount, ConnectionsAssumption
    <2> QED
      BY <2>1 DEF Connect, DatabaseTypeOK
  <1> QED
    BY <1>1, <1>2 DEF Connect, DatabaseTypeOK

LEMMA ReconnectedRowType ==
  ASSUME NEW row \in ConnectionRow, NEW a \in Accounts, NEW p, NEW j \in Nat
  PROVE  ReconnectedRow(row, a, p, j) \in ConnectionRow
  BY DEF ReconnectedRow, ConnectionRow, AuthStatuses

LEMMA ReconnectType ==
  ASSUME NEW c \in Connections, NEW a \in Accounts, NEW p,
         DatabaseTypeOK, Reconnect(c, a, p)
  PROVE  DatabaseTypeOK'
  BY RowTypes, ReconnectedRowType, NullRowTypes DEF Reconnect, DatabaseTypeOK

LEMMA DisconnectType ==
  ASSUME NEW c \in Connections, DatabaseTypeOK, Disconnect(c)
  PROVE  DatabaseTypeOK'
  BY NullRowTypes DEF Disconnect, DatabaseTypeOK, ConnectionRow, RowStates

LEMMA ClockType ==
  ASSUME DatabaseTypeOK, Tick \/ Midnight
  PROVE  DatabaseTypeOK'
  <1>1. CASE Tick
    BY <1>1, BoundsAssumption DEF Tick, DatabaseTypeOK
  <1>2. CASE Midnight
    BY <1>2, BoundsAssumption, HeldCount DEF Midnight, DatabaseTypeOK, Days
  <1> QED BY <1>1, <1>2

LEMMA EnvironmentType ==
  ASSUME DatabaseTypeOK, Environment
  PROVE  DatabaseTypeOK'
  BY ClockType, DisconnectType, ConnectType, ReconnectType DEF Environment

-----------------------------------------------------------------------------
(* Types of the abbreviations and of the steps an action may go to.         *)

LEMMA RunTypes ==
  ASSUME TypeOK, NEW r \in Runs
  PROVE  /\ C(r) \in Connections /\ E(r) \in Nat
         /\ D(r) \in Days /\ A(r) \in Accounts
         /\ job[r].failures \in Nat /\ ctl[r] \in Control
         /\ hand[r].jar \in Nat /\ hand[r].account \in Accounts
         /\ attempt[r] \in Nat /\ pc[r] \in Steps
  BY DEF TypeOK, Job, Claim, Hand, C, E, D, A

LEMMA StepTypes ==
  ASSUME TypeOK, NEW r \in Runs, NEW held \in BOOLEAN
  PROVE  /\ AfterFailure(r, held) \in Steps /\ Finally(held) \in Steps
         /\ Finalize(r) \in Steps
         /\ AfterIdentity(r) \in Steps /\ AfterRecord(r) \in Steps
         /\ OnError(r) \in Steps
         /\ OnRecordError(r, "close") \in Steps
         /\ OnRecordError(r, "done") \in Steps
  <1>1. pc[r] \in Steps
    BY RunTypes
  <1>2. /\ \A b \in BOOLEAN : AfterFailure(r, b) \in Steps
        /\ Finally(held) \in Steps /\ Finalize(r) \in Steps
        /\ AfterIdentity(r) \in Steps /\ AfterRecord(r) \in Steps
    BY DEF AfterFailure, Finally, Finalize, AfterIdentity, AfterRecord, Steps
  <1>3. OnError(r) \in Steps
    <2>1. AfterFailure(r, TRUE) \in Steps /\ AfterFailure(r, FALSE) \in Steps
      BY <1>2
    <2> HIDE DEF AfterFailure
    <2>2. {"release", "lifecycle", "failRetry", "record", "done"} \subseteq Steps
      BY DEF Steps
    <2> QED
      BY <1>2, <2>1, <2>2 DEF OnError
  <1> QED
    BY <1>1, <1>2, <1>3 DEF OnRecordError, Steps

LEMMA FaultType ==
  ASSUME TypeOK, NEW r \in Runs, Fault(r)
  PROVE  faults' \in [Runs -> 0..MaxFaults]
  BY TriggersAssumption DEF Fault, TypeOK

LEMMA ReplyType ==
  ASSUME TypeOK, NEW r \in Runs, NEW next \in Steps, Reply(r, next)
  PROVE  pc' \in [Runs -> Steps] /\ faults' \in [Runs -> 0..MaxFaults]
  BY StepTypes, FaultType DEF Reply, Goto, TypeOK

LEMMA AnswerType ==
  ASSUME TypeOK, NEW r \in Runs, NEW next \in Steps, Answer(r, next)
  PROVE  /\ DatabaseTypeOK'
         /\ pc' \in [Runs -> Steps] /\ faults' \in [Runs -> 0..MaxFaults]
  BY DEF Answer, Goto, TypeOK, DatabaseTypeOK, dbVars, ConnectionRow,
         LeaseColumns, DailyRow, ManualRow, ShopRow

\* A step that changes neither the job, the claim, the attempt nor the jar.
LEMMA LocalType ==
  ASSUME TypeOK, UNCHANGED local, DatabaseTypeOK',
         pc' \in [Runs -> Steps], faults' \in [Runs -> 0..MaxFaults],
         ctl' \in [Runs -> Control]
  PROVE  TypeOK'
  BY DEF TypeOK, local

LEMMA ControlType ==
  ASSUME TypeOK, NEW r \in Runs
  PROVE  /\ \A b \in BOOLEAN :
              /\ [ctl EXCEPT ![r].held = b] \in [Runs -> Control]
              /\ [ctl EXCEPT ![r].terminal = b] \in [Runs -> Control]
         /\ [ctl EXCEPT ![r].handled = TRUE] \in [Runs -> Control]
         /\ [ctl EXCEPT ![r].healthy = TRUE] \in [Runs -> Control]
         /\ \A result \in {"OK", "DEAD", "TRANSIENT"} :
              [ctl EXCEPT ![r].result = result] \in [Runs -> Control]
         /\ [ctl EXCEPT ![r].tries = 1] \in [Runs -> Control]
         /\ [ctl EXCEPT ![r] = [@ EXCEPT !.held = FALSE, !.tries = 0]]
              \in [Runs -> Control]
  <1>1. ctl \in [Runs -> Control] /\ ctl[r] \in Control
    BY DEF TypeOK
  <1>2. ASSUME NEW n \in 0..2
        PROVE  /\ [ctl EXCEPT ![r].tries = n] \in [Runs -> Control]
               /\ [ctl[r] EXCEPT !.held = FALSE, !.tries = n] \in Control
    BY <1>1 DEF Control
  <1>3. [ctl EXCEPT ![r].tries = 1] \in [Runs -> Control]
    BY <1>2
  <1>4. [ctl[r] EXCEPT !.held = FALSE, !.tries = 0] \in Control
    BY <1>2
  <1>5. \A b \in BOOLEAN :
           /\ [ctl EXCEPT ![r].held = b] \in [Runs -> Control]
           /\ [ctl EXCEPT ![r].terminal = b] \in [Runs -> Control]
    BY <1>1 DEF Control
  <1>6. /\ [ctl EXCEPT ![r].handled = TRUE] \in [Runs -> Control]
        /\ [ctl EXCEPT ![r].healthy = TRUE] \in [Runs -> Control]
    BY <1>1 DEF Control
  <1>7. \A result \in {"OK", "DEAD", "TRANSIENT"} :
           [ctl EXCEPT ![r].result = result] \in [Runs -> Control]
    BY <1>1 DEF Control
  <1>8. [ctl EXCEPT ![r] = [@ EXCEPT !.held = FALSE, !.tries = 0]]
           \in [Runs -> Control]
    BY <1>1, <1>4
  <1> QED
    BY <1>3, <1>5, <1>6, <1>7, <1>8

LEMMA ControlUnchanged ==
  ASSUME TypeOK, UNCHANGED ctl PROVE ctl' \in [Runs -> Control]
  BY DEF TypeOK

-----------------------------------------------------------------------------
(* Every step of a run preserves the types.                                 *)

LEMMA StartType ==
  ASSUME TypeOK, NEW r \in Runs, NEW c \in Connections, NEW t \in Triggers,
         Start(r, c, t)
  PROVE  TypeOK'
  <1>1. [conn |-> c, epoch |-> conn[c].epoch, trigger |-> t,
         failures |-> conn[c].failures] \in Job
    BY RowTypes DEF TypeOK, ConnectionRow, Job
  <1>2. pc' \in [Runs -> Steps]
    BY DEF Start, Goto, TypeOK, Steps
  <1>3. DatabaseTypeOK'
    BY DEF Start, TypeOK, DatabaseTypeOK, dbVars
  <1> QED
    BY <1>1, <1>2, <1>3 DEF Start, TypeOK

\* The steps that only answer: refusals, stale writes and Riot's outcomes.
LEMMA AnswerStepType ==
  ASSUME TypeOK, NEW r \in Runs,
         \/ AcquireRefused(r) \/ ClaimRefused(r) \/ LoadMissing(r)
         \/ RenewRefused(r) \/ PersistRefused(r) \/ Prepare(r)
         \/ MarkRefused(r) \/ StoreReceived(r) \/ LifecycleStale(r)
         \/ CloseRefused(r) \/ HealthyStale(r) \/ CanonicalizeFails(r)
         \/ PipelineFails(r)
  PROVE  TypeOK'
  <1>1. UNCHANGED <<local, ctl>>
    BY DEF AcquireRefused, ClaimRefused, LoadMissing, RenewRefused,
           PersistRefused, Prepare, MarkRefused, StoreReceived,
           LifecycleStale, CloseRefused, HealthyStale, CanonicalizeFails,
           PipelineFails
  <1>2. PICK next \in Steps : Answer(r, next)
    <2>1. /\ Finalize(r) \in Steps /\ AfterFailure(r, TRUE) \in Steps
          /\ {"done", "release", "lifecycle", "failRetry", "mark", "healthy",
              "record", "close"} \subseteq Steps
      BY StepTypes DEF Steps
    <2> QED
      BY <2>1
         DEF AcquireRefused, ClaimRefused, LoadMissing, RenewRefused,
             PersistRefused, Prepare, MarkRefused, StoreReceived,
             LifecycleStale, CloseRefused, HealthyStale, CanonicalizeFails,
             PipelineFails
  <1> QED
    BY <1>1, <1>2, AnswerType, LocalType, ControlUnchanged

\* The steps that answer and remember the outcome in a local variable.
LEMMA OutcomeStepType ==
  ASSUME TypeOK, NEW r \in Runs,
         \/ RefreshFails(r) \/ StoreRejected(r) \/ RecordReplayed(r)
         \/ RecordRefused(r) \/ EnrichRefused(r)
  PROVE  TypeOK'
  <1>1. UNCHANGED local
    BY DEF RefreshFails, StoreRejected, RecordReplayed, RecordRefused,
           EnrichRefused
  <1>2. PICK next \in Steps : Answer(r, next)
    <2>1. /\ OnRecordError(r, "close") \in Steps
          /\ OnRecordError(r, "done") \in Steps
          /\ {"lifecycle", "extras"} \subseteq Steps
      BY StepTypes DEF Steps
    <2> QED
      BY <2>1 DEF RefreshFails, StoreRejected, RecordReplayed,
                  RecordRefused, EnrichRefused
  <1>3. ctl' \in [Runs -> Control]
    <2>1. CASE RefreshFails(r)
      <3>1. PICK result \in {"DEAD", "TRANSIENT"} :
               ctl' = [ctl EXCEPT ![r].result = result]
        BY <2>1 DEF RefreshFails
      <3>2. result \in {"OK", "DEAD", "TRANSIENT"}
        BY <3>1
      <3> QED
        BY <3>1, <3>2, ControlType
    <2>2. CASE StoreRejected(r)
      BY <2>2, ControlType DEF StoreRejected
    <2>3. CASE RecordReplayed(r)
      BY <2>3, ControlType DEF RecordReplayed
    <2>4. CASE RecordRefused(r) \/ EnrichRefused(r)
      BY <2>4, ControlType DEF RecordRefused, EnrichRefused
    <2> QED
      BY <2>1, <2>2, <2>3, <2>4
  <1> QED
    BY <1>1, <1>2, <1>3, AnswerType, LocalType

\* Database calls that change no local variable but the control flags.
LEMMA ReplyStepType ==
  ASSUME TypeOK, NEW r \in Runs, UNCHANGED local,
         DatabaseTypeOK', ctl' \in [Runs -> Control],
         NEW next \in Steps, Reply(r, next)
  PROVE  TypeOK'
  BY ReplyType, LocalType

LEMMA DatabaseUnchanged ==
  ASSUME TypeOK, UNCHANGED dbVars PROVE DatabaseTypeOK'
  BY DEF TypeOK, DatabaseTypeOK, dbVars

LEMMA LeaseStepType ==
  ASSUME TypeOK, NEW r \in Runs,
         Acquire(r) \/ Renew(r) \/ Persist(r) \/ FailRetry(r) \/ FailAmbiguous(r)
  PROVE  TypeOK'
  <1>1. CASE Acquire(r)
    <2>1. DatabaseTypeOK'
      BY <1>1, RunTypes, ClaimRotationType DEF Acquire, TypeOK
    <2>2. ctl' \in [Runs -> Control]
      BY <1>1, ControlType DEF Acquire
    <2>3. "claim" \in Steps
      BY DEF Steps
    <2> QED
      BY <1>1, <2>1, <2>2, <2>3, ReplyStepType DEF Acquire
  <1>2. CASE Renew(r)
    <2>1. DatabaseTypeOK'
      BY <1>2, RunTypes, RenewRotationType DEF Renew, TypeOK
    <2>2. "refresh" \in Steps
      BY DEF Steps
    <2> QED
      BY <1>2, <2>1, <2>2, ControlUnchanged, ReplyStepType DEF Renew
  <1>3. CASE Persist(r)
    <2>1. DatabaseTypeOK'
      BY <1>3, RunTypes, PersistRotatedType DEF Persist, TypeOK
    <2>2. "prepare" \in Steps
      BY DEF Steps
    <2> QED
      BY <1>3, <2>1, <2>2, ControlUnchanged, ReplyStepType DEF Persist
  <1>4. CASE FailRetry(r)
    <2>1. DatabaseTypeOK'
      BY <1>4, RunTypes, FailManualRetryableType, DatabaseUnchanged
         DEF FailRetry, TypeOK
    <2>2. AfterFailure(r, TRUE) \in Steps
      BY StepTypes
    <2> QED
      BY <1>4, <2>1, <2>2, ControlUnchanged, ReplyStepType DEF FailRetry
  <1>5. CASE FailAmbiguous(r)
    <2>1. DatabaseTypeOK'
      BY <1>5, RunTypes, FailManualFinalType, DatabaseUnchanged
         DEF FailAmbiguous, TypeOK
    <2>2. AfterFailure(r, FALSE) \in Steps
      BY StepTypes
    <2>3. ctl' \in [Runs -> Control]
      BY <1>5, ControlType DEF FailAmbiguous
    <2> QED
      BY <1>5, <2>1, <2>2, <2>3, ReplyStepType DEF FailAmbiguous
  <1> QED
    BY <1>1, <1>2, <1>3, <1>4, <1>5

\* Claiming a daily or manual row, and remembering which.
LEMMA TakeStepType ==
  ASSUME TypeOK, NEW r \in Runs, TakeDaily(r) \/ TakeManual(r)
  PROVE  TypeOK'
  <1>1. "load" \in Steps
    BY DEF Steps
  <1>2. claim \in [Runs -> Claim] /\ today \in Days
    BY DEF TypeOK, DatabaseTypeOK
  <1>3. CASE TakeDaily(r)
    <2>1. DatabaseTypeOK'
      BY <1>3, RunTypes, ClaimDailyType DEF TakeDaily, TypeOK
    <2>2. claim' \in [Runs -> Claim]
      BY <1>2, <1>3 DEF TakeDaily, Claim
    <2>3. pc' \in [Runs -> Steps] /\ faults' \in [Runs -> 0..MaxFaults]
      BY <1>1, <1>3, ReplyType DEF TakeDaily
    <2> QED
      BY <1>3, <2>1, <2>2, <2>3 DEF TakeDaily, TypeOK
  <1>4. CASE TakeManual(r)
    <2>1. DatabaseTypeOK' /\ conn[C(r)].puuid \in Accounts
      BY <1>4, RunTypes, ClaimManualType DEF TakeManual, TypeOK
    <2>2. claim' \in [Runs -> Claim]
      BY <1>2, <1>4, <2>1 DEF TakeManual, Claim
    <2>3. pc' \in [Runs -> Steps] /\ faults' \in [Runs -> 0..MaxFaults]
      BY <1>1, <1>4, ReplyType DEF TakeManual
    <2> QED
      BY <1>4, <2>1, <2>2, <2>3 DEF TakeManual, TypeOK
  <1> QED
    BY <1>3, <1>4

\* Steps that change the session in memory, the attempt or what Riot saw.
LEMMA SessionStepType ==
  ASSUME TypeOK, NEW r \in Runs,
         Load(r) \/ Refresh(r) \/ GetStore(r) \/ StoreAmbiguous(r) \/ SendExpiry(r)
  PROVE  TypeOK'
  <1>1. {"renew", "persist", "awaiting", "lifecycle"} \subseteq Steps
    BY DEF Steps
  <1>2. CASE Load(r)
    <2>1. [jar |-> conn[C(r)].jar, account |-> conn[C(r)].account] \in Hand
      BY RunTypes, RowTypes DEF TypeOK, ConnectionRow, Hand
    <2>2. hand' \in [Runs -> Hand]
      BY <1>2, <2>1 DEF Load, TypeOK
    <2>3. /\ DatabaseTypeOK' /\ pc' \in [Runs -> Steps]
          /\ faults' \in [Runs -> 0..MaxFaults]
      BY <1>1, <1>2, AnswerType DEF Load
    <2> QED
      BY <1>2, <2>2, <2>3 DEF Load, TypeOK
  <1>3. CASE Refresh(r)
    <2>1. jars + 1 \in Nat
      BY RowTypes DEF TypeOK
    <2>2. hand' \in [Runs -> Hand]
      BY <1>3, <2>1 DEF Refresh, TypeOK, Hand
    <2>3. DatabaseTypeOK'
      BY <1>3, <2>1 DEF Refresh, TypeOK, DatabaseTypeOK
    <2>4. pc' \in [Runs -> Steps]
      BY <1>1, <1>3 DEF Refresh, Goto, TypeOK
    <2> QED
      BY <1>3, <2>2, <2>3, <2>4 DEF Refresh, TypeOK
  <1>4. CASE GetStore(r)
    <2>1. /\ DatabaseTypeOK' /\ pc' \in [Runs -> Steps]
          /\ faults' \in [Runs -> 0..MaxFaults]
      BY <1>1, <1>4, AnswerType DEF GetStore
    <2> QED
      BY <1>4, <2>1 DEF GetStore, TypeOK
  <1>5. CASE StoreAmbiguous(r)
    <2>1. /\ DatabaseTypeOK' /\ pc' \in [Runs -> Steps]
          /\ faults' \in [Runs -> 0..MaxFaults]
      BY <1>1, <1>5, AnswerType DEF StoreAmbiguous
    <2> QED
      BY <1>5, <2>1 DEF StoreAmbiguous, TypeOK
  <1>6. CASE SendExpiry(r)
    <2>1. Finally(ctl[r].held) \in Steps
      BY DEF Finally, Steps
    <2>2. /\ DatabaseTypeOK' /\ pc' \in [Runs -> Steps]
          /\ faults' \in [Runs -> 0..MaxFaults]
      BY <1>6, <2>1, AnswerType DEF SendExpiry
    <2> QED
      BY <1>6, <2>2 DEF SendExpiry, TypeOK
  <1> QED
    BY <1>2, <1>3, <1>4, <1>5, <1>6

LEMMA MarkStepType ==
  ASSUME TypeOK, NEW r \in Runs, MarkStorefrontAttempt(r)
  PROVE  TypeOK'
  <1>1. DatabaseTypeOK'
    BY RunTypes, MarkDailyType, MarkManualType
       DEF MarkStorefrontAttempt, TypeOK
  <1>2. attempt' \in [Runs -> Nat]
    BY RowTypes DEF MarkStorefrontAttempt, TypeOK
  <1>3. pc' \in [Runs -> Steps] /\ faults' \in [Runs -> 0..MaxFaults]
    <2>1. "fetch" \in Steps /\ OnError(r) \in Steps
      BY StepTypes DEF Steps
    <2> QED
      BY <2>1, FaultType DEF MarkStorefrontAttempt, Goto, TypeOK
  <1> QED
    BY <1>1, <1>2, <1>3 DEF MarkStorefrontAttempt, TypeOK

\* The lifecycle writes, and the close of a handled failure.
LEMMA StatusStepType ==
  ASSUME TypeOK, NEW r \in Runs, Lifecycle(r) \/ Healthy(r) \/ Close(r)
  PROVE  TypeOK'
  <1>1. /\ {"record"} \subseteq Steps /\ Finalize(r) \in Steps
        /\ OnError(r) \in Steps /\ AfterFailure(r, FALSE) \in Steps
    BY StepTypes DEF Steps
  <1>2. CASE Lifecycle(r)
    <2>1. DatabaseTypeOK'
      <3>1. ctl[r].result \in {"OK", "DEAD", "TRANSIENT"}
        BY RunTypes DEF Control
      <3>2. /\ C(r) \in Connections /\ E(r) \in Nat
            /\ job[r].failures \in Nat /\ DatabaseTypeOK
        BY RunTypes DEF TypeOK
      <3>3. ApplyLifecycle(C(r), E(r), job[r].failures, ctl[r].result)
        BY <1>2 DEF Lifecycle
      <3> QED
        BY <3>1, <3>2, <3>3, ApplyLifecycleType
    <2>2. Terminal(job[r].failures, ctl[r].result) \in BOOLEAN
      BY DEF Terminal
    <2>3. ctl' \in [Runs -> Control]
      <3>1. CASE UNCHANGED ctl
        BY <3>1, ControlUnchanged
      <3>2. CASE ctl' = [ctl EXCEPT ![r].terminal =
                           Terminal(job[r].failures, ctl[r].result)]
        BY <2>2, <3>2, ControlType
      <3> QED
        BY <1>2, <3>1, <3>2 DEF Lifecycle
    <2>4. pc' \in [Runs -> Steps] /\ faults' \in [Runs -> 0..MaxFaults]
      BY <1>1, <1>2, FaultType DEF Lifecycle, Goto, TypeOK
    <2> QED
      BY <1>2, <2>1, <2>3, <2>4, LocalType DEF Lifecycle
  <1>3. CASE Healthy(r)
    <2>1. DatabaseTypeOK'
      BY <1>3, RunTypes, ApplyLifecycleType DEF Healthy, TypeOK
    <2>2. ctl' \in [Runs -> Control]
      BY <1>3, ControlType, ControlUnchanged DEF Healthy
    <2>3. pc' \in [Runs -> Steps] /\ faults' \in [Runs -> 0..MaxFaults]
      BY <1>1, <1>3, FaultType DEF Healthy, Goto, TypeOK
    <2> QED
      BY <1>3, <2>1, <2>2, <2>3, LocalType DEF Healthy
  <1>4. CASE Close(r)
    <2>1. DatabaseTypeOK'
      <3>1. CASE CloseDaily(r, C(r), E(r), D(r))
        BY <3>1, RunTypes, CloseDailyType DEF TypeOK
      <3>2. CASE CloseManual(r, C(r), E(r), A(r), D(r))
        BY <3>2, RunTypes, CloseManualType DEF TypeOK
      <3> QED
        BY <1>4, <3>1, <3>2 DEF Close
    <2>2. ctl' \in [Runs -> Control]
      <3>1. CASE UNCHANGED ctl
        BY <3>1, ControlUnchanged
      <3>2. CASE ctl' = [ctl EXCEPT ![r].held = FALSE]
        BY <3>2, ControlType
      <3> QED
        BY <1>4, <3>1, <3>2 DEF Close
    <2>3. pc' \in [Runs -> Steps] /\ faults' \in [Runs -> 0..MaxFaults]
      BY <1>1, <1>4, FaultType DEF Close, Goto, TypeOK
    <2> QED
      BY <1>4, <2>1, <2>2, <2>3, LocalType DEF Close
  <1> QED
    BY <1>2, <1>3, <1>4

\* The steps that store, decorate or identify a storefront, and the release.
LEMMA StoreStepType ==
  ASSUME TypeOK, NEW r \in Runs,
         Record(r) \/ Extras(r) \/ ResolvePuuid(r) \/ Enrich(r) \/ Release(r)
  PROVE  TypeOK'
  <1>1. /\ {"extras", "enrichExtras", "done"} \subseteq Steps
        /\ AfterRecord(r) \in Steps /\ AfterIdentity(r) \in Steps
        /\ OnRecordError(r, "close") \in Steps
        /\ OnRecordError(r, "done") \in Steps
    BY StepTypes DEF Steps
  <1>2. CASE Record(r)
    <2>1. DatabaseTypeOK'
      BY <1>2, RunTypes, RecordDailyType, RecordManualType
         DEF Record, RecordEffect, TypeOK
    <2>2. ctl' \in [Runs -> Control]
      BY <1>2, ControlType DEF Record
    <2>3. pc' \in [Runs -> Steps] /\ faults' \in [Runs -> 0..MaxFaults]
      BY <1>1, <1>2, FaultType DEF Record, Goto, TypeOK
    <2> QED
      BY <1>2, <2>1, <2>2, <2>3, LocalType DEF Record
  <1>3. CASE Extras(r)
    <2>1. DatabaseTypeOK'
      BY <1>3, RunTypes, WriteExtrasType, DatabaseUnchanged DEF Extras, TypeOK
    <2>2. pc' \in [Runs -> Steps] /\ faults' \in [Runs -> 0..MaxFaults]
      BY <1>1, <1>3 DEF Extras, Goto, TypeOK
    <2> QED
      BY <1>3, <2>1, <2>2, ControlUnchanged, LocalType DEF Extras
  <1>4. CASE ResolvePuuid(r)
    <2>1. DatabaseTypeOK'
      BY <1>4, RunTypes, PersistPuuidType, DatabaseUnchanged
         DEF ResolvePuuid, TypeOK
    <2>2. pc' \in [Runs -> Steps] /\ faults' \in [Runs -> 0..MaxFaults]
      BY <1>1, <1>4 DEF ResolvePuuid, Goto, TypeOK
    <2> QED
      BY <1>4, <2>1, <2>2, ControlUnchanged, LocalType DEF ResolvePuuid
  <1>5. CASE Enrich(r)
    <2>1. DatabaseTypeOK'
      BY <1>5, RunTypes, EnrichShopType DEF Enrich, TypeOK
    <2>2. ctl' \in [Runs -> Control]
      BY <1>5, ControlType DEF Enrich
    <2>3. pc' \in [Runs -> Steps] /\ faults' \in [Runs -> 0..MaxFaults]
      BY <1>1, <1>5, FaultType DEF Enrich, Goto, TypeOK
    <2> QED
      BY <1>5, <2>1, <2>2, <2>3, LocalType DEF Enrich
  <1>6. CASE Release(r)
    <2>1. DatabaseTypeOK'
      BY <1>6, RunTypes, ReleaseRotationType DEF Release, TypeOK
    <2>2. pc' \in [Runs -> Steps] /\ faults' \in [Runs -> 0..MaxFaults]
      BY <1>1, <1>6 DEF Release, Goto, TypeOK
    <2> QED
      BY <1>6, <2>1, <2>2, ControlUnchanged, LocalType DEF Release
  <1> QED
    BY <1>2, <1>3, <1>4, <1>5, <1>6

\* Calls that fail without effect, and crashes.
LEMMA FaultStepType ==
  ASSUME TypeOK, NEW r \in Runs, CallFails(r) \/ RecordCallFails(r) \/ Crash(r)
  PROVE  TypeOK'
  <1>1. /\ OnError(r) \in Steps /\ "crashed" \in Steps
        /\ OnRecordError(r, "close") \in Steps
        /\ OnRecordError(r, "done") \in Steps
    BY StepTypes DEF Steps
  <1>2. faults' \in [Runs -> 0..MaxFaults] /\ UNCHANGED <<dbVars, local>>
    BY FaultType DEF CallFails, RecordCallFails, Crash
  <1>3. pc' \in [Runs -> Steps]
    BY <1>1 DEF CallFails, RecordCallFails, Crash, Goto, TypeOK
  <1>4. ctl' \in [Runs -> Control]
    <2>1. CASE CallFails(r)
      <3>1. ctl[r].held \in BOOLEAN /\ ctl \in [Runs -> Control]
        BY RunTypes DEF Control, TypeOK
      <3>2. PICK b \in BOOLEAN : ctl' = [ctl EXCEPT ![r].held = b]
        BY <2>1, <3>1 DEF CallFails
      <3> QED
        BY <3>2, ControlType
    <2>2. CASE RecordCallFails(r)
      BY <2>2, ControlType DEF RecordCallFails
    <2>3. CASE Crash(r)
      BY <2>3, ControlUnchanged DEF Crash
    <2> QED
      BY <2>1, <2>2, <2>3
  <1> QED
    BY <1>2, <1>3, <1>4, DatabaseUnchanged, LocalType

\* A step of a run moves that run only.
LEMMA RunMoves ==
  ASSUME TypeOK, NEW r \in Runs, Proceed(r) \/ Crash(r)
  PROVE  /\ UNCHANGED job /\ pc[r] # "idle"
         /\ \E next : /\ Goto(r, next)
                      /\ \A s \in Runs : pc'[s] = IF s = r THEN next ELSE pc[s]
  <1>1. UNCHANGED job
    BY DEF Proceed, Acquire, AcquireRefused, TakeDaily, TakeManual,
           ClaimRefused, Load, LoadMissing, Renew, RenewRefused, Refresh,
           RefreshFails, Persist, PersistRefused, Prepare,
           MarkStorefrontAttempt, MarkRefused, GetStore, StoreReceived,
           StoreRejected, StoreAmbiguous, Lifecycle, LifecycleStale,
           FailRetry, FailAmbiguous, Close, CloseRefused, SendExpiry,
           Release, Healthy, HealthyStale, CanonicalizeFails, Record,
           RecordReplayed, RecordRefused, Extras, ResolvePuuid, Enrich,
           PipelineFails, EnrichRefused, CallFails, RecordCallFails, Crash,
           local
  <1>2. \E next : Goto(r, next)
    BY DEF Proceed, Acquire, AcquireRefused, TakeDaily, TakeManual,
           ClaimRefused, Load, LoadMissing, Renew, RenewRefused, Refresh,
           RefreshFails, Persist, PersistRefused, Prepare,
           MarkStorefrontAttempt, MarkRefused, GetStore, StoreReceived,
           StoreRejected, StoreAmbiguous, Lifecycle, LifecycleStale,
           FailRetry, FailAmbiguous, Close, CloseRefused, SendExpiry,
           Release, Healthy, HealthyStale, CanonicalizeFails, Record,
           RecordReplayed, RecordRefused, Extras, ResolvePuuid, Enrich,
           PipelineFails, EnrichRefused, CallFails, RecordCallFails, Crash,
           Answer, Reply
  <1>3. pc[r] # "idle"
    BY DEF Proceed, Acquire, AcquireRefused, TakeDaily, TakeManual,
           ClaimRefused, Load, LoadMissing, Renew, RenewRefused, Refresh,
           RefreshFails, Persist, PersistRefused, Prepare,
           MarkStorefrontAttempt, MarkRefused, GetStore, StoreReceived,
           StoreRejected, StoreAmbiguous, Lifecycle, LifecycleStale,
           FailRetry, FailAmbiguous, Close, CloseRefused, SendExpiry,
           Release, Healthy, HealthyStale, CanonicalizeFails, Record,
           RecordReplayed, RecordRefused, Extras, ResolvePuuid, Enrich,
           PipelineFails, EnrichRefused, CallFails, CallSteps,
           RecordCallFails, Crash, At
  <1> QED
    BY <1>1, <1>2, <1>3 DEF Goto, TypeOK

-----------------------------------------------------------------------------
(* Type correctness.                                                        *)

LEMMA InitType == Init => TypeOK
  <1> SUFFICES ASSUME Init PROVE TypeOK
    OBVIOUS
  <1>1. NoJob \in Job /\ NoClaim \in Claim /\ NoHand \in Hand
    <2>1. 0 \in Days
      BY BoundsAssumption DEF Days
    <2> QED
      BY <2>1, NullRowTypes, TriggersAssumption
         DEF NoJob, Job, NoClaim, Claim, NoHand, Hand
  <1>2. NewControl \in Control
    BY DEF NewControl, Control
  <1>3. DatabaseTypeOK /\ "idle" \in Steps /\ 0 \in 0..MaxFaults
    BY DatabaseInitType, TriggersAssumption DEF Init, Steps
  <1> QED
    BY <1>1, <1>2, <1>3 DEF Init, TypeOK

LEMMA NextType == TypeOK /\ [Next]_vars => TypeOK'
  <1> SUFFICES ASSUME TypeOK, [Next]_vars PROVE TypeOK'
    OBVIOUS
  <1>1. ASSUME NEW r \in Runs, NEW c \in Connections, NEW t \in Triggers,
               Start(r, c, t)
        PROVE  TypeOK'
    BY <1>1, StartType
  <1>2. ASSUME NEW r \in Runs, Proceed(r) PROVE TypeOK'
    BY <1>2, AnswerStepType, OutcomeStepType, LeaseStepType, TakeStepType,
       SessionStepType, MarkStepType, StatusStepType, StoreStepType,
       FaultStepType
       DEF Proceed
  <1>3. ASSUME NEW r \in Runs, Crash(r) PROVE TypeOK'
    BY <1>3, FaultStepType
  <1>4. CASE Environment /\ UNCHANGED workerVars
    BY <1>4, EnvironmentType DEF TypeOK, workerVars
  <1>5. CASE UNCHANGED vars
    <2>1. DatabaseTypeOK'
      BY <1>5, DatabaseUnchanged DEF vars
    <2> QED
      BY <1>5, <2>1 DEF vars, workerVars, TypeOK
  <1> QED
    BY <1>1, <1>2, <1>3, <1>4, <1>5 DEF Next

\* Every reachable state is well typed, for any number of runs, connections,
\* accounts, days and faults: no row of the database and no local of a run
\* ever leaves its domain.
THEOREM TypeCorrect == Spec => []TypeOK
  BY InitType, NextType, PTL DEF Spec

-----------------------------------------------------------------------------
(***************************************************************************)
(* At most one storefront request per allowance, and no allowance is ever  *)
(* handed back once spent.  The inductive invariant is AttemptInv: a run   *)
(* that may ask Riot holds the attempt stamp of its allowance's row, stamps*)
(* are given once, and a row with a stamp cannot be claimed again.  With   *)
(* it, the worker implements StorefrontAllowance.                          *)
(***************************************************************************)

(* What the database operations do to attempt stamps.                       *)

\* No row loses or changes its attempt stamp, and none loses a success.
StampsKept ==
    /\ \A c \in Connections, d \in Days :
         daily[c][d].stamp # 0 => daily'[c][d].stamp = daily[c][d].stamp
    /\ \A a \in Accounts, d \in Days :
         manual[a][d].stamp # 0 =>
            /\ manual'[a][d].stamp = manual[a][d].stamp
            /\ manual[a][d].status = "succeeded" =>
                  manual'[a][d].status = "succeeded"

StampsSafe == StampsKept /\ StampsRecorded'

\* No row gets a stamp either: every step but the mark.
StampsSame ==
    /\ \A c \in Connections, d \in Days :
         daily'[c][d].stamp = daily[c][d].stamp
    /\ \A a \in Accounts, d \in Days :
         manual'[a][d].stamp = manual[a][d].stamp

LEMMA StampsUnchanged ==
  ASSUME StampsRecorded, UNCHANGED <<daily, manual, lastMark>>
  PROVE  StampsSafe /\ StampsSame
  BY DEF StampsSafe, StampsSame, StampsKept, StampsRecorded

\* An update of one daily row that keeps the stamp it has.
LEMMA DailyRowKept ==
  ASSUME DatabaseTypeOK, StampsRecorded, UNCHANGED <<manual, lastMark>>,
         NEW c \in Connections, NEW d \in Days, NEW row,
         daily' = [daily EXCEPT ![c][d] = row],
         row.stamp = daily[c][d].stamp, ~row.taken => row.stamp = 0
  PROVE  StampsSafe /\ StampsSame
  <1>1. \A x \in Connections, y \in Days :
           daily'[x][y] = IF x = c /\ y = d THEN row ELSE daily[x][y]
    BY DEF DatabaseTypeOK
  <1> QED
    BY <1>1 DEF StampsSafe, StampsSame, StampsKept, StampsRecorded

\* An update of one manual row that keeps the stamp it has.
LEMMA ManualRowKept ==
  ASSUME DatabaseTypeOK, StampsRecorded, UNCHANGED <<daily, lastMark>>,
         NEW a \in Accounts, NEW d \in Days, NEW row,
         manual' = [manual EXCEPT ![a][d] = row],
         row.stamp = manual[a][d].stamp,
         row.status \in {"none", "claimed", "retryable_failed"}
            => row.stamp = 0,
         manual[a][d].status = "succeeded" /\ manual[a][d].stamp # 0
            => row.status = "succeeded"
  PROVE  StampsSafe /\ StampsSame
  <1>1. \A x \in Accounts, y \in Days :
           manual'[x][y] = IF x = a /\ y = d THEN row ELSE manual[x][y]
    BY DEF DatabaseTypeOK
  <1> QED
    BY <1>1 DEF StampsSafe, StampsSame, StampsKept, StampsRecorded

LEMMA ClaimDailyStamps ==
  ASSUME NEW t \in Runs, NEW c \in Connections, NEW e \in Nat,
         DatabaseTypeOK, StampsRecorded, ClaimDaily(t, c, e)
  PROVE  StampsSafe /\ StampsSame
  <1> DEFINE row == [taken |-> TRUE, epoch |-> e, at |-> now, stamp |-> 0,
                     failed |-> FALSE]
  <1>1. today \in Days
    BY DEF DatabaseTypeOK
  <1>2. row.stamp = daily[c][today].stamp
    BY <1>1 DEF ClaimDaily, DailyClaimable, StampsRecorded
  <1>3. daily' = [daily EXCEPT ![c][today] = row] /\ row.taken
    BY DEF ClaimDaily
  <1>4. UNCHANGED <<manual, lastMark>>
    BY DEF ClaimDaily
  <1> HIDE DEF row
  <1> QED
    BY <1>1, <1>2, <1>3, <1>4, DailyRowKept

LEMMA CloseDailyStamps ==
  ASSUME NEW t \in Runs, NEW c \in Connections, NEW e \in Nat, NEW d \in Days,
         DatabaseTypeOK, StampsRecorded, CloseDaily(t, c, e, d)
  PROVE  StampsSafe /\ StampsSame
  <1> DEFINE row == [daily[c][d] EXCEPT !.failed = TRUE]
  <1>1. row.stamp = daily[c][d].stamp /\ row.taken = daily[c][d].taken
    BY RowTypes DEF DailyRow
  <1>2. daily' = [daily EXCEPT ![c][d] = row]
    BY DEF CloseDaily
  <1>3. UNCHANGED <<manual, lastMark>>
    BY DEF CloseDaily
  <1>4. ~daily[c][d].taken => daily[c][d].stamp = 0
    BY DEF StampsRecorded
  <1> HIDE DEF row
  <1> QED
    BY <1>1, <1>2, <1>3, <1>4, DailyRowKept

LEMMA ClaimManualStamps ==
  ASSUME NEW t \in Runs, NEW c \in Connections, NEW e \in Nat,
         DatabaseTypeOK, StampsRecorded, ClaimManual(t, c, e)
  PROVE  StampsSafe /\ StampsSame
  <1> DEFINE row == [status |-> "claimed", conn |-> c, epoch |-> e,
                     token |-> t, at |-> now, stamp |-> 0, failed |-> FALSE]
             a == conn[c].puuid
  <1>1. today \in Days /\ a \in Accounts
    BY ClaimManualType DEF DatabaseTypeOK
  <1>2. /\ manual[a][today].stamp = 0
        /\ manual[a][today].status # "succeeded"
    BY <1>1 DEF ClaimManual, ManualClaimable, ManualFree, StampsRecorded
  <1>3. manual' = [manual EXCEPT ![a][today] = row] /\ row.stamp = 0
    BY DEF ClaimManual
  <1>4. UNCHANGED <<daily, lastMark>>
    BY DEF ClaimManual
  <1> HIDE DEF row, a
  <1> QED
    BY <1>1, <1>2, <1>3, <1>4, ManualRowKept

LEMMA FailManualStamps ==
  ASSUME NEW t \in Runs, NEW c \in Connections, NEW e \in Nat,
         NEW a \in Accounts, NEW d \in Days,
         DatabaseTypeOK, StampsRecorded,
         \/ FailManualRetryable(t, c, e, a, d)
         \/ FailManualFinal(t, c, e, a, d)
         \/ CloseManual(t, c, e, a, d)
  PROVE  StampsSafe /\ StampsSame
  <1>1. UNCHANGED <<daily, lastMark>>
    BY DEF FailManualRetryable, FailManualFinal, CloseManual
  <1>2. manual[a][d] \in ManualRow
    BY RowTypes
  <1>3. manual[a][d].status \in {"none", "claimed", "retryable_failed"}
           => manual[a][d].stamp = 0
    BY DEF StampsRecorded
  <1>4. CASE UNCHANGED manual
    BY <1>1, <1>4, StampsUnchanged
  <1>5. CASE /\ ManualReleasable(t, c, e, a, d)
             /\ FailManualRetryable(t, c, e, a, d)
    <2> DEFINE row == [manual[a][d] EXCEPT !.status = "retryable_failed",
                                           !.failed = TRUE]
    <2>1. row.stamp = manual[a][d].stamp /\ row.status = "retryable_failed"
      BY <1>2 DEF ManualRow
    <2>2. manual' = [manual EXCEPT ![a][d] = row]
      BY <1>5 DEF FailManualRetryable
    <2>3. manual[a][d].status = "claimed"
      BY <1>5 DEF ManualReleasable
    <2> HIDE DEF row
    <2> QED
      BY <1>1, <1>3, <2>1, <2>2, <2>3, ManualRowKept
  <1>6. CASE manual' = [manual EXCEPT ![a][d].failed = TRUE]
    <2> DEFINE row == [manual[a][d] EXCEPT !.failed = TRUE]
    <2>1. row.stamp = manual[a][d].stamp /\ row.status = manual[a][d].status
      BY <1>2 DEF ManualRow
    <2>2. manual' = [manual EXCEPT ![a][d] = row]
      BY <1>6
    <2> HIDE DEF row
    <2> QED
      BY <1>1, <1>3, <2>1, <2>2, ManualRowKept
  <1> QED
    BY <1>4, <1>5, <1>6 DEF FailManualRetryable, FailManualFinal, CloseManual

\* Only a row whose request is out becomes a success, or stays one.
LEMMA RecordManualStamps ==
  ASSUME NEW t \in Runs, NEW c \in Connections, NEW e \in Nat,
         NEW a \in Accounts, NEW d \in Days, NEW s \in Nat,
         DatabaseTypeOK, StampsRecorded, RecordManual(t, c, e, a, d, s)
  PROVE  StampsSafe /\ StampsSame
  <1> DEFINE row == [manual[a][d] EXCEPT !.status = "succeeded"]
  <1>1. row.stamp = manual[a][d].stamp /\ row.status = "succeeded"
    BY RowTypes DEF ManualRow
  <1>2. manual' = [manual EXCEPT ![a][d] = row]
    BY DEF RecordManual
  <1>3. UNCHANGED <<daily, lastMark>>
    BY DEF RecordManual
  <1> HIDE DEF row
  <1> QED
    BY <1>1, <1>2, <1>3, ManualRowKept

\* The marks stamp a row that had none with a stamp no row has had.
LEMMA MarkDailyStamps ==
  ASSUME NEW t \in Runs, NEW c \in Connections, NEW e \in Nat, NEW d \in Days,
         DatabaseTypeOK, StampsRecorded, MarkDaily(t, c, e, d)
  PROVE  /\ StampsSafe
         /\ daily[c][d].stamp = 0 /\ daily'[c][d].stamp = lastMark + 1
  <1> DEFINE row == [daily[c][d] EXCEPT !.stamp = lastMark + 1]
  <1>1. daily[c][d].taken /\ daily[c][d].stamp = 0
    BY DEF MarkDaily, DailyMarkable
  <1>2. row.stamp = lastMark + 1 /\ row.taken = TRUE
    BY <1>1, RowTypes DEF DailyRow
  <1>3. /\ lastMark' = lastMark + 1 /\ manual' = manual
        /\ daily' = [daily EXCEPT ![c][d] = row]
    BY DEF MarkDaily
  <1>4. lastMark \in Nat /\ \A x \in Connections, y \in Days :
                              daily[x][y] \in DailyRow
    BY RowTypes DEF DatabaseTypeOK
  <1> HIDE DEF row
  <1>5. \A x \in Connections, y \in Days :
           daily'[x][y] = IF x = c /\ y = d THEN row ELSE daily[x][y]
    BY <1>3 DEF DatabaseTypeOK
  <1>6. \A x \in Accounts, y \in Days : manual[x][y].stamp \in Nat
    BY RowTypes DEF ManualRow
  <1>7. \A x \in Connections, y \in Days : daily[x][y].stamp \in Nat
    BY <1>4 DEF DailyRow
  <1>8. StampsKept
    BY <1>1, <1>3, <1>5 DEF StampsKept
  <1>9. StampsRecorded'
    <2>1. ASSUME NEW x \in Connections, NEW y \in Days
          PROVE  /\ daily'[x][y].stamp <= lastMark'
                 /\ ~daily'[x][y].taken => daily'[x][y].stamp = 0
      <3>1. CASE x = c /\ y = d
        <4>1. daily'[x][y] = row
          BY <1>5, <3>1
        <4> QED
          BY <1>2, <1>3, <1>4, <4>1
      <3>2. CASE ~(x = c /\ y = d)
        BY <1>3, <1>4, <1>5, <1>7, <3>2 DEF StampsRecorded
      <3> QED
        BY <3>1, <3>2
    <2>2. ASSUME NEW x \in Accounts, NEW y \in Days
          PROVE  /\ manual'[x][y].stamp <= lastMark'
                 /\ manual'[x][y].status
                      \in {"none", "claimed", "retryable_failed"}
                    => manual'[x][y].stamp = 0
      BY <1>3, <1>4, <1>6 DEF StampsRecorded
    <2> QED
      BY <2>1, <2>2 DEF StampsRecorded
  <1> QED
    BY <1>1, <1>2, <1>5, <1>8, <1>9 DEF StampsSafe

LEMMA MarkManualStamps ==
  ASSUME NEW t \in Runs, NEW c \in Connections, NEW e \in Nat,
         NEW a \in Accounts, NEW d \in Days,
         DatabaseTypeOK, StampsRecorded, MarkManual(t, c, e, a, d)
  PROVE  /\ StampsSafe
         /\ manual[a][d].stamp = 0 /\ manual'[a][d].stamp = lastMark + 1
  <1> DEFINE row == [manual[a][d] EXCEPT !.status = "requesting",
                                         !.stamp = lastMark + 1]
  <1>1. manual[a][d].status = "claimed" /\ manual[a][d].stamp = 0
    BY DEF MarkManual, ManualMarkable, StampsRecorded
  <1>2. row.stamp = lastMark + 1 /\ row.status = "requesting"
    BY RowTypes DEF ManualRow
  <1>3. /\ lastMark' = lastMark + 1 /\ daily' = daily
        /\ manual' = [manual EXCEPT ![a][d] = row]
    BY DEF MarkManual
  <1>4. lastMark \in Nat
    BY DEF DatabaseTypeOK
  <1> HIDE DEF row
  <1>5. \A x \in Accounts, y \in Days :
           manual'[x][y] = IF x = a /\ y = d THEN row ELSE manual[x][y]
    BY <1>3 DEF DatabaseTypeOK
  <1>6. \A x \in Accounts, y \in Days : manual[x][y].stamp \in Nat
    BY RowTypes DEF ManualRow
  <1>7. \A x \in Connections, y \in Days : daily[x][y].stamp \in Nat
    BY RowTypes DEF DailyRow
  <1>8. StampsKept
    BY <1>1, <1>3, <1>5 DEF StampsKept
  <1>9. StampsRecorded'
    BY <1>1, <1>2, <1>3, <1>4, <1>5, <1>6, <1>7 DEF StampsRecorded
  <1> QED
    BY <1>1, <1>2, <1>5, <1>8, <1>9 DEF StampsSafe

-----------------------------------------------------------------------------
(* Steps of a run that neither claim, mark nor send.                        *)

\* Where a run can be once it has its claim, other than in its request.
Later == Steps \ (Unclaimed \cup {"fetch", "awaiting"})

LEMMA LaterSteps ==
  ASSUME NEW r \in Runs
  PROVE  /\ AfterFailure(r, TRUE) \in Later /\ AfterFailure(r, FALSE) \in Later
         /\ \A held \in BOOLEAN : Finally(held) \in Later
         /\ Finalize(r) \in Later /\ OnError(r) \in Later
         /\ AfterIdentity(r) \in Later /\ AfterRecord(r) \in Later
         /\ pc[r] \in {"record", "enrich"} =>
               /\ OnRecordError(r, "close") \in Later
               /\ OnRecordError(r, "done") \in Later
         /\ {"load", "release", "renew", "refresh", "persist", "prepare",
             "mark", "lifecycle", "healthy", "record", "extras", "puuid",
             "enrich", "enrichExtras", "failRetry", "close", "done",
             "crashed"} \subseteq Later
  <1>1. {"load", "release", "renew", "refresh", "persist", "prepare", "mark",
         "lifecycle", "healthy", "record", "extras", "puuid",
         "enrich", "enrichExtras", "failRetry", "failAmbiguous", "close",
         "expire", "done", "crashed"} \subseteq Later
    BY DEF Later, Steps, Unclaimed
  <1>2. \A held \in BOOLEAN : Finally(held) \in Later
    BY <1>1 DEF Finally
  <1>3. AfterFailure(r, TRUE) \in Later /\ AfterFailure(r, FALSE) \in Later
    BY <1>1, <1>2 DEF AfterFailure
  <1>4. Finalize(r) \in Later
    BY <1>1 DEF Finalize
  <1>5. AfterIdentity(r) \in Later /\ AfterRecord(r) \in Later
    BY <1>1 DEF AfterIdentity, AfterRecord
  <1>6. OnError(r) \in Later
    BY <1>1, <1>3, <1>4, <1>5 DEF OnError
  <1>7. pc[r] \in {"record", "enrich"} =>
           OnRecordError(r, "close") \in Later /\ OnRecordError(r, "done") \in Later
    BY <1>1 DEF OnRecordError
  <1> QED
    BY <1>1, <1>2, <1>3, <1>4, <1>5, <1>6, <1>7

\* A row stamp that pays for an attempt outlives a step that keeps the stamps.
LEMMA RowStampKept ==
  ASSUME TypeOK, RunStamps, StampsKept, NEW s \in Runs, attempt[s] # 0,
         job'[s] = job[s], claim'[s] = claim[s]
  PROVE  RowStamp(s)' = attempt[s]
  <1>1. RowStamp(s) = attempt[s]
    BY DEF RunStamps
  <1>2. C(s) \in Connections /\ D(s) \in Days /\ A(s) \in Accounts
    BY RunTypes
  <1>3. C(s)' = C(s) /\ D(s)' = D(s) /\ A(s)' = A(s) /\ IsManual(s)' = IsManual(s)
    BY DEF C, D, A, IsManual
  <1> QED
    BY <1>1, <1>2, <1>3 DEF RowStamp, StampsKept

LEMMA QuietStep ==
  ASSUME TypeOK, AttemptInv, NEW r \in Runs, StampsSafe,
         UNCHANGED <<job, claim, attempt, sent>>,
         NEW next, Goto(r, next),
         next \in Later \/ (At(r, "acquire") /\ next = "claim")
  PROVE  AttemptInv'
  <1>1. StampsRecorded' /\ AttemptsDistinct'
    BY DEF AttemptInv, StampsSafe, AttemptsDistinct
  <1>2. ASSUME NEW s \in Runs
        PROVE  /\ attempt'[s] # 0 => RowStamp(s)' = attempt'[s]
               /\ pc'[s] \in Unclaimed => attempt'[s] = 0
               /\ pc'[s] = "fetch" \/ s \in sent' => attempt'[s] # 0
    <2>1. attempt'[s] # 0 => RowStamp(s)' = attempt'[s]
      BY RowStampKept DEF AttemptInv, StampsSafe
    <2>2. pc'[s] = IF s = r THEN next ELSE pc[s]
      BY DEF Goto, TypeOK
    <2>3. /\ pc[s] \in Unclaimed => attempt[s] = 0
          /\ pc[s] = "fetch" \/ s \in sent => attempt[s] # 0
      BY DEF AttemptInv, RunStamps, At
    <2>4. next \in Later => next \notin Unclaimed /\ next # "fetch"
      BY DEF Later
    <2>5. "acquire" \in Unclaimed /\ "claim" # "fetch"
      BY DEF Unclaimed
    <2> QED
      BY <2>1, <2>2, <2>3, <2>4, <2>5 DEF At
  <1> QED
    BY <1>1, <1>2 DEF AttemptInv, RunStamps, At

LEMMA AnsweredNext ==
  ASSUME TypeOK, NEW r \in Runs,
         \/ AcquireRefused(r) \/ ClaimRefused(r) \/ Load(r) \/ LoadMissing(r)
         \/ RenewRefused(r) \/ RefreshFails(r) \/ PersistRefused(r)
         \/ Prepare(r) \/ MarkRefused(r) \/ StoreReceived(r)
         \/ StoreRejected(r) \/ StoreAmbiguous(r) \/ LifecycleStale(r)
         \/ CloseRefused(r) \/ SendExpiry(r) \/ HealthyStale(r)
         \/ CanonicalizeFails(r) \/ RecordReplayed(r) \/ RecordRefused(r)
         \/ PipelineFails(r) \/ EnrichRefused(r)
  PROVE  \E next \in Later : Answer(r, next)
  <1>1. CASE \/ AcquireRefused(r) \/ ClaimRefused(r) \/ Load(r)
             \/ LoadMissing(r) \/ RenewRefused(r) \/ RefreshFails(r)
             \/ PersistRefused(r) \/ Prepare(r) \/ MarkRefused(r)
             \/ StoreReceived(r) \/ StoreRejected(r) \/ StoreAmbiguous(r)
    BY <1>1, LaterSteps
       DEF AcquireRefused, ClaimRefused, Load, LoadMissing, RenewRefused,
           RefreshFails, PersistRefused, Prepare, MarkRefused,
           StoreReceived, StoreRejected, StoreAmbiguous
  <1>2. CASE SendExpiry(r)
    <2>1. ctl[r].held \in BOOLEAN
      BY RunTypes DEF Control
    <2> QED
      BY <1>2, <2>1, LaterSteps DEF SendExpiry
  <1>3. CASE \/ LifecycleStale(r) \/ CloseRefused(r) \/ HealthyStale(r)
             \/ CanonicalizeFails(r) \/ RecordReplayed(r)
             \/ PipelineFails(r)
    BY <1>3, LaterSteps
       DEF LifecycleStale, CloseRefused, HealthyStale, CanonicalizeFails,
           RecordReplayed, PipelineFails
  <1>4. CASE RecordRefused(r) \/ EnrichRefused(r)
    BY <1>4, LaterSteps DEF RecordRefused, EnrichRefused, At
  <1> QED
    BY <1>1, <1>2, <1>3, <1>4

LEMMA RepliedNext ==
  ASSUME NEW r \in Runs,
         \/ TakeDaily(r) \/ TakeManual(r)
         \/ Renew(r) \/ Refresh(r) \/ Persist(r) \/ Lifecycle(r) \/ Healthy(r)
         \/ FailRetry(r) \/ FailAmbiguous(r) \/ Close(r) \/ Record(r)
         \/ Extras(r) \/ ResolvePuuid(r) \/ Enrich(r) \/ Release(r)
         \/ CallFails(r) \/ RecordCallFails(r) \/ Crash(r)
  PROVE  \E next \in Later : Goto(r, next)
  <1>1. CASE \/ TakeDaily(r) \/ TakeManual(r) \/ Renew(r) \/ Persist(r)
             \/ FailRetry(r) \/ FailAmbiguous(r)
    BY <1>1, LaterSteps
       DEF TakeDaily, TakeManual, Renew, Persist, FailRetry, FailAmbiguous,
           Reply
  <1>2. CASE \/ Refresh(r) \/ Lifecycle(r) \/ Healthy(r) \/ Close(r)
             \/ ResolvePuuid(r) \/ Release(r) \/ CallFails(r) \/ Crash(r)
    BY <1>2, LaterSteps
       DEF Refresh, Lifecycle, Healthy, Close, ResolvePuuid, Release,
           CallFails, Crash
  <1>3. CASE Record(r) \/ Extras(r) \/ Enrich(r) \/ RecordCallFails(r)
    BY <1>3, LaterSteps DEF Record, Extras, Enrich, RecordCallFails, At
  <1> QED
    BY <1>1, <1>2, <1>3

LEMMA QuietAnswer ==
  ASSUME TypeOK, AttemptInv, NEW r \in Runs,
         UNCHANGED <<job, claim, attempt, sent>>,
         NEW next \in Later, Answer(r, next)
  PROVE  AttemptInv'
  <1>1. StampsSafe
    BY StampsUnchanged DEF Answer, dbVars, AttemptInv
  <1> QED
    BY <1>1, QuietStep DEF Answer

-----------------------------------------------------------------------------
(* Every step keeps the stamps.                                             *)

\* The steps of a run that leave both run tables alone.
LEMMA UnstampedStep ==
  ASSUME StampsRecorded, NEW r \in Runs,
         \/ Acquire(r) \/ AcquireRefused(r) \/ ClaimRefused(r)
         \/ Load(r) \/ LoadMissing(r) \/ Renew(r) \/ RenewRefused(r)
         \/ Refresh(r) \/ RefreshFails(r) \/ Persist(r) \/ PersistRefused(r)
         \/ Prepare(r) \/ MarkRefused(r) \/ GetStore(r) \/ StoreReceived(r)
         \/ StoreRejected(r) \/ StoreAmbiguous(r)
         \/ Lifecycle(r) \/ LifecycleStale(r) \/ CloseRefused(r)
         \/ SendExpiry(r) \/ Release(r) \/ Healthy(r) \/ HealthyStale(r)
         \/ CanonicalizeFails(r) \/ RecordReplayed(r) \/ RecordRefused(r)
         \/ Extras(r) \/ ResolvePuuid(r) \/ Enrich(r) \/ PipelineFails(r)
         \/ EnrichRefused(r) \/ CallFails(r) \/ RecordCallFails(r) \/ Crash(r)
  PROVE  StampsSafe /\ StampsSame
  <1>1. CASE \/ Acquire(r) \/ Renew(r) \/ Refresh(r) \/ Persist(r)
             \/ Lifecycle(r) \/ Release(r) \/ Healthy(r)
             \/ Extras(r) \/ ResolvePuuid(r) \/ Enrich(r)
    <2>1. UNCHANGED <<daily, manual, lastMark>>
      BY <1>1 DEF Acquire, Renew, Refresh, Persist, Lifecycle, Release,
                  Healthy, Extras, ResolvePuuid, Enrich, ClaimRotation,
                  RenewRotation, PersistRotated, ApplyLifecycle,
                  ReleaseRotation, WriteExtras, PersistPuuid, EnrichShop,
                  dbVars
    <2> QED
      BY <2>1, StampsUnchanged
  <1>2. CASE CallFails(r) \/ RecordCallFails(r) \/ Crash(r)
    BY <1>2, StampsUnchanged DEF CallFails, RecordCallFails, Crash, dbVars
  <1>3. ASSUME NEW next, Answer(r, next) PROVE StampsSafe /\ StampsSame
    BY <1>3, StampsUnchanged DEF Answer, dbVars
  <1> QED
    BY <1>1, <1>2, <1>3
       DEF AcquireRefused, ClaimRefused, Load, LoadMissing, RenewRefused,
           RefreshFails, PersistRefused, Prepare, MarkRefused, GetStore,
           StoreReceived, StoreRejected, StoreAmbiguous, LifecycleStale,
           CloseRefused, SendExpiry, HealthyStale, CanonicalizeFails,
           RecordReplayed, RecordRefused, PipelineFails, EnrichRefused

\* The steps that write a run row, other than the mark.
LEMMA ClaimedStep ==
  ASSUME TypeOK, StampsRecorded, NEW r \in Runs,
         \/ TakeDaily(r) \/ TakeManual(r)
         \/ FailRetry(r) \/ FailAmbiguous(r) \/ Close(r) \/ Record(r)
  PROVE  StampsSafe /\ StampsSame
  <1>1. /\ DatabaseTypeOK /\ C(r) \in Connections /\ E(r) \in Nat
        /\ D(r) \in Days /\ A(r) \in Accounts /\ attempt[r] \in Nat
    BY RunTypes DEF TypeOK
  <1>2. CASE TakeDaily(r)
    BY <1>1, <1>2, ClaimDailyStamps DEF TakeDaily
  <1>3. CASE TakeManual(r)
    BY <1>1, <1>3, ClaimManualStamps DEF TakeManual
  <1>4. CASE UNCHANGED dbVars
    BY <1>4, StampsUnchanged DEF dbVars
  <1>5. CASE \/ FailManualRetryable(r, C(r), E(r), A(r), D(r))
             \/ FailManualFinal(r, C(r), E(r), A(r), D(r))
             \/ CloseManual(r, C(r), E(r), A(r), D(r))
    BY <1>1, <1>5, FailManualStamps
  <1>6. CASE CloseDaily(r, C(r), E(r), D(r))
    BY <1>1, <1>6, CloseDailyStamps
  <1>7. CASE RecordManual(r, C(r), E(r), A(r), D(r), attempt[r])
    BY <1>1, <1>7, RecordManualStamps
  <1>8. CASE RecordDaily(r, C(r), E(r), D(r), attempt[r])
    BY <1>8, StampsUnchanged DEF RecordDaily
  <1> QED
    BY <1>2, <1>3, <1>4, <1>5, <1>6, <1>7, <1>8
       DEF FailRetry, FailAmbiguous, Close, Record, RecordEffect

\* The mark gives a stamp to the row of its allowance, which had none.
LEMMA MarkStep ==
  ASSUME TypeOK, StampsRecorded, NEW r \in Runs, MarkStorefrontAttempt(r)
  PROVE  /\ StampsSafe
         /\ RowStamp(r) = 0 /\ RowStamp(r)' = lastMark + 1
  <1>1. /\ DatabaseTypeOK /\ C(r) \in Connections /\ E(r) \in Nat
        /\ D(r) \in Days /\ A(r) \in Accounts
    BY RunTypes DEF TypeOK
  <1>2. CASE ~IsManual(r) /\ MarkDaily(r, C(r), E(r), D(r))
    BY <1>1, <1>2, MarkDailyStamps
       DEF MarkStorefrontAttempt, RowStamp, IsManual, C, D, A
  <1>3. CASE IsManual(r) /\ MarkManual(r, C(r), E(r), A(r), D(r))
    BY <1>1, <1>3, MarkManualStamps
       DEF MarkStorefrontAttempt, RowStamp, IsManual, C, D, A
  <1> QED
    BY <1>2, <1>3 DEF MarkStorefrontAttempt

LEMMA EnvironmentStamps ==
  ASSUME StampsRecorded, Environment
  PROVE  StampsSafe /\ StampsSame
  <1>1. UNCHANGED <<daily, manual, lastMark>>
    BY DEF Environment, Tick, Midnight, Disconnect, Connect, Reconnect
  <1> QED
    BY <1>1, StampsUnchanged

LEMMA NextStamps == TypeOK /\ StampsRecorded /\ [Next]_vars => StampsSafe
  <1> SUFFICES ASSUME TypeOK, StampsRecorded, [Next]_vars PROVE StampsSafe
    OBVIOUS
  <1>1. ASSUME NEW r \in Runs, NEW c \in Connections, NEW t \in Triggers,
               Start(r, c, t)
        PROVE  StampsSafe
    BY <1>1, StampsUnchanged DEF Start, dbVars
  <1>2. ASSUME NEW r \in Runs, Proceed(r) PROVE StampsSafe
    BY <1>2, UnstampedStep, ClaimedStep, MarkStep DEF Proceed
  <1>3. ASSUME NEW r \in Runs, Crash(r) PROVE StampsSafe
    BY <1>3, UnstampedStep
  <1>4. CASE Environment
    BY <1>4, EnvironmentStamps
  <1>5. CASE UNCHANGED vars
    BY <1>5, StampsUnchanged DEF vars, dbVars
  <1> QED
    BY <1>1, <1>2, <1>3, <1>4, <1>5 DEF Next

-----------------------------------------------------------------------------
(* AttemptInv is inductive.                                                 *)

LEMMA AnsweredInv ==
  ASSUME TypeOK, AttemptInv, NEW r \in Runs,
         \/ AcquireRefused(r) \/ ClaimRefused(r) \/ Load(r) \/ LoadMissing(r)
         \/ RenewRefused(r) \/ RefreshFails(r) \/ PersistRefused(r)
         \/ Prepare(r) \/ MarkRefused(r) \/ StoreReceived(r)
         \/ StoreRejected(r) \/ StoreAmbiguous(r) \/ LifecycleStale(r)
         \/ CloseRefused(r) \/ SendExpiry(r) \/ HealthyStale(r)
         \/ CanonicalizeFails(r) \/ RecordReplayed(r) \/ RecordRefused(r)
         \/ PipelineFails(r) \/ EnrichRefused(r)
  PROVE  AttemptInv'
  <1>1. UNCHANGED <<job, claim, attempt, sent>>
    BY DEF AcquireRefused, ClaimRefused, Load, LoadMissing, RenewRefused,
           RefreshFails, PersistRefused, Prepare, MarkRefused, StoreReceived,
           StoreRejected, StoreAmbiguous, LifecycleStale, CloseRefused,
           SendExpiry, HealthyStale, CanonicalizeFails, RecordReplayed,
           RecordRefused, PipelineFails, EnrichRefused, local
  <1>2. PICK next \in Later : Answer(r, next)
    BY AnsweredNext
  <1> QED
    BY <1>1, <1>2, QuietAnswer

LEMMA RepliedInv ==
  ASSUME TypeOK, AttemptInv, NEW r \in Runs,
         \/ Acquire(r) \/ Renew(r) \/ Refresh(r) \/ Persist(r)
         \/ Lifecycle(r) \/ Healthy(r) \/ FailRetry(r) \/ FailAmbiguous(r)
         \/ Close(r) \/ Record(r) \/ Extras(r) \/ ResolvePuuid(r)
         \/ Enrich(r) \/ Release(r)
         \/ CallFails(r) \/ RecordCallFails(r) \/ Crash(r)
  PROVE  AttemptInv'
  <1>1. StampsSafe
    BY UnstampedStep, ClaimedStep DEF AttemptInv
  <1>2. UNCHANGED <<job, claim, attempt, sent>>
    BY DEF Acquire, Renew, Refresh, Persist, Lifecycle, Healthy, FailRetry,
           FailAmbiguous, Close, Record, Extras, ResolvePuuid, Enrich,
           Release, CallFails, RecordCallFails, Crash, local
  <1>3. CASE Acquire(r)
    <2>1. PICK next : /\ Goto(r, next)
                      /\ next \in Later \/ (At(r, "acquire") /\ next = "claim")
      BY <1>3, LaterSteps DEF Acquire, Reply
    <2> QED
      BY <1>1, <1>2, <2>1, QuietStep
  <1>4. CASE ~Acquire(r)
    <2>1. PICK next \in Later : Goto(r, next)
      BY <1>4, RepliedNext
    <2> QED
      BY <1>1, <1>2, <2>1, QuietStep
  <1> QED
    BY <1>3, <1>4

\* A run takes its claim before it has an attempt.
LEMMA TakenInv ==
  ASSUME TypeOK, AttemptInv, NEW r \in Runs, TakeDaily(r) \/ TakeManual(r)
  PROVE  AttemptInv'
  <1>1. StampsSafe
    BY ClaimedStep DEF AttemptInv
  <1>2. attempt[r] = 0 /\ r \notin sent
    BY DEF TakeDaily, TakeManual, At, AttemptInv, RunStamps, Unclaimed
  <1>3. /\ UNCHANGED <<job, attempt, sent>>
        /\ \A s \in Runs \ {r} : claim'[s] = claim[s]
    BY DEF TakeDaily, TakeManual, TypeOK
  <1>4. PICK next \in Later : Goto(r, next)
    BY RepliedNext
  <1>5. ASSUME NEW s \in Runs
        PROVE  /\ attempt'[s] # 0 => RowStamp(s)' = attempt'[s]
               /\ pc'[s] \in Unclaimed => attempt'[s] = 0
               /\ pc'[s] = "fetch" \/ s \in sent' => attempt'[s] # 0
    <2>1. CASE s = r
      <3>1. pc'[r] = next
        BY <1>4 DEF Goto, TypeOK
      <3> QED
        BY <1>2, <1>3, <2>1, <3>1 DEF Later
    <2>2. CASE s # r
      <3>1. pc'[s] = pc[s]
        BY <1>4, <2>2 DEF Goto, TypeOK
      <3>2. attempt'[s] # 0 => RowStamp(s)' = attempt'[s]
        BY <1>1, <1>3, <2>2, RowStampKept DEF AttemptInv, StampsSafe
      <3> QED
        BY <1>3, <3>1, <3>2 DEF AttemptInv, RunStamps, At
    <2> QED
      BY <2>1, <2>2
  <1> QED
    BY <1>1, <1>3, <1>5
       DEF AttemptInv, StampsSafe, RunStamps, AttemptsDistinct, At

\* The mark gives the run a stamp that no row had and no run holds.
LEMMA MarkedInv ==
  ASSUME TypeOK, AttemptInv, NEW r \in Runs, MarkStorefrontAttempt(r)
  PROVE  AttemptInv'
  <1>1. StampsSafe /\ RowStamp(r) = 0 /\ RowStamp(r)' = lastMark + 1
    BY MarkStep DEF AttemptInv
  <1>2. lastMark \in Nat
    BY DEF TypeOK, DatabaseTypeOK
  <1>3. attempt[r] = 0 /\ r \notin sent
    BY <1>1 DEF AttemptInv, RunStamps
  <1>4. /\ UNCHANGED <<job, claim, sent>>
        /\ \A s \in Runs \ {r} : attempt'[s] = attempt[s]
        /\ attempt'[r] \in {0, lastMark + 1}
    BY <1>3 DEF MarkStorefrontAttempt, TypeOK
  <1>5. /\ \A s \in Runs \ {r} : pc'[s] = pc[s]
        /\ pc'[r] \notin Unclaimed
        /\ pc'[r] = "fetch" => attempt'[r] = lastMark + 1
    BY LaterSteps DEF MarkStorefrontAttempt, Goto, TypeOK, Later, Unclaimed
  <1>6. \A s \in Runs : attempt[s] <= lastMark
    <2> SUFFICES ASSUME NEW s \in Runs, attempt[s] # 0
                 PROVE  attempt[s] <= lastMark
      BY <1>2
    <2>1. RowStamp(s) = attempt[s]
      BY DEF AttemptInv, RunStamps
    <2>2. C(s) \in Connections /\ D(s) \in Days /\ A(s) \in Accounts
      BY RunTypes
    <2> QED
      BY <2>1, <2>2 DEF RowStamp, AttemptInv, StampsRecorded
  <1>7. lastMark + 1 # 0 /\ \A s \in Runs : attempt[s] # lastMark + 1
    <2>1. \A s \in Runs : attempt[s] \in Nat
      BY RunTypes
    <2> QED
      BY <1>2, <1>6, <2>1
  <1>8. ASSUME NEW s \in Runs
        PROVE  /\ attempt'[s] # 0 => RowStamp(s)' = attempt'[s]
               /\ pc'[s] \in Unclaimed => attempt'[s] = 0
               /\ pc'[s] = "fetch" \/ s \in sent' => attempt'[s] # 0
    <2>1. CASE s = r
      BY <1>1, <1>3, <1>4, <1>5, <1>7, <2>1
    <2>2. CASE s # r
      <3>1. attempt'[s] # 0 => RowStamp(s)' = attempt'[s]
        BY <1>1, <1>4, <2>2, RowStampKept DEF AttemptInv, StampsSafe
      <3> QED
        BY <1>4, <1>5, <2>2, <3>1 DEF AttemptInv, RunStamps, At
    <2> QED
      BY <2>1, <2>2
  <1>9. AttemptsDistinct'
    BY <1>4, <1>7 DEF AttemptInv, AttemptsDistinct
  <1> QED
    BY <1>1, <1>8, <1>9 DEF AttemptInv, StampsSafe, RunStamps, At

LEMMA SentInv ==
  ASSUME TypeOK, AttemptInv, NEW r \in Runs, GetStore(r)
  PROVE  AttemptInv'
  <1>1. StampsSafe
    BY UnstampedStep DEF AttemptInv
  <1>2. UNCHANGED <<job, claim, attempt>> /\ sent' = sent \cup {r}
    BY DEF GetStore
  <1>3. attempt[r] # 0
    BY DEF GetStore, AttemptInv, RunStamps
  <1>4. pc' = [pc EXCEPT ![r] = "awaiting"] /\ pc \in [Runs -> Steps]
    BY DEF GetStore, Answer, Goto, TypeOK
  <1>5. ASSUME NEW s \in Runs
        PROVE  /\ attempt'[s] # 0 => RowStamp(s)' = attempt'[s]
               /\ pc'[s] \in Unclaimed => attempt'[s] = 0
               /\ pc'[s] = "fetch" \/ s \in sent' => attempt'[s] # 0
    <2>1. attempt'[s] # 0 => RowStamp(s)' = attempt'[s]
      BY <1>1, <1>2, RowStampKept DEF AttemptInv, StampsSafe
    <2> QED
      BY <1>2, <1>3, <1>4, <2>1 DEF AttemptInv, RunStamps, At, Unclaimed
  <1> QED
    BY <1>1, <1>2, <1>5
       DEF AttemptInv, StampsSafe, RunStamps, AttemptsDistinct, At

LEMMA StartedInv ==
  ASSUME TypeOK, AttemptInv, NEW r \in Runs, NEW c \in Connections,
         NEW t \in Triggers, Start(r, c, t)
  PROVE  AttemptInv'
  <1>1. StampsSafe
    BY StampsUnchanged DEF Start, dbVars, AttemptInv
  <1>2. attempt[r] = 0 /\ r \notin sent
    BY DEF Start, At, AttemptInv, RunStamps, Unclaimed
  <1>3. /\ UNCHANGED <<claim, attempt, sent>>
        /\ \A s \in Runs \ {r} : job'[s] = job[s] /\ pc'[s] = pc[s]
        /\ pc'[r] \in {"done", "acquire"}
    BY DEF Start, Goto, TypeOK
  <1>4. ASSUME NEW s \in Runs
        PROVE  /\ attempt'[s] # 0 => RowStamp(s)' = attempt'[s]
               /\ pc'[s] \in Unclaimed => attempt'[s] = 0
               /\ pc'[s] = "fetch" \/ s \in sent' => attempt'[s] # 0
    <2>1. CASE s = r
      BY <1>2, <1>3, <2>1
    <2>2. CASE s # r
      <3>1. attempt'[s] # 0 => RowStamp(s)' = attempt'[s]
        BY <1>1, <1>3, <2>2, RowStampKept DEF AttemptInv, StampsSafe
      <3> QED
        BY <1>3, <2>2, <3>1 DEF AttemptInv, RunStamps, At
    <2> QED
      BY <2>1, <2>2
  <1> QED
    BY <1>1, <1>3, <1>4
       DEF AttemptInv, StampsSafe, RunStamps, AttemptsDistinct, At

LEMMA IdleInv ==
  ASSUME TypeOK, AttemptInv, StampsSafe, UNCHANGED workerVars
  PROVE  AttemptInv'
  <1>1. \A s \in Runs : attempt[s] # 0 => RowStamp(s)' = attempt[s]
    BY RowStampKept DEF workerVars, AttemptInv, StampsSafe
  <1> QED
    BY <1>1 DEF workerVars, AttemptInv, StampsSafe, RunStamps,
                AttemptsDistinct, At

LEMMA InitAttempt == Init => AttemptInv
  <1> SUFFICES ASSUME Init PROVE AttemptInv
    OBVIOUS
  <1>1. StampsRecorded
    BY DEF Init, DatabaseInit, StampsRecorded, NoDaily, NoManual
  <1>2. RunStamps /\ AttemptsDistinct
    BY DEF Init, RunStamps, AttemptsDistinct, At
  <1> QED
    BY <1>1, <1>2 DEF AttemptInv

LEMMA NextAttempt == TypeOK /\ AttemptInv /\ [Next]_vars => AttemptInv'
  <1> SUFFICES ASSUME TypeOK, AttemptInv, [Next]_vars PROVE AttemptInv'
    OBVIOUS
  <1>1. ASSUME NEW r \in Runs, NEW c \in Connections, NEW t \in Triggers,
               Start(r, c, t)
        PROVE  AttemptInv'
    BY <1>1, StartedInv
  <1>2. ASSUME NEW r \in Runs, Proceed(r) PROVE AttemptInv'
    BY <1>2, AnsweredInv, RepliedInv, TakenInv, MarkedInv, SentInv DEF Proceed
  <1>3. ASSUME NEW r \in Runs, Crash(r) PROVE AttemptInv'
    BY <1>3, RepliedInv
  <1>4. CASE Environment /\ UNCHANGED workerVars
    BY <1>4, EnvironmentStamps, IdleInv DEF AttemptInv
  <1>5. CASE UNCHANGED vars
    BY <1>5, StampsUnchanged, IdleInv DEF vars, dbVars, AttemptInv
  <1> QED
    BY <1>1, <1>2, <1>3, <1>4, <1>5 DEF Next

-----------------------------------------------------------------------------
(* The theorems.                                                            *)

\* The attempt stamp of an allowance's row names the one run that may ask
\* Riot for it, in every reachable state.
THEOREM AttemptInvariant == Spec => [](TypeOK /\ AttemptInv)
  BY InitType, InitAttempt, NextType, NextAttempt, PTL DEF Spec

\* Two runs with the same allowance would hold the same stamp.
LEMMA StampGivesOneRequest ==
  TypeOK /\ AttemptInv => OneRequestPerAllowance
  <1> SUFFICES ASSUME TypeOK, AttemptInv, NEW r \in sent, NEW s \in sent,
                      r # s, SameAllowance(r, s)
               PROVE  FALSE
    BY DEF OneRequestPerAllowance
  <1>1. r \in Runs /\ s \in Runs
    BY DEF TypeOK
  <1>2. RowStamp(r) = RowStamp(s)
    BY DEF SameAllowance, RowStamp
  <1> QED
    BY <1>1, <1>2 DEF AttemptInv, RunStamps, AttemptsDistinct

\* At most one storefront request leaves for one allowance, whatever the
\* number of triggers, faults, reconnects, disconnects and days.
THEOREM OneRequest == Spec => []OneRequestPerAllowance
  BY AttemptInvariant, StampGivesOneRequest, PTL

\* A spent allowance is never handed back and a manual success never undone.
THEOREM SpentForGood == Spec => AllowanceStaysSpent
  <1>1. TypeOK /\ AttemptInv /\ [Next]_vars
          => [/\ \A c \in Connections, d \in Days :
                   daily[c][d].stamp # 0
                      => daily'[c][d].stamp = daily[c][d].stamp
              /\ \A a \in Accounts, d \in Days :
                   manual[a][d].stamp # 0 =>
                      /\ manual'[a][d].stamp = manual[a][d].stamp
                      /\ manual[a][d].status = "succeeded" =>
                            manual'[a][d].status = "succeeded"]_vars
    BY NextStamps DEF AttemptInv, StampsSafe, StampsKept
  <1> QED
    BY <1>1, AttemptInvariant, PTL DEF Spec, AllowanceStaysSpent

-----------------------------------------------------------------------------
(* The worker implements StorefrontAllowance: the mark spends an allowance  *)
(* and grants it to the run that made it, the fetch sends that run's        *)
(* request, and every other step, fault or clock tick maps to a stutter.    *)

LEMMA AllowanceTypes ==
  ASSUME TypeOK, NEW r \in Runs
  PROVE  /\ Allowance(r) \in DailyAllowances \cup ManualAllowances
         /\ Allowance(r) \in SpentAllowances <=> RowStamp(r) # 0
  <1>1. C(r) \in Connections /\ D(r) \in Days /\ A(r) \in Accounts
    BY RunTypes
  <1>2. CASE IsManual(r)
    <2>1. /\ Allowance(r) = <<"manual", A(r), D(r)>>
          /\ RowStamp(r) = manual[A(r)][D(r)].stamp
      BY <1>2 DEF Allowance, RowStamp
    <2> QED
      BY <1>1, <2>1 DEF SpentAllowances, DailyAllowances, ManualAllowances
  <1>3. CASE ~IsManual(r)
    <2>1. /\ Allowance(r) = <<"daily", C(r), D(r)>>
          /\ RowStamp(r) = daily[C(r)][D(r)].stamp
      BY <1>3 DEF Allowance, RowStamp
    <2> QED
      BY <1>1, <2>1 DEF SpentAllowances, DailyAllowances, ManualAllowances
  <1> QED
    BY <1>2, <1>3

\* Stamps that do not change leave the same allowances spent.
LEMMA SpentSame == ASSUME StampsSame PROVE SpentAllowances' = SpentAllowances
  <1>1. {k \in DailyAllowances : daily'[k[2]][k[3]].stamp # 0} =
        {k \in DailyAllowances : daily[k[2]][k[3]].stamp # 0}
    BY DEF StampsSame, DailyAllowances
  <1>2. {k \in ManualAllowances : manual'[k[2]][k[3]].stamp # 0} =
        {k \in ManualAllowances : manual[k[2]][k[3]].stamp # 0}
    BY DEF StampsSame, ManualAllowances
  <1> QED
    BY <1>1, <1>2 DEF SpentAllowances, DailyAllowances, ManualAllowances

LEMMA AllowanceSame ==
  ASSUME NEW s, job'[s] = job[s], claim'[s] = claim[s]
  PROVE  Allowance(s)' = Allowance(s)
  BY DEF Allowance, IsManual, A, C, D

\* A step that changes no stamp, attempt or request is a stutter: the runs it
\* moves to another job or claim have no attempt yet.
LEMMA MapStutters ==
  ASSUME TypeOK, AttemptInv, StampsSame, UNCHANGED <<attempt, sent>>,
         \A s \in Runs :
            attempt[s] # 0 => job'[s] = job[s] /\ claim'[s] = claim[s]
  PROVE  UNCHANGED Abstract!vars
  <1>1. \A s \in Runs : attempt[s] # 0 => Allowance(s)' = Allowance(s)
    BY AllowanceSame
  <1>2. \A s \in sent : s \in Runs /\ attempt[s] # 0
    BY DEF TypeOK, AttemptInv, RunStamps
  <1>3. GrantedAttempts' = GrantedAttempts
    BY <1>1 DEF GrantedAttempts
  <1>4. SentRequests' = SentRequests
    BY <1>1, <1>2 DEF SentRequests
  <1> QED
    BY <1>3, <1>4, SpentSame DEF Abstract!vars

LEMMA MarkDailySpends ==
  ASSUME DatabaseTypeOK, NEW t \in Runs, NEW c \in Connections, NEW e \in Nat,
         NEW d \in Days, MarkDaily(t, c, e, d)
  PROVE  SpentAllowances' = SpentAllowances \cup {<<"daily", c, d>>}
  <1>1. lastMark + 1 # 0 /\ UNCHANGED manual
    BY DEF MarkDaily, DatabaseTypeOK
  <1>2. \A x \in Connections, y \in Days :
           daily'[x][y].stamp =
              IF x = c /\ y = d THEN lastMark + 1 ELSE daily[x][y].stamp
    <2> DEFINE row == [daily[c][d] EXCEPT !.stamp = lastMark + 1]
    <2>1. row.stamp = lastMark + 1
      BY RowTypes DEF DailyRow
    <2>2. daily' = [daily EXCEPT ![c][d] = row]
      BY DEF MarkDaily
    <2> HIDE DEF row
    <2> QED
      BY <2>1, <2>2 DEF DatabaseTypeOK
  <1>3. {k \in DailyAllowances : daily'[k[2]][k[3]].stamp # 0} =
        {k \in DailyAllowances : daily[k[2]][k[3]].stamp # 0}
           \cup {<<"daily", c, d>>}
    BY <1>1, <1>2 DEF DailyAllowances
  <1> QED
    BY <1>1, <1>3 DEF SpentAllowances, DailyAllowances, ManualAllowances

LEMMA MarkManualSpends ==
  ASSUME DatabaseTypeOK, NEW t \in Runs, NEW c \in Connections, NEW e \in Nat,
         NEW a \in Accounts, NEW d \in Days, MarkManual(t, c, e, a, d)
  PROVE  SpentAllowances' = SpentAllowances \cup {<<"manual", a, d>>}
  <1>1. lastMark + 1 # 0 /\ UNCHANGED daily
    BY DEF MarkManual, DatabaseTypeOK
  <1>2. \A x \in Accounts, y \in Days :
           manual'[x][y].stamp =
              IF x = a /\ y = d THEN lastMark + 1 ELSE manual[x][y].stamp
    <2> DEFINE row == [manual[a][d] EXCEPT !.status = "requesting",
                                           !.stamp = lastMark + 1]
    <2>1. row.stamp = lastMark + 1
      BY RowTypes DEF ManualRow
    <2>2. manual' = [manual EXCEPT ![a][d] = row]
      BY DEF MarkManual
    <2> HIDE DEF row
    <2> QED
      BY <2>1, <2>2 DEF DatabaseTypeOK
  <1>3. {k \in ManualAllowances : manual'[k[2]][k[3]].stamp # 0} =
        {k \in ManualAllowances : manual[k[2]][k[3]].stamp # 0}
           \cup {<<"manual", a, d>>}
    BY <1>1, <1>2 DEF ManualAllowances
  <1> QED
    BY <1>1, <1>3 DEF SpentAllowances, DailyAllowances, ManualAllowances

LEMMA MarkMaps ==
  ASSUME TypeOK, AttemptInv, NEW r \in Runs, MarkStorefrontAttempt(r)
  PROVE  Abstract!Spend(Allowance(r))
  <1>1. /\ RowStamp(r) = 0 /\ attempt[r] = 0
        /\ lastMark + 1 # 0
    BY MarkStep DEF AttemptInv, RunStamps, TypeOK, DatabaseTypeOK
  <1>2. Allowance(r) \in (DailyAllowances \cup ManualAllowances) \ SpentAllowances
    BY <1>1, AllowanceTypes
  <1>3. SpentAllowances' = SpentAllowances \cup {Allowance(r)}
    <2>1. /\ DatabaseTypeOK /\ C(r) \in Connections /\ E(r) \in Nat
          /\ D(r) \in Days /\ A(r) \in Accounts
      BY RunTypes DEF TypeOK
    <2>2. CASE ~IsManual(r) /\ MarkDaily(r, C(r), E(r), D(r))
      BY <2>1, <2>2, MarkDailySpends DEF Allowance
    <2>3. CASE IsManual(r) /\ MarkManual(r, C(r), E(r), A(r), D(r))
      BY <2>1, <2>3, MarkManualSpends DEF Allowance
    <2> QED
      BY <2>2, <2>3 DEF MarkStorefrontAttempt
  <1>4. UNCHANGED <<job, claim, sent>>
    BY DEF MarkStorefrontAttempt
  <1>5. \A s \in Runs : Allowance(s)' = Allowance(s)
    BY <1>4, AllowanceSame
  <1>6. SentRequests' = SentRequests
    BY <1>4, <1>5 DEF SentRequests, TypeOK
  <1>7. \/ GrantedAttempts' = GrantedAttempts \cup {<<r, Allowance(r)>>}
        \/ GrantedAttempts' = GrantedAttempts
    <2>1. CASE attempt' = attempt
      BY <1>5, <2>1 DEF GrantedAttempts
    <2>2. CASE attempt' = [attempt EXCEPT ![r] = lastMark + 1]
      <3>1. \A s \in Runs : attempt'[s] # 0 <=> (s = r \/ attempt[s] # 0)
        BY <1>1, <2>2 DEF TypeOK
      <3> QED
        BY <1>5, <3>1 DEF GrantedAttempts
    <2> QED
      BY <2>1, <2>2 DEF MarkStorefrontAttempt
  <1> QED
    BY <1>2, <1>3, <1>6, <1>7 DEF Abstract!Spend

LEMMA SendMaps ==
  ASSUME TypeOK, AttemptInv, NEW r \in Runs, GetStore(r)
  PROVE  [Abstract!Next]_Abstract!vars
  <1>1. attempt[r] # 0
    BY DEF GetStore, AttemptInv, RunStamps
  <1>2. UNCHANGED <<job, claim, attempt>> /\ sent' = sent \cup {r}
    BY DEF GetStore
  <1>3. \A s \in Runs : Allowance(s)' = Allowance(s)
    BY <1>2, AllowanceSame
  <1>4. GrantedAttempts' = GrantedAttempts
    BY <1>2, <1>3 DEF GrantedAttempts
  <1>5. SentRequests' = SentRequests \cup {<<r, Allowance(r)>>}
    BY <1>2, <1>3 DEF SentRequests, TypeOK
  <1>6. SpentAllowances' = SpentAllowances
    BY UnstampedStep, SpentSame DEF AttemptInv
  <1>7. <<r, Allowance(r)>> \in GrantedAttempts
    BY <1>1 DEF GrantedAttempts
  <1>8. CASE <<r, Allowance(r)>> \in SentRequests
    BY <1>4, <1>5, <1>6, <1>8 DEF Abstract!vars
  <1>9. CASE <<r, Allowance(r)>> \notin SentRequests
    BY <1>4, <1>5, <1>6, <1>7, <1>9 DEF Abstract!Next, Abstract!Send
  <1> QED
    BY <1>8, <1>9

LEMMA ProceedMaps ==
  ASSUME TypeOK, AttemptInv, NEW r \in Runs, Proceed(r) \/ Crash(r)
  PROVE  [Abstract!Next]_Abstract!vars
  <1>1. CASE MarkStorefrontAttempt(r)
    BY <1>1, MarkMaps, AllowanceTypes DEF Abstract!Next
  <1>2. CASE GetStore(r)
    BY <1>2, SendMaps
  <1>3. CASE TakeDaily(r) \/ TakeManual(r)
    <2>1. StampsSame
      BY <1>3, ClaimedStep DEF AttemptInv
    <2>2. attempt[r] = 0
      BY <1>3 DEF TakeDaily, TakeManual, At, AttemptInv, RunStamps, Unclaimed
    <2>3. /\ UNCHANGED <<job, attempt, sent>>
          /\ \A s \in Runs \ {r} : claim'[s] = claim[s]
      BY <1>3 DEF TakeDaily, TakeManual, TypeOK
    <2> QED
      BY <2>1, <2>2, <2>3, MapStutters
  <1>4. CASE FailRetry(r) \/ FailAmbiguous(r) \/ Close(r) \/ Record(r)
    <2>1. StampsSame
      BY <1>4, ClaimedStep DEF AttemptInv
    <2>2. UNCHANGED <<job, claim, attempt, sent>>
      BY <1>4 DEF FailRetry, FailAmbiguous, Close, Record, local
    <2> QED
      BY <2>1, <2>2, MapStutters
  <1>5. ASSUME StampsSame, UNCHANGED <<job, claim, attempt, sent>>
        PROVE  [Abstract!Next]_Abstract!vars
    BY <1>5, MapStutters
  <1>6. CASE \/ Acquire(r) \/ AcquireRefused(r) \/ ClaimRefused(r)
             \/ Load(r) \/ LoadMissing(r) \/ Renew(r) \/ RenewRefused(r)
             \/ Refresh(r) \/ RefreshFails(r) \/ Persist(r)
             \/ PersistRefused(r) \/ Prepare(r) \/ MarkRefused(r)
             \/ StoreReceived(r) \/ StoreRejected(r) \/ StoreAmbiguous(r)
    <2>1. UNCHANGED <<job, claim, attempt, sent>>
      BY <1>6 DEF Acquire, AcquireRefused, ClaimRefused, Load, LoadMissing,
                  Renew, RenewRefused, Refresh, RefreshFails, Persist,
                  PersistRefused, Prepare, MarkRefused, StoreReceived,
                  StoreRejected, StoreAmbiguous, local
    <2> QED
      BY <1>5, <1>6, <2>1, UnstampedStep DEF AttemptInv
  <1>7. CASE \/ Lifecycle(r) \/ LifecycleStale(r) \/ CloseRefused(r)
             \/ SendExpiry(r) \/ Release(r) \/ Healthy(r) \/ HealthyStale(r)
             \/ CanonicalizeFails(r) \/ RecordReplayed(r)
             \/ RecordRefused(r) \/ Extras(r) \/ ResolvePuuid(r)
             \/ Enrich(r) \/ PipelineFails(r) \/ EnrichRefused(r)
             \/ CallFails(r) \/ RecordCallFails(r) \/ Crash(r)
    <2>1. UNCHANGED <<job, claim, attempt, sent>>
      BY <1>7 DEF Lifecycle, LifecycleStale, CloseRefused, SendExpiry,
                  Release, Healthy, HealthyStale, CanonicalizeFails,
                  RecordReplayed, RecordRefused, Extras, ResolvePuuid, Enrich,
                  PipelineFails, EnrichRefused, CallFails, RecordCallFails,
                  Crash, local
    <2> QED
      BY <1>5, <1>7, <2>1, UnstampedStep DEF AttemptInv
  <1> QED
    BY <1>1, <1>2, <1>3, <1>4, <1>6, <1>7 DEF Proceed

LEMMA InitMaps == Init => Abstract!Init
  <1> SUFFICES ASSUME Init PROVE Abstract!Init
    OBVIOUS
  <1>1. \A s \in Runs : attempt[s] = 0
    BY DEF Init
  <1>2. SpentAllowances = {}
    BY DEF Init, DatabaseInit, SpentAllowances, DailyAllowances,
           ManualAllowances, NoDaily, NoManual
  <1>3. GrantedAttempts = {} /\ SentRequests = {}
    BY <1>1 DEF Init, GrantedAttempts, SentRequests
  <1> QED
    BY <1>2, <1>3 DEF Abstract!Init

LEMMA NextMaps ==
  TypeOK /\ AttemptInv /\ [Next]_vars => [Abstract!Next]_Abstract!vars
  <1> SUFFICES ASSUME TypeOK, AttemptInv, [Next]_vars
               PROVE  [Abstract!Next]_Abstract!vars
    OBVIOUS
  <1>1. ASSUME NEW r \in Runs, NEW c \in Connections, NEW t \in Triggers,
               Start(r, c, t)
        PROVE  [Abstract!Next]_Abstract!vars
    <2>1. StampsSame
      BY <1>1, StampsUnchanged DEF Start, dbVars, AttemptInv
    <2>2. attempt[r] = 0
      BY <1>1 DEF Start, At, AttemptInv, RunStamps, Unclaimed
    <2>3. /\ UNCHANGED <<claim, attempt, sent>>
          /\ \A s \in Runs \ {r} : job'[s] = job[s]
      BY <1>1 DEF Start, TypeOK
    <2> QED
      BY <2>1, <2>2, <2>3, MapStutters
  <1>2. ASSUME NEW r \in Runs, Proceed(r) \/ Crash(r)
        PROVE  [Abstract!Next]_Abstract!vars
    BY <1>2, ProceedMaps
  <1>3. CASE Environment /\ UNCHANGED workerVars
    BY <1>3, EnvironmentStamps, MapStutters DEF workerVars, AttemptInv
  <1>4. CASE UNCHANGED vars
    <2>1. StampsSame
      BY <1>4, StampsUnchanged DEF vars, dbVars, AttemptInv
    <2> QED
      BY <1>4, <2>1, MapStutters DEF vars, workerVars
  <1> QED
    BY <1>1, <1>2, <1>3, <1>4 DEF Next

\* Every behaviour of the worker, with its crashes, lost responses, timeouts,
\* reconnects and disconnects, is a behaviour of the allowance.
THEOREM Refinement == Spec => ImplementsAllowance
  BY InitMaps, NextMaps, AttemptInvariant, PTL
     DEF Spec, ImplementsAllowance, Abstract!Spec

-----------------------------------------------------------------------------
(* What the abstract specification promises.                                *)

LEMMA GrantInvInductive ==
  Abstract!GrantInv /\ [Abstract!Next]_Abstract!vars => Abstract!GrantInv'
  <1> SUFFICES ASSUME Abstract!GrantInv, [Abstract!Next]_Abstract!vars
               PROVE  Abstract!GrantInv'
    OBVIOUS
  <1>1. ASSUME NEW k \in DailyAllowances \cup ManualAllowances,
               Abstract!Spend(k)
        PROVE  Abstract!GrantInv'
    BY <1>1 DEF Abstract!GrantInv, Abstract!Spend
  <1>2. ASSUME NEW p \in GrantedAttempts, Abstract!Send(p)
        PROVE  Abstract!GrantInv'
    BY <1>2 DEF Abstract!GrantInv, Abstract!Send
  <1>3. CASE UNCHANGED Abstract!vars
    BY <1>3 DEF Abstract!GrantInv, Abstract!vars
  <1> QED
    BY <1>1, <1>2, <1>3 DEF Abstract!Next

\* The abstract allowance pays for one request at most, so by Refinement the
\* worker sends at most one for it.
THEOREM AllowancePaysOnce ==
  ImplementsAllowance => []Abstract!OncePerAllowance
  <1>1. Abstract!Init => Abstract!GrantInv
    BY DEF Abstract!Init, Abstract!GrantInv
  <1>2. Abstract!GrantInv => Abstract!OncePerAllowance
    BY DEF Abstract!GrantInv, Abstract!OncePerAllowance
  <1> QED
    BY <1>1, <1>2, GrantInvInductive, PTL DEF ImplementsAllowance, Abstract!Spec

-----------------------------------------------------------------------------
(***************************************************************************)
(* The storefront fence: once a lease carries an attempt, only the run     *)
(* that made it can settle it, and nobody else can start a request for the *)
(* same session on the same store day.                                     *)
(***************************************************************************)

(* What a step may do to a lease with an attempt.                           *)

\* FenceClearing, for one step.
FenceKept ==
    \A c \in Connections :
       lease[c].attempted # 0 /\ lease'[c] # lease[c] =>
          \/ lease[c].day < today
          \/ conn'[c].epoch # conn[c].epoch
          \/ conn'[c].state = "deleted"
          \/ /\ lease'[c] = NoLease
             /\ \E r \in Runs :
                  lease[c].token = r /\ pc[r] \in {"close", "record"}

\* A row never gets back to an earlier epoch or out of its grave.
RowsKept ==
    \A c \in Connections :
       /\ conn[c].state # "absent" =>
            /\ conn'[c].state # "absent"
            /\ conn'[c].epoch >= conn[c].epoch
            /\ conn'[c].state = "live" => conn[c].state = "live"

FenceSafe == FenceKept /\ LeaseShape' /\ RowsKept

LEMMA FenceUntouched ==
  ASSUME TypeOK, LeaseShape, UNCHANGED <<conn, lease>>
  PROVE  FenceSafe
  <1>1. \A c \in Connections : conn[c].epoch \in Nat
    BY RowTypes DEF TypeOK, ConnectionRow
  <1> QED
    BY <1>1 DEF FenceSafe, FenceKept, LeaseShape, RowsKept

\* An update of one row that keeps its state and epoch.
LEMMA RowUpdateFence ==
  ASSUME TypeOK, LeaseShape, UNCHANGED lease,
         NEW c \in Connections, NEW row, conn' = [conn EXCEPT ![c] = row],
         row.state = conn[c].state, row.epoch = conn[c].epoch
  PROVE  FenceSafe
  <1>1. \A x \in Connections : conn[x].epoch \in Nat
    BY RowTypes DEF TypeOK, ConnectionRow
  <1>2. \A x \in Connections : conn'[x] = IF x = c THEN row ELSE conn[x]
    BY DEF TypeOK, DatabaseTypeOK
  <1> QED
    BY <1>1, <1>2 DEF FenceSafe, FenceKept, LeaseShape, RowsKept

\* A change of one lease that has no attempt, or that may be replaced.
LEMMA LeaseUpdateFence ==
  ASSUME TypeOK, LeaseShape, UNCHANGED conn,
         NEW c \in Connections, NEW row, lease' = [lease EXCEPT ![c] = row],
         row.token = NoRun => row.attempted = 0,
         \/ lease[c].attempted = 0 \/ lease[c].day < today
         \/ row = NoLease /\ \E r \in Runs : lease[c].token = r
                                              /\ pc[r] \in {"close", "record"}
  PROVE  FenceSafe
  <1>1. \A x \in Connections : conn[x].epoch \in Nat
    BY RowTypes DEF TypeOK, ConnectionRow
  <1>2. \A x \in Connections : lease'[x] = IF x = c THEN row ELSE lease[x]
    BY DEF TypeOK, DatabaseTypeOK
  <1> QED
    BY <1>1, <1>2 DEF FenceSafe, FenceKept, LeaseShape, RowsKept

LEMMA LeaseOperations ==
  ASSUME TypeOK, LeaseShape, NEW r \in Runs, NEW c \in Connections, NEW e \in Nat,
         \/ ClaimRotation(r, c, e) \/ RenewRotation(r, c, e)
         \/ ReleaseRotation(r, c, e)
  PROVE  FenceSafe
  <1>1. UNCHANGED conn /\ r # NoRun
    BY RunsAssumption DEF ClaimRotation, RenewRotation, ReleaseRotation
  <1>2. NoLease.token = NoRun => NoLease.attempted = 0
    BY DEF NoLease
  <1>3. CASE ClaimRotation(r, c, e)
    <2> DEFINE row == [token |-> r, at |-> now, day |-> today, attempted |-> 0]
    <2>1. lease' = [lease EXCEPT ![c] = row] /\ row.attempted = 0
      BY <1>3 DEF ClaimRotation
    <2>2. lease[c].attempted = 0 \/ lease[c].day < today
      BY <1>3 DEF ClaimRotation, RotationClaimable, LeaseShape
    <2> HIDE DEF row
    <2> QED
      BY <1>1, <2>1, <2>2, LeaseUpdateFence
  <1>4. CASE RenewRotation(r, c, e)
    <2> DEFINE row == [lease[c] EXCEPT !.at = now]
    <2>1. lease' = [lease EXCEPT ![c] = row]
      BY <1>4 DEF RenewRotation
    <2>2. row.attempted = lease[c].attempted
      BY RowTypes DEF TypeOK, LeaseColumns
    <2>3. lease[c].attempted = 0
      BY <1>4 DEF RenewRotation, RotationRenewable, HoldsToday,
                  HoldsUnattempted
    <2> HIDE DEF row
    <2> QED
      BY <1>1, <2>1, <2>2, <2>3, LeaseUpdateFence
  <1>5. CASE ReleaseRotation(r, c, e)
    <2>1. CASE HoldsUnattempted(r, c, e)
      BY <1>1, <1>2, <1>5, <2>1, LeaseUpdateFence
         DEF ReleaseRotation, HoldsUnattempted
    <2>2. CASE UNCHANGED lease
      BY <1>1, <2>2, FenceUntouched
    <2> QED
      BY <1>5, <2>1, <2>2 DEF ReleaseRotation
  <1> QED
    BY <1>3, <1>4, <1>5

LEMMA MarkFence ==
  ASSUME TypeOK, LeaseShape, NEW r \in Runs, MarkStorefrontAttempt(r)
  PROVE  /\ FenceSafe
         /\ Current(C(r), E(r)) /\ lease[C(r)].token = r
         /\ lease[C(r)].attempted = 0 /\ lease[C(r)].day = today
         /\ D(r) = today /\ UNCHANGED <<conn, today>>
         /\ lease'[C(r)].token = r /\ lease'[C(r)].attempted # 0
         /\ lease'[C(r)].day = today
  <1> DEFINE c == C(r)
             row == [lease[c] EXCEPT !.attempted = lastMark + 1]
  <1>1. c \in Connections /\ lease \in [Connections -> LeaseColumns]
    BY RunTypes DEF TypeOK, DatabaseTypeOK
  <1>2. /\ row.token = lease[c].token /\ row.day = lease[c].day
        /\ row.attempted = lastMark + 1
    BY <1>1 DEF LeaseColumns
  <1>3. lastMark + 1 # 0
    BY DEF TypeOK, DatabaseTypeOK
  <1>4. /\ lease' = [lease EXCEPT ![c] = row]
        /\ HoldsToday(r, c, E(r)) /\ D(r) = today /\ UNCHANGED <<conn, today>>
    BY DEF MarkStorefrontAttempt, MarkDaily, MarkManual, DailyMarkable,
           ManualMarkable
  <1>5. /\ Current(c, E(r)) /\ lease[c].token = r /\ lease[c].attempted = 0
        /\ lease[c].day = today
    BY <1>4 DEF HoldsToday, HoldsUnattempted
  <1>6. lease'[c] = row
    BY <1>1, <1>4
  <1>7. r # NoRun
    BY RunsAssumption
  <1> HIDE DEF row
  <1>8. FenceSafe
    BY <1>1, <1>2, <1>4, <1>5, <1>7, LeaseUpdateFence
  <1> QED
    BY <1>2, <1>3, <1>4, <1>5, <1>6, <1>8

\* Only the run that made the attempt closes or records it.
LEMMA SettleFence ==
  ASSUME TypeOK, LeaseShape, NEW r \in Runs, Close(r) \/ Record(r)
  PROVE  FenceSafe
  <1>1. C(r) \in Connections
    BY RunTypes
  <1>2. /\ UNCHANGED conn /\ lease' = [lease EXCEPT ![C(r)] = NoLease]
        /\ lease[C(r)].token = r
    BY DEF Close, Record, RecordEffect, CloseDaily, CloseManual, RecordDaily,
           RecordManual, DailyClosable, ManualClosable, OwnsRecordedAttempt,
           OwnsAttempt
  <1>3. pc[r] \in {"close", "record"}
    BY DEF Close, Record, At
  <1>4. NoLease.attempted = 0
    BY DEF NoLease
  <1> QED
    BY <1>1, <1>2, <1>3, <1>4, LeaseUpdateFence

\* The writes of a connection row keep its state and epoch.
LEMMA RowOperations ==
  ASSUME TypeOK, LeaseShape, NEW r \in Runs,
         \/ Persist(r) \/ Lifecycle(r) \/ Healthy(r) \/ ResolvePuuid(r)
  PROVE  FenceSafe
  <1>1. C(r) \in Connections /\ conn[C(r)] \in ConnectionRow
    BY RunTypes, RowTypes DEF TypeOK
  <1>2. \A j : /\ [conn[C(r)] EXCEPT !.jar = j].state = conn[C(r)].state
               /\ [conn[C(r)] EXCEPT !.jar = j].epoch = conn[C(r)].epoch
               /\ [conn[C(r)] EXCEPT !.puuid = j].state = conn[C(r)].state
               /\ [conn[C(r)] EXCEPT !.puuid = j].epoch = conn[C(r)].epoch
    BY <1>1 DEF ConnectionRow
  <1>3. \A f, result :
           /\ CheckedRow(conn[C(r)], f, result).state = conn[C(r)].state
           /\ CheckedRow(conn[C(r)], f, result).epoch = conn[C(r)].epoch
    BY <1>1 DEF CheckedRow, ConnectionRow
  <1>4. CASE Persist(r)
    BY <1>1, <1>2, <1>4, RowUpdateFence DEF Persist, PersistRotated
  <1>5. CASE Lifecycle(r) \/ Healthy(r)
    BY <1>1, <1>3, <1>5, RowUpdateFence DEF Lifecycle, Healthy, ApplyLifecycle
  <1>6. CASE ResolvePuuid(r)
    BY <1>1, <1>2, <1>6, RowUpdateFence, FenceUntouched
       DEF ResolvePuuid, PersistPuuid, dbVars
  <1> QED
    BY <1>4, <1>5, <1>6

LEMMA EnvironmentFence ==
  ASSUME TypeOK, LeaseShape, Environment
  PROVE  FenceSafe
  <1>1. /\ conn \in [Connections -> ConnectionRow]
        /\ lease \in [Connections -> LeaseColumns]
        /\ \A x \in Connections : conn[x].epoch \in Nat
    BY RowTypes DEF TypeOK, DatabaseTypeOK, ConnectionRow
  <1>2. NoLease.attempted = 0
    BY DEF NoLease
  <1>3. CASE Tick \/ Midnight
    BY <1>3, FenceUntouched DEF Tick, Midnight
  <1>4. ASSUME NEW c \in Connections, Disconnect(c) PROVE FenceSafe
    <2>1. /\ conn[c].state = "live" /\ conn'[c].state = "deleted"
          /\ conn'[c].epoch = conn[c].epoch
      BY <1>1, <1>4 DEF Disconnect, Live, ConnectionRow
    <2>2. /\ lease'[c] = NoLease
          /\ \A x \in Connections \ {c} :
               lease'[x] = lease[x] /\ conn'[x] = conn[x]
      BY <1>1, <1>4 DEF Disconnect
    <2> QED
      BY <1>1, <1>2, <2>1, <2>2
         DEF FenceSafe, FenceKept, LeaseShape, RowsKept
  <1>5. ASSUME NEW c \in Connections, NEW a \in Accounts, NEW p, Connect(c, a, p)
        PROVE  FenceSafe
    <2>1. conn[c].state = "absent" /\ UNCHANGED lease
      BY <1>5 DEF Connect
    <2>2. \A x \in Connections \ {c} : conn'[x] = conn[x]
      BY <1>1, <1>5 DEF Connect
    <2> QED
      BY <1>1, <2>1, <2>2 DEF FenceSafe, FenceKept, LeaseShape, RowsKept
  <1>6. ASSUME NEW c \in Connections, NEW a \in Accounts, NEW p,
               Reconnect(c, a, p)
        PROVE  FenceSafe
    <2>1. /\ conn[c].state = "live" /\ conn'[c].state = "live"
          /\ conn'[c].epoch = conn[c].epoch + 1
      BY <1>1, <1>6 DEF Reconnect, Live, ReconnectedRow
    <2>2. /\ lease'[c] = NoLease
          /\ \A x \in Connections \ {c} :
               lease'[x] = lease[x] /\ conn'[x] = conn[x]
      BY <1>1, <1>6 DEF Reconnect
    <2> QED
      BY <1>1, <1>2, <2>1, <2>2
         DEF FenceSafe, FenceKept, LeaseShape, RowsKept
  <1> QED
    BY <1>3, <1>4, <1>5, <1>6 DEF Environment

\* The steps that touch neither a lease nor a connection row.
LEMMA OtherFence ==
  ASSUME TypeOK, LeaseShape, NEW r \in Runs,
         \/ AcquireRefused(r) \/ TakeDaily(r) \/ TakeManual(r)
         \/ ClaimRefused(r) \/ Load(r) \/ LoadMissing(r) \/ RenewRefused(r)
         \/ Refresh(r) \/ RefreshFails(r) \/ PersistRefused(r) \/ Prepare(r)
         \/ MarkRefused(r) \/ GetStore(r) \/ StoreReceived(r)
         \/ StoreRejected(r) \/ StoreAmbiguous(r) \/ LifecycleStale(r)
         \/ FailRetry(r) \/ FailAmbiguous(r) \/ CloseRefused(r)
         \/ SendExpiry(r) \/ HealthyStale(r) \/ CanonicalizeFails(r)
         \/ RecordReplayed(r) \/ RecordRefused(r) \/ Extras(r) \/ Enrich(r)
         \/ PipelineFails(r) \/ EnrichRefused(r)
         \/ CallFails(r) \/ RecordCallFails(r) \/ Crash(r)
  PROVE  FenceSafe /\ UNCHANGED <<conn, lease, today>>
  <1>1. ASSUME NEW next, Answer(r, next) PROVE UNCHANGED <<conn, lease, today>>
    BY <1>1 DEF Answer, dbVars
  <1>2. CASE \/ AcquireRefused(r) \/ ClaimRefused(r) \/ Load(r)
             \/ LoadMissing(r) \/ RenewRefused(r) \/ RefreshFails(r)
             \/ PersistRefused(r) \/ Prepare(r) \/ MarkRefused(r)
             \/ GetStore(r) \/ StoreReceived(r) \/ StoreRejected(r)
             \/ StoreAmbiguous(r) \/ LifecycleStale(r) \/ CloseRefused(r)
             \/ SendExpiry(r) \/ HealthyStale(r) \/ CanonicalizeFails(r)
             \/ RecordReplayed(r) \/ RecordRefused(r) \/ PipelineFails(r)
             \/ EnrichRefused(r)
    <2>1. UNCHANGED <<conn, lease, today>>
      BY <1>1, <1>2
         DEF AcquireRefused, ClaimRefused, Load, LoadMissing, RenewRefused,
             RefreshFails, PersistRefused, Prepare, MarkRefused, GetStore,
             StoreReceived, StoreRejected, StoreAmbiguous, LifecycleStale,
             CloseRefused, SendExpiry, HealthyStale, CanonicalizeFails,
             RecordReplayed, RecordRefused, PipelineFails, EnrichRefused
    <2> QED
      BY <2>1, FenceUntouched
  <1>3. CASE \/ TakeDaily(r) \/ TakeManual(r) \/ Refresh(r) \/ FailRetry(r)
             \/ FailAmbiguous(r) \/ Extras(r) \/ Enrich(r)
             \/ CallFails(r) \/ RecordCallFails(r) \/ Crash(r)
    <2>1. UNCHANGED <<conn, lease, today>>
      BY <1>3
         DEF TakeDaily, TakeManual, Refresh, FailRetry, FailAmbiguous, Extras,
             Enrich, CallFails, RecordCallFails, Crash, ClaimDaily,
             ClaimManual, FailManualRetryable, FailManualFinal, WriteExtras,
             EnrichShop, dbVars
    <2> QED
      BY <2>1, FenceUntouched
  <1> QED
    BY <1>2, <1>3

LEMMA ProceedFence ==
  ASSUME TypeOK, LeaseShape, NEW r \in Runs, Proceed(r) \/ Crash(r)
  PROVE  FenceSafe /\ UNCHANGED today
  <1>1. CASE Acquire(r) \/ Renew(r) \/ Release(r)
    <2>1. C(r) \in Connections /\ E(r) \in Nat
      BY RunTypes
    <2> QED
      BY <1>1, <2>1, LeaseOperations
         DEF Acquire, Renew, Release, ClaimRotation, RenewRotation,
             ReleaseRotation
  <1>2. CASE MarkStorefrontAttempt(r)
    BY <1>2, MarkFence
  <1>3. CASE Close(r) \/ Record(r)
    BY <1>3, SettleFence
       DEF Close, Record, RecordEffect, CloseDaily, CloseManual, RecordDaily,
           RecordManual
  <1>4. CASE Persist(r) \/ Lifecycle(r) \/ Healthy(r) \/ ResolvePuuid(r)
    BY <1>4, RowOperations
       DEF Persist, Lifecycle, Healthy, ResolvePuuid, PersistRotated,
           ApplyLifecycle, PersistPuuid, dbVars
  <1> QED
    BY <1>1, <1>2, <1>3, <1>4, OtherFence DEF Proceed

LEMMA NextFence == TypeOK /\ LeaseShape /\ [Next]_vars => FenceSafe
  <1> SUFFICES ASSUME TypeOK, LeaseShape, [Next]_vars PROVE FenceSafe
    OBVIOUS
  <1>1. ASSUME NEW r \in Runs, NEW c \in Connections, NEW t \in Triggers,
               Start(r, c, t)
        PROVE  FenceSafe
    BY <1>1, FenceUntouched DEF Start, dbVars
  <1>2. CASE UNCHANGED vars
    BY <1>2, FenceUntouched DEF vars, dbVars
  <1> QED
    BY <1>1, <1>2, ProceedFence, EnvironmentFence DEF Next

LEMMA InitShape == Init => LeaseShape
  BY DEF Init, DatabaseInit, LeaseShape, NoLease

\* The lease columns keep their shape: no attempt without a token.
THEOREM LeaseShapeInvariant == Spec => [](TypeOK /\ LeaseShape)
  <1>1. TypeOK /\ LeaseShape /\ [Next]_vars => (TypeOK /\ LeaseShape)'
    BY NextType, NextFence DEF FenceSafe
  <1> QED
    BY <1>1, InitType, InitShape, PTL DEF Spec

\* An attempted lease is cleared only by its own run's close or record, on a
\* later store day, or by a reconnect or disconnect.
THEOREM FenceClears == Spec => FenceClearing
  <1>1. TypeOK /\ LeaseShape /\ [Next]_vars
          => [\A c \in Connections :
                lease[c].attempted # 0 /\ lease'[c] # lease[c] =>
                   \/ lease[c].day < today
                   \/ conn'[c].epoch # conn[c].epoch
                   \/ conn'[c].state = "deleted"
                   \/ /\ lease'[c] = NoLease
                      /\ \E r \in Runs :
                           lease[c].token = r /\ pc[r] \in {"close", "record"}]_vars
    BY NextFence DEF FenceSafe, FenceKept
  <1> QED
    BY <1>1, LeaseShapeInvariant, PTL DEF Spec, FenceClearing

-----------------------------------------------------------------------------
(* The outcome of an attempt steers the rest of the run.                    *)

HandledSame == \A s \in Runs : ctl'[s].handled = ctl[s].handled

LEMMA ControlUpdate ==
  ASSUME TypeOK, NEW r \in Runs, NEW v, NEW n,
         \/ UNCHANGED ctl
         \/ ctl' = [ctl EXCEPT ![r].held = v]
         \/ ctl' = [ctl EXCEPT ![r].terminal = v]
         \/ ctl' = [ctl EXCEPT ![r].healthy = v]
         \/ ctl' = [ctl EXCEPT ![r].result = v]
         \/ ctl' = [ctl EXCEPT ![r].tries = v]
         \/ ctl' = [ctl EXCEPT ![r] = [@ EXCEPT !.held = v, !.tries = n]]
  PROVE  HandledSame
  <1>1. ctl \in [Runs -> Control] /\ ctl[r] \in Control
    BY DEF TypeOK
  <1>2. \A s \in Runs \ {r} : ctl'[s] = ctl[s]
    BY <1>1
  <1>3. ctl'[r].handled = ctl[r].handled
    <2>1. CASE UNCHANGED ctl
      BY <2>1
    <2>2. CASE ctl' = [ctl EXCEPT ![r].held = v]
      BY <1>1, <2>2 DEF Control
    <2>3. CASE ctl' = [ctl EXCEPT ![r].terminal = v]
      BY <1>1, <2>3 DEF Control
    <2>4. CASE ctl' = [ctl EXCEPT ![r].healthy = v]
      BY <1>1, <2>4 DEF Control
    <2>5. CASE ctl' = [ctl EXCEPT ![r].result = v]
      BY <1>1, <2>5 DEF Control
    <2>6. CASE ctl' = [ctl EXCEPT ![r].tries = v]
      BY <1>1, <2>6 DEF Control
    <2>7. CASE ctl' = [ctl EXCEPT ![r] = [@ EXCEPT !.held = v, !.tries = n]]
      BY <1>1, <2>7 DEF Control
    <2> QED
      BY <2>1, <2>2, <2>3, <2>4, <2>5, <2>6, <2>7
  <1> QED
    BY <1>2, <1>3 DEF HandledSame

\* Only a rejected storefront request counts as handled.
LEMMA HandledUnchanged ==
  ASSUME TypeOK, NEW r \in Runs, Proceed(r) \/ Crash(r)
  PROVE  HandledSame \/ StoreRejected(r)
  <1>1. CASE \/ AcquireRefused(r) \/ TakeDaily(r) \/ TakeManual(r)
             \/ ClaimRefused(r) \/ Load(r) \/ LoadMissing(r) \/ Renew(r)
             \/ RenewRefused(r) \/ Refresh(r) \/ Persist(r)
             \/ PersistRefused(r) \/ Prepare(r) \/ MarkStorefrontAttempt(r)
             \/ MarkRefused(r) \/ GetStore(r) \/ StoreReceived(r)
             \/ StoreAmbiguous(r) \/ LifecycleStale(r) \/ FailRetry(r)
             \/ CloseRefused(r) \/ SendExpiry(r) \/ Release(r)
             \/ HealthyStale(r) \/ CanonicalizeFails(r) \/ Extras(r)
             \/ ResolvePuuid(r) \/ PipelineFails(r) \/ Crash(r)
    <2>1. UNCHANGED ctl
      BY <1>1
         DEF AcquireRefused, TakeDaily, TakeManual, ClaimRefused, Load,
             LoadMissing, Renew, RenewRefused, Refresh, Persist,
             PersistRefused, Prepare, MarkStorefrontAttempt, MarkRefused,
             GetStore, StoreReceived, StoreAmbiguous, LifecycleStale,
             FailRetry, CloseRefused, SendExpiry, Release, HealthyStale,
             CanonicalizeFails, Extras, ResolvePuuid, PipelineFails, Crash
    <2> QED
      BY <2>1 DEF HandledSame
  <1>2. CASE Acquire(r) \/ FailAmbiguous(r) \/ Close(r) \/ CallFails(r)
    <2>1. UNCHANGED ctl \/ \E v : ctl' = [ctl EXCEPT ![r].held = v]
      <3>1. CASE Acquire(r) \/ FailAmbiguous(r) \/ Close(r)
        BY <3>1 DEF Acquire, FailAmbiguous, Close
      <3>2. CASE CallFails(r)
        <4>1. ctl' = [ctl EXCEPT ![r].held =
                        IF At(r, "failAmbiguous") THEN FALSE ELSE ctl[r].held]
          BY <3>2 DEF CallFails
        <4> QED
          BY <4>1
      <3> QED
        BY <1>2, <3>1, <3>2
    <2> QED
      BY <2>1, ControlUpdate
  <1>3. CASE Lifecycle(r) \/ Healthy(r)
    <2>1. \/ UNCHANGED ctl
          \/ \E v : ctl' = [ctl EXCEPT ![r].terminal = v]
          \/ \E v : ctl' = [ctl EXCEPT ![r].healthy = v]
      BY <1>3 DEF Lifecycle, Healthy
    <2> QED
      BY <2>1, ControlUpdate
  <1>4. CASE RefreshFails(r)
    <2>1. \E v : ctl' = [ctl EXCEPT ![r].result = v]
      BY <1>4 DEF RefreshFails
    <2> QED
      BY <2>1, ControlUpdate
  <1>5. CASE \/ Record(r) \/ RecordReplayed(r) \/ RecordRefused(r)
             \/ Enrich(r) \/ EnrichRefused(r) \/ RecordCallFails(r)
    <2>1. \/ ctl' = [ctl EXCEPT ![r].tries = 1]
          \/ ctl' = [ctl EXCEPT ![r] = [@ EXCEPT !.held = FALSE, !.tries = 0]]
      BY <1>5 DEF Record, RecordReplayed, RecordRefused, Enrich,
                  EnrichRefused, RecordCallFails
    <2>2. CASE ctl' = [ctl EXCEPT ![r].tries = 1]
      BY <2>2, ControlUpdate
    <2>3. CASE ctl' = [ctl EXCEPT ![r] = [@ EXCEPT !.held = FALSE, !.tries = 0]]
      BY <2>3, ControlUpdate, Zenon
    <2> QED
      BY <2>1, <2>2, <2>3
  <1> QED
    BY <1>1, <1>2, <1>3, <1>4, <1>5 DEF Proceed

\* A step of one run that leaves the outcome as it is.
LEMMA OutcomesKept ==
  ASSUME TypeOK, Outcomes, HandledSame, NEW r \in Runs, NEW next,
         UNCHANGED <<attempt, uncertain>>, Goto(r, next),
         next \notin {"fetch", "awaiting"},
         ctl[r].handled => next \in HandledSteps,
         r \in uncertain => next \in UncertainSteps
  PROVE  Outcomes'
  <1>1. \A s \in Runs : pc'[s] = IF s = r THEN next ELSE pc[s]
    BY DEF Goto, TypeOK
  <1> QED
    BY <1>1 DEF Outcomes, HandledSame

\* Away from the failure path no outcome is known yet.
LEMMA NoOutcomeYet ==
  ASSUME Outcomes, NEW r \in Runs,
         pc[r] \notin {"lifecycle", "close", "failAmbiguous", "expire",
                      "release", "done", "crashed"}
  PROVE  ~ctl[r].handled /\ r \notin uncertain
  BY DEF Outcomes, HandledSteps, UncertainSteps

LEMMA EarlyOutcomes ==
  ASSUME TypeOK, Outcomes, NEW r \in Runs,
         \/ Acquire(r) \/ AcquireRefused(r) \/ TakeDaily(r) \/ TakeManual(r)
         \/ ClaimRefused(r) \/ Load(r) \/ LoadMissing(r) \/ Renew(r)
         \/ RenewRefused(r) \/ Refresh(r) \/ RefreshFails(r) \/ Persist(r)
         \/ PersistRefused(r) \/ Prepare(r) \/ MarkRefused(r)
         \/ StoreReceived(r) \/ FailRetry(r) \/ Healthy(r) \/ HealthyStale(r)
         \/ CanonicalizeFails(r) \/ Record(r) \/ RecordReplayed(r)
         \/ RecordRefused(r) \/ Extras(r) \/ ResolvePuuid(r) \/ Enrich(r)
         \/ PipelineFails(r) \/ EnrichRefused(r) \/ RecordCallFails(r)
  PROVE  Outcomes'
  <1>1. ~ctl[r].handled /\ r \notin uncertain
    BY NoOutcomeYet
       DEF Acquire, AcquireRefused, TakeDaily, TakeManual, ClaimRefused, Load,
           LoadMissing, Renew, RenewRefused, Refresh, RefreshFails, Persist,
           PersistRefused, Prepare, MarkRefused, StoreReceived, FailRetry,
           Healthy, HealthyStale, CanonicalizeFails, Record, RecordReplayed,
           RecordRefused, Extras, ResolvePuuid, Enrich, PipelineFails,
           EnrichRefused, RecordCallFails, At
  <1>2. UNCHANGED <<attempt, uncertain>>
    BY DEF Acquire, AcquireRefused, TakeDaily, TakeManual, ClaimRefused, Load,
           LoadMissing, Renew, RenewRefused, Refresh, RefreshFails, Persist,
           PersistRefused, Prepare, MarkRefused, StoreReceived, FailRetry,
           Healthy, HealthyStale, CanonicalizeFails, Record, RecordReplayed,
           RecordRefused, Extras, ResolvePuuid, Enrich, PipelineFails,
           EnrichRefused, RecordCallFails, local
  <1>3. PICK next : Goto(r, next) /\ next \notin {"fetch", "awaiting"}
    <2>1. CASE Acquire(r)
      <3>1. OnError(r) \notin {"fetch", "awaiting"}
        BY LaterSteps DEF Later
      <3>2. Goto(r, "claim") \/ Goto(r, OnError(r))
        BY <2>1 DEF Acquire, Reply
      <3> QED
        BY <3>1, <3>2
    <2>2. CASE ~Acquire(r)
      BY <2>2, AnsweredNext, RepliedNext DEF Answer, Later
    <2> QED
      BY <2>1, <2>2
  <1>4. HandledSame
    <2>1. CASE StoreReceived(r)
      BY <2>1 DEF StoreReceived, HandledSame
    <2>2. CASE pc[r] = "awaiting" /\ ~StoreReceived(r)
      BY <2>2
         DEF Acquire, AcquireRefused, TakeDaily, TakeManual, ClaimRefused,
             Load, LoadMissing, Renew, RenewRefused, Refresh, RefreshFails,
             Persist, PersistRefused, Prepare, MarkRefused, FailRetry,
             Healthy, HealthyStale, CanonicalizeFails, Record,
             RecordReplayed, RecordRefused, Extras, ResolvePuuid, Enrich,
             PipelineFails, EnrichRefused, RecordCallFails, At
    <2>3. CASE pc[r] # "awaiting"
      BY <2>3, HandledUnchanged DEF Proceed, StoreRejected, At
    <2> QED
      BY <2>1, <2>2, <2>3
  <1> QED
    BY <1>1, <1>2, <1>3, <1>4, OutcomesKept

\* Where the failure path leads from each of its steps.
LEMMA FailurePath ==
  ASSUME Outcomes, NEW r \in Runs
  PROVE  /\ \A held \in BOOLEAN :
              AfterFailure(r, held) \in {"expire", "release", "done"}
         /\ ctl[r].handled => Finalize(r) = "close"
         /\ r \in uncertain => Finalize(r) = "failAmbiguous"
         /\ Finalize(r) \notin {"fetch", "awaiting"}
         /\ At(r, "lifecycle") => OnError(r) = Finalize(r)
         /\ At(r, "close") => OnError(r) = AfterFailure(r, TRUE)
         /\ At(r, "failAmbiguous") => OnError(r) = AfterFailure(r, FALSE)
         /\ At(r, "release") => OnError(r) = "done"
  <1>1. \A held \in BOOLEAN :
           AfterFailure(r, held) \in {"expire", "release", "done"}
    BY DEF AfterFailure, Finally
  <1>2. ctl[r].handled => Finalize(r) = "close"
    BY DEF Outcomes, Finalize
  <1>3. r \in uncertain => Finalize(r) = "failAmbiguous"
    BY DEF Outcomes, Finalize
  <1>4. Finalize(r) \notin {"fetch", "awaiting"}
    BY DEF Finalize
  <1>5. At(r, "lifecycle") => OnError(r) = Finalize(r)
    BY DEF At, OnError
  <1>6. /\ At(r, "close") => OnError(r) = AfterFailure(r, TRUE)
        /\ At(r, "failAmbiguous") => OnError(r) = AfterFailure(r, FALSE)
        /\ At(r, "release") => OnError(r) = "done"
    BY DEF At, OnError
  <1> QED
    BY <1>1, <1>2, <1>3, <1>4, <1>5, <1>6

LEMMA FailureOutcomes ==
  ASSUME TypeOK, Outcomes, NEW r \in Runs,
         \/ Lifecycle(r) \/ LifecycleStale(r) \/ FailAmbiguous(r) \/ Close(r)
         \/ CloseRefused(r) \/ SendExpiry(r) \/ Release(r) \/ CallFails(r)
         \/ Crash(r)
  PROVE  Outcomes'
  <1>1. UNCHANGED <<attempt, uncertain>>
    BY DEF Lifecycle, LifecycleStale, FailAmbiguous, Close, CloseRefused,
           SendExpiry, Release, CallFails, Crash, local
  <1>2. HandledSame
    BY HandledUnchanged
       DEF Proceed, Lifecycle, LifecycleStale, FailAmbiguous, Close,
           CloseRefused, SendExpiry, Release, CallFails, CallSteps, Crash,
           StoreRejected, At, Answer, Goto, HandledSame
  <1> DEFINE Fits(next) == /\ next \notin {"fetch", "awaiting"}
                           /\ ctl[r].handled => next \in HandledSteps
                           /\ r \in uncertain => next \in UncertainSteps
  <1>3. PICK next : Goto(r, next) /\ Fits(next)
    <2>1. \A next \in {"expire", "release", "done", "crashed"} : Fits(next)
      BY DEF HandledSteps, UncertainSteps
    <2>2. \A held \in BOOLEAN : Fits(AfterFailure(r, held))
      BY <2>1, FailurePath
    <2>3. Fits(Finalize(r))
      BY FailurePath DEF HandledSteps, UncertainSteps
    <2> HIDE DEF Fits
    <2>4. CASE Lifecycle(r) \/ LifecycleStale(r)
      BY <2>3, <2>4, FailurePath DEF Lifecycle, LifecycleStale, Answer
    <2>5. CASE FailAmbiguous(r) \/ Close(r) \/ CloseRefused(r)
      BY <2>2, <2>5, FailurePath
         DEF FailAmbiguous, Close, CloseRefused, Answer, Reply
    <2>6. CASE SendExpiry(r) \/ Release(r) \/ Crash(r)
      BY <2>1, <2>6 DEF SendExpiry, Release, Crash, Answer, Finally
    <2>7. CASE CallFails(r)
      <3>1. Goto(r, OnError(r)) /\ pc[r] \in CallSteps
        BY <2>7 DEF CallFails
      <3>2. CASE pc[r] \in {"lifecycle", "close", "failAmbiguous", "release"}
        BY <2>1, <2>2, <2>3, <3>1, <3>2, FailurePath DEF At
      <3>3. CASE pc[r] \notin {"lifecycle", "close", "failAmbiguous", "release"}
        <4>1. ~ctl[r].handled /\ r \notin uncertain
          BY <3>1, <3>3, NoOutcomeYet DEF CallSteps
        <4>2. OnError(r) \notin {"fetch", "awaiting"}
          BY LaterSteps DEF Later
        <4> QED
          BY <3>1, <4>1, <4>2 DEF Fits
      <3> QED
        BY <3>2, <3>3
    <2> QED
      BY <2>4, <2>5, <2>6, <2>7
  <1> QED
    BY <1>1, <1>2, <1>3, OutcomesKept

\* The steps that make an outcome: the mark, the request and its answers.
LEMMA RequestOutcomes ==
  ASSUME TypeOK, Outcomes, NEW r \in Runs,
         \/ MarkStorefrontAttempt(r) \/ GetStore(r) \/ StoreRejected(r)
         \/ StoreAmbiguous(r)
  PROVE  Outcomes'
  <1>1. ~ctl[r].handled /\ r \notin uncertain
    BY NoOutcomeYet DEF MarkStorefrontAttempt, GetStore, StoreRejected,
                        StoreAmbiguous, At
  <1>2. pc \in [Runs -> Steps] /\ attempt \in [Runs -> Nat]
    BY DEF TypeOK
  <1>3. CASE MarkStorefrontAttempt(r)
    <2>1. UNCHANGED <<ctl, uncertain>> /\ lastMark + 1 # 0
      BY <1>3 DEF MarkStorefrontAttempt, TypeOK, DatabaseTypeOK
    <2>2. /\ \A s \in Runs \ {r} : pc'[s] = pc[s] /\ attempt'[s] = attempt[s]
          /\ pc'[r] \in {"fetch", "awaiting"} => attempt'[r] = lastMark + 1
      BY <1>2, <1>3, LaterSteps DEF MarkStorefrontAttempt, Goto, Later
    <2> QED
      BY <1>1, <2>1, <2>2 DEF Outcomes
  <1>4. CASE GetStore(r)
    <2>1. /\ UNCHANGED <<ctl, attempt, uncertain>>
          /\ pc' = [pc EXCEPT ![r] = "awaiting"] /\ pc[r] = "fetch"
      BY <1>4 DEF GetStore, Answer, Goto, At
    <2> QED
      BY <1>1, <1>2, <2>1 DEF Outcomes
  <1>5. CASE StoreRejected(r)
    <2>1. /\ UNCHANGED <<attempt, uncertain>>
          /\ ctl' = [ctl EXCEPT ![r].handled = TRUE] /\ ctl \in [Runs -> Control]
          /\ pc' = [pc EXCEPT ![r] = "lifecycle"] /\ pc[r] = "awaiting"
      BY <1>5 DEF StoreRejected, Answer, Goto, At, local, TypeOK
    <2> QED
      BY <1>1, <1>2, <2>1 DEF Outcomes, HandledSteps
  <1>6. CASE StoreAmbiguous(r)
    <2>1. /\ UNCHANGED <<ctl, attempt>> /\ uncertain' = uncertain \cup {r}
          /\ pc' = [pc EXCEPT ![r] = "lifecycle"] /\ pc[r] = "awaiting"
      BY <1>6 DEF StoreAmbiguous, Answer, Goto, At
    <2> QED
      BY <1>1, <1>2, <2>1 DEF Outcomes, UncertainSteps
  <1> QED
    BY <1>3, <1>4, <1>5, <1>6

LEMMA StartOutcomes ==
  ASSUME TypeOK, Outcomes, NEW r \in Runs, NEW c \in Connections,
         NEW t \in Triggers, Start(r, c, t)
  PROVE  Outcomes'
  <1>1. PICK next \in {"done", "acquire"} : Goto(r, next)
    BY DEF Start
  <1>2. UNCHANGED <<attempt, uncertain>> /\ HandledSame
    BY DEF Start, HandledSame
  <1>3. ~ctl[r].handled /\ r \notin uncertain
    BY NoOutcomeYet DEF Start, At
  <1> QED
    BY <1>1, <1>2, <1>3, OutcomesKept

LEMMA NextOutcomes == TypeOK /\ Outcomes /\ [Next]_vars => Outcomes'
  <1> SUFFICES ASSUME TypeOK, Outcomes, [Next]_vars PROVE Outcomes'
    OBVIOUS
  <1>1. ASSUME NEW r \in Runs, Proceed(r) \/ Crash(r) PROVE Outcomes'
    BY <1>1, EarlyOutcomes, FailureOutcomes, RequestOutcomes DEF Proceed
  <1>2. CASE UNCHANGED workerVars
    BY <1>2 DEF workerVars, Outcomes
  <1>3. CASE UNCHANGED vars
    BY <1>2, <1>3 DEF vars
  <1> QED
    BY <1>1, <1>2, <1>3, StartOutcomes DEF Next

-----------------------------------------------------------------------------
(* The request in flight keeps its lease.                                   *)

\* What a step may do to the runs other than start one: their connection and
\* trigger stay, and the claim of a run in flight does.
RunsKept ==
    /\ today' \in {today, today + 1}
    /\ \A s \in Runs :
         /\ pc[s] # "idle" => job'[s] = job[s]
         /\ pc'[s] # "idle" => pc[s] # "idle"
         /\ D(s)' = D(s) \/ D(s)' = today'

\* The step puts no request in flight.
NoNewRequest ==
    \A s \in Runs :
       InFlight(s)' => InFlight(s) /\ job'[s] = job[s] /\ claim'[s] = claim[s]

LEMMA RowsOnStep ==
  ASSUME TypeOK, TypeOK', RunsOnRows, FenceSafe, RunsKept
  PROVE  RunsOnRows'
  <1>1. today \in Nat
    BY RowTypes DEF TypeOK
  <1> SUFFICES ASSUME NEW s \in Runs
               PROVE  /\ D(s)' <= today'
                      /\ pc'[s] # "idle" =>
                           /\ conn'[C(s)'].state # "absent"
                           /\ E(s)' <= conn'[C(s)'].epoch
    BY DEF RunsOnRows
  <1>2. D(s) \in Nat
    BY RunTypes DEF Days
  <1>3. D(s)' <= today'
    BY <1>1, <1>2 DEF RunsOnRows, RunsKept
  <1>4. CASE pc'[s] # "idle"
    <2>1. pc[s] # "idle" /\ C(s)' = C(s) /\ E(s)' = E(s)
      BY <1>4 DEF RunsKept, C, E
    <2>2. conn[C(s)].state # "absent" /\ E(s) <= conn[C(s)].epoch
      BY <2>1 DEF RunsOnRows
    <2>3. C(s) \in Connections /\ E(s) \in Nat
      BY RunTypes
    <2>4. /\ conn'[C(s)].state # "absent"
          /\ conn'[C(s)].epoch >= conn[C(s)].epoch
      BY <2>2, <2>3 DEF FenceSafe, RowsKept
    <2>5. conn[C(s)].epoch \in Nat /\ conn'[C(s)].epoch \in Nat
      BY <2>3 DEF TypeOK, DatabaseTypeOK, ConnectionRow
    <2>6. E(s) <= conn'[C(s)].epoch
      BY <2>2, <2>3, <2>4, <2>5
    <2> QED
      BY <1>3, <2>1, <2>4, <2>6
  <1> QED
    BY <1>3, <1>4

\* A fenced request stays fenced: its lease can only go with its session or
\* its day, because its own run is not closing or recording.
LEMMA FenceStays ==
  ASSUME TypeOK, TypeOK', FenceInv, FenceSafe, today' \in {today, today + 1},
         NEW s \in Runs, InFlight(s), job'[s] = job[s], claim'[s] = claim[s],
         Current(C(s), E(s))', D(s)' = today'
  PROVE  /\ Current(C(s), E(s)) /\ D(s) = today /\ today' = today
         /\ lease'[C(s)] = lease[C(s)]
         /\ lease[C(s)].token = s /\ lease[C(s)].attempted # 0
         /\ lease[C(s)].day = today
  <1> DEFINE c == C(s)
  <1>1. /\ c \in Connections /\ E(s) \in Nat /\ D(s) \in Nat /\ today \in Nat
        /\ C(s)' = c /\ E(s)' = E(s) /\ D(s)' = D(s)
    BY RunTypes, RowTypes DEF C, E, D, Days, TypeOK
  <1>2. pc[s] \in {"fetch", "awaiting"} \cup UncertainSteps
    BY DEF InFlight, FenceInv, Outcomes
  <1>3. pc[s] \notin {"idle", "close", "record"}
    BY <1>2 DEF UncertainSteps
  <1>4. D(s) = today /\ today' = today
    BY <1>1 DEF FenceInv, RunsOnRows
  <1>5. conn'[c].state = "live" /\ conn'[c].epoch = E(s)
    BY <1>1 DEF Current, Live
  <1>6. conn[c].state # "absent" /\ E(s) <= conn[c].epoch
    BY <1>3 DEF FenceInv, RunsOnRows
  <1>7. conn[c].state = "live" /\ conn[c].epoch <= conn'[c].epoch
    BY <1>1, <1>5, <1>6 DEF FenceSafe, RowsKept
  <1>8. conn[c].epoch \in Nat
    BY <1>1 DEF TypeOK, DatabaseTypeOK, ConnectionRow
  <1>9. conn[c].epoch = E(s)
    BY <1>1, <1>5, <1>6, <1>7, <1>8
  <1>10. Current(c, E(s))
    BY <1>7, <1>9 DEF Current, Live
  <1>11. /\ lease[c].token = s /\ lease[c].attempted # 0
         /\ lease[c].day = today
    BY <1>4, <1>10 DEF FenceInv, FenceHeld
  <1>12. lease'[c] = lease[c]
    <2>1. ~(lease[c].day < today)
      BY <1>1, <1>11
    <2>2. ~\E r \in Runs : lease[c].token = r /\ pc[r] \in {"close", "record"}
      BY <1>3, <1>11
    <2> QED
      BY <1>1, <1>5, <1>9, <1>11, <2>1, <2>2 DEF FenceSafe, FenceKept
  <1> QED
    BY <1>4, <1>10, <1>11, <1>12

\* Steps that put no new request in flight.
LEMMA QuietFence ==
  ASSUME TypeOK, TypeOK', FenceInv, FenceSafe, today' \in {today, today + 1},
         NoNewRequest
  PROVE  FenceHeld' /\ NoConcurrentRequests'
  <1>1. FenceHeld'
    <2> SUFFICES ASSUME NEW s \in Runs, InFlight(s)', Current(C(s), E(s))',
                        D(s)' = today'
                 PROVE  /\ lease'[C(s)'].token = s
                        /\ lease'[C(s)'].attempted # 0
                        /\ lease'[C(s)'].day = today'
      BY DEF FenceHeld
    <2>1. InFlight(s) /\ job'[s] = job[s] /\ claim'[s] = claim[s]
      BY DEF NoNewRequest
    <2>2. C(s)' = C(s)
      BY <2>1 DEF C
    <2> QED
      BY <2>1, <2>2, FenceStays
  <1>2. NoConcurrentRequests'
    <2>1. \A s \in Runs : InFlight(s)' =>
             /\ InFlight(s) /\ C(s)' = C(s) /\ E(s)' = E(s) /\ D(s)' = D(s)
      BY DEF NoNewRequest, C, E, D
    <2> QED
      BY <2>1 DEF NoConcurrentRequests, FenceInv
  <1> QED
    BY <1>1, <1>2

\* The mark needs the lease without an attempt, so nobody is in flight there.
LEMMA MarkedFence ==
  ASSUME TypeOK, TypeOK', FenceInv, NEW r \in Runs, MarkStorefrontAttempt(r)
  PROVE  FenceHeld' /\ NoConcurrentRequests'
  <1>1. FenceSafe
    BY MarkFence DEF FenceInv
  <1>2. /\ Current(C(r), E(r)) /\ lease[C(r)].attempted = 0
        /\ D(r) = today /\ UNCHANGED <<conn, today>>
        /\ lease'[C(r)].token = r /\ lease'[C(r)].attempted # 0
        /\ lease'[C(r)].day = today
    BY MarkFence DEF FenceInv
  <1>3. UNCHANGED <<job, claim, uncertain>>
    BY DEF MarkStorefrontAttempt
  <1>4. \A s \in Runs \ {r} : pc'[s] = pc[s]
    BY DEF MarkStorefrontAttempt, Goto, TypeOK
  <1>5. \A s \in Runs : C(s)' = C(s) /\ E(s)' = E(s) /\ D(s)' = D(s)
    BY <1>3 DEF C, E, D
  <1>6. \A s \in Runs \ {r} : InFlight(s)' => InFlight(s)
    BY <1>3, <1>4 DEF InFlight
  <1>7. FenceHeld'
    <2> SUFFICES ASSUME NEW s \in Runs, InFlight(s)', Current(C(s), E(s))',
                        D(s)' = today'
                 PROVE  /\ lease'[C(s)'].token = s
                        /\ lease'[C(s)'].attempted # 0
                        /\ lease'[C(s)'].day = today'
      BY DEF FenceHeld
    <2>1. CASE s = r
      BY <1>2, <1>5, <2>1
    <2>2. CASE s # r
      BY <1>1, <1>2, <1>3, <1>5, <1>6, <2>2, FenceStays
    <2> QED
      BY <2>1, <2>2
  <1>8. ASSUME NEW s \in Runs, s # r, InFlight(s), C(s) = C(r), E(s) = E(r)
        PROVE  D(s) # D(r)
    BY <1>2, <1>8 DEF FenceInv, FenceHeld
  <1>9. NoConcurrentRequests'
    BY <1>5, <1>6, <1>8 DEF NoConcurrentRequests, FenceInv
  <1> QED
    BY <1>7, <1>9

LEMMA ProceedFrame ==
  ASSUME TypeOK, FenceInv, NEW r \in Runs, Proceed(r) \/ Crash(r)
  PROVE  RunsKept /\ (NoNewRequest \/ MarkStorefrontAttempt(r))
  <1>1. UNCHANGED <<today, job>>
    BY ProceedFence, RunMoves DEF FenceInv
  <1>2. PICK next : /\ Goto(r, next)
                    /\ \A s \in Runs : pc'[s] = IF s = r THEN next ELSE pc[s]
    BY RunMoves
  <1>3. \A s \in Runs : pc'[s] = IF s = r THEN next ELSE pc[s]
    BY <1>2
  <1>4. pc[r] # "idle"
    BY RunMoves
  <1>5. CASE TakeDaily(r) \/ TakeManual(r)
    <2>1. /\ \A s \in Runs \ {r} : claim'[s] = claim[s]
          /\ claim'[r].day = today
      BY <1>5 DEF TakeDaily, TakeManual, TypeOK, Claim
    <2>2. UNCHANGED uncertain /\ r \notin uncertain
      BY <1>5, NoOutcomeYet DEF TakeDaily, TakeManual, At, FenceInv
    <2>3. pc'[r] \notin {"fetch", "awaiting"}
      <3>1. PICK x \in Later : Goto(r, x)
        BY <1>5, RepliedNext
      <3> QED
        BY <3>1 DEF Goto, Later, TypeOK
    <2>4. RunsKept
      BY <1>1, <1>3, <1>4, <2>1 DEF RunsKept, D
    <2>5. NoNewRequest
      BY <1>1, <1>3, <2>1, <2>2, <2>3 DEF NoNewRequest, InFlight
    <2> QED
      BY <2>4, <2>5
  <1>6. CASE ~(TakeDaily(r) \/ TakeManual(r))
    <2>1. UNCHANGED claim
      BY <1>6
         DEF Proceed, Acquire, AcquireRefused, ClaimRefused, Load,
             LoadMissing, Renew, RenewRefused, Refresh, RefreshFails,
             Persist, PersistRefused, Prepare, MarkStorefrontAttempt,
             MarkRefused, GetStore, StoreReceived, StoreRejected,
             StoreAmbiguous, Lifecycle, LifecycleStale, FailRetry,
             FailAmbiguous, Close, CloseRefused, SendExpiry, Release,
             Healthy, HealthyStale, CanonicalizeFails, Record,
             RecordReplayed, RecordRefused, Extras, ResolvePuuid, Enrich,
             PipelineFails, EnrichRefused, CallFails, RecordCallFails, Crash,
             local
    <2>2. RunsKept
      BY <1>1, <1>3, <1>4, <2>1 DEF RunsKept, D
    <2>3. CASE GetStore(r) \/ StoreAmbiguous(r)
      <3>1. InFlight(r) /\ uncertain' \subseteq uncertain \cup {r}
        BY <2>3 DEF GetStore, StoreAmbiguous, InFlight, At
      <3>2. NoNewRequest
        BY <1>1, <1>3, <2>1, <3>1 DEF NoNewRequest, InFlight
      <3> QED
        BY <2>2, <3>2
    <2>4. CASE ~(GetStore(r) \/ StoreAmbiguous(r) \/ MarkStorefrontAttempt(r))
      <3>1. UNCHANGED uncertain
        BY <1>6, <2>4
           DEF Proceed, Acquire, AcquireRefused, ClaimRefused, Load,
               LoadMissing, Renew, RenewRefused, Refresh, RefreshFails,
               Persist, PersistRefused, Prepare, MarkRefused, StoreReceived,
               StoreRejected, Lifecycle, LifecycleStale, FailRetry,
               FailAmbiguous, Close, CloseRefused, SendExpiry, Release,
               Healthy, HealthyStale, CanonicalizeFails, Record,
               RecordReplayed, RecordRefused, Extras, ResolvePuuid, Enrich,
               PipelineFails, EnrichRefused, CallFails, RecordCallFails,
               Crash, local
      <3>2. pc'[r] \notin {"fetch", "awaiting"}
        <4>1. CASE Acquire(r)
          <5>1. OnError(r) \notin {"fetch", "awaiting"}
            BY LaterSteps DEF Later
          <5>2. Goto(r, "claim") \/ Goto(r, OnError(r))
            BY <4>1 DEF Acquire, Reply
          <5> QED
            BY <5>1, <5>2 DEF Goto, TypeOK
        <4>2. CASE ~Acquire(r)
          <5>1. PICK x \in Later : Goto(r, x)
            BY <1>6, <2>4, <4>2, AnsweredNext, RepliedNext DEF Answer, Proceed
          <5> QED
            BY <5>1 DEF Goto, Later, TypeOK
        <4> QED
          BY <4>1, <4>2
      <3>3. NoNewRequest
        BY <1>1, <1>3, <2>1, <3>1, <3>2 DEF NoNewRequest, InFlight
      <3> QED
        BY <2>2, <3>3
    <2> QED
      BY <2>2, <2>3, <2>4
  <1> QED
    BY <1>5, <1>6

LEMMA StartFence ==
  ASSUME TypeOK, TypeOK', FenceInv, NEW r \in Runs, NEW c \in Connections,
         NEW t \in Triggers, Start(r, c, t)
  PROVE  FenceInv'
  <1>1. UNCHANGED <<conn, lease, today, claim, uncertain>>
    BY DEF Start, dbVars
  <1>2. FenceSafe
    BY <1>1, FenceUntouched DEF FenceInv
  <1>3. /\ \A s \in Runs \ {r} : job'[s] = job[s] /\ pc'[s] = pc[s]
        /\ pc'[r] \in {"done", "acquire"}
        /\ job'[r].conn = c /\ job'[r].epoch = conn[c].epoch
    BY DEF Start, Goto, TypeOK
  <1>4. r \notin uncertain
    BY NoOutcomeYet DEF Start, At, FenceInv
  <1>5. NoNewRequest
    BY <1>1, <1>3, <1>4 DEF NoNewRequest, InFlight
  <1>6. RunsOnRows'
    <2>1. conn[c].state = "live" /\ conn[c].epoch \in Nat
      BY RowTypes DEF Start, Live, TypeOK, ConnectionRow
    <2> QED
      BY <1>1, <1>3, <2>1 DEF FenceInv, RunsOnRows, C, D, E
  <1>7. today' \in {today, today + 1}
    BY <1>1
  <1>8. FenceHeld' /\ NoConcurrentRequests'
    BY <1>2, <1>5, <1>7, QuietFence
  <1> QED
    BY <1>2, <1>6, <1>8, StartOutcomes DEF FenceInv, FenceSafe

\* FenceInv is inductive.
LEMMA NextFenceInv == TypeOK /\ FenceInv /\ [Next]_vars => FenceInv'
  <1> SUFFICES ASSUME TypeOK, FenceInv, [Next]_vars PROVE FenceInv'
    OBVIOUS
  <1>1. TypeOK' /\ Outcomes' /\ FenceSafe
    BY NextType, NextOutcomes, NextFence DEF FenceInv
  <1>2. ASSUME RunsKept, NoNewRequest PROVE FenceInv'
    BY <1>1, <1>2, RowsOnStep, QuietFence DEF FenceInv, FenceSafe, RunsKept
  <1>3. ASSUME NEW r \in Runs, NEW c \in Connections, NEW t \in Triggers,
               Start(r, c, t)
        PROVE  FenceInv'
    BY <1>1, <1>3, StartFence
  <1>4. ASSUME NEW r \in Runs, Proceed(r) \/ Crash(r) PROVE FenceInv'
    <2>1. RunsKept /\ (NoNewRequest \/ MarkStorefrontAttempt(r))
      BY <1>4, ProceedFrame
    <2>2. CASE MarkStorefrontAttempt(r)
      <3>1. FenceHeld' /\ NoConcurrentRequests'
        BY <1>1, <2>2, MarkedFence
      <3>2. RunsOnRows'
        BY <1>1, <2>1, RowsOnStep DEF FenceInv
      <3> QED
        BY <1>1, <3>1, <3>2 DEF FenceInv, FenceSafe
    <2> QED
      BY <1>2, <2>1, <2>2
  <1>5. CASE Environment /\ UNCHANGED workerVars
    <2>1. today' \in {today, today + 1}
      BY <1>5 DEF Environment, Tick, Midnight, Disconnect, Connect, Reconnect
    <2>2. RunsKept /\ NoNewRequest
      BY <1>5, <2>1 DEF workerVars, RunsKept, NoNewRequest, InFlight, D
    <2> QED
      BY <1>2, <2>2
  <1>6. CASE UNCHANGED vars
    <2>1. RunsKept /\ NoNewRequest
      BY <1>6 DEF vars, dbVars, workerVars, RunsKept, NoNewRequest, InFlight, D
    <2> QED
      BY <1>2, <2>1
  <1> QED
    BY <1>3, <1>4, <1>5, <1>6 DEF Next

LEMMA InitFence == Init => FenceInv
  <1> SUFFICES ASSUME Init PROVE FenceInv
    OBVIOUS
  <1>1. \A r \in Runs : /\ pc[r] = "idle" /\ ~ctl[r].handled
                        /\ r \notin uncertain /\ D(r) <= today
    BY DEF Init, DatabaseInit, NewControl, NoClaim, D
  <1>2. RunsOnRows /\ Outcomes
    BY <1>1 DEF RunsOnRows, Outcomes
  <1>3. FenceHeld /\ NoConcurrentRequests
    BY <1>1 DEF FenceHeld, NoConcurrentRequests, InFlight
  <1> QED
    BY <1>2, <1>3, InitShape DEF FenceInv

\* Whoever may be in flight today holds the fenced lease of its session.
THEOREM FenceInvariant == Spec => [](TypeOK /\ FenceInv)
  BY InitType, InitFence, NextType, NextFenceInv, PTL DEF Spec

\* No two requests for one session and store day are ever in flight together,
\* whatever crashes, timeouts, reconnects and lost responses come between.
THEOREM NoConcurrency == Spec => []NoConcurrentRequests
  <1>1. TypeOK /\ FenceInv => NoConcurrentRequests
    BY DEF FenceInv
  <1> QED
    BY <1>1, FenceInvariant, PTL

-----------------------------------------------------------------------------
(* The one database call a step of a run makes.                             *)

LeaseCall(r) ==
    \/ At(r, "acquire") /\ ClaimRotation(r, C(r), E(r))
    \/ RenewRotation(r, C(r), E(r))
    \/ ReleaseRotation(r, C(r), E(r))
ClaimCall(r) == ClaimDaily(r, C(r), E(r)) \/ ClaimManual(r, C(r), E(r))
MarkCall(r) ==
    MarkDaily(r, C(r), E(r), D(r)) \/ MarkManual(r, C(r), E(r), A(r), D(r))
FailCall(r) ==
    \/ FailManualRetryable(r, C(r), E(r), A(r), D(r))
    \/ FailManualFinal(r, C(r), E(r), A(r), D(r))
CloseCall(r) ==
    CloseDaily(r, C(r), E(r), D(r)) \/ CloseManual(r, C(r), E(r), A(r), D(r))
RecordCall(r) ==
    \/ RecordDaily(r, C(r), E(r), D(r), attempt[r])
    \/ RecordManual(r, C(r), E(r), A(r), D(r), attempt[r])
DecorateCall(r) ==
    EnrichShop(C(r), E(r), D(r), attempt[r]) \/ WriteExtras(C(r), D(r), attempt[r])
PersistCall(r) ==
    At(r, "persist") /\ PersistRotated(r, C(r), E(r), hand[r].jar)
StatusCall(r) ==
    \E f \in Nat, result \in {"OK", "DEAD", "TRANSIENT"} :
       ApplyLifecycle(C(r), E(r), f, result)
IdentityCall(r) == \E a \in Accounts : PersistPuuid(C(r), E(r), a)

\* Riot answers a reauthentication: no row changes.
NewJar ==
    /\ jars' = jars + 1
    /\ UNCHANGED <<now, today, conn, lease, daily, manual, shop, lastMark, peak>>

DatabaseCall(r) ==
    \/ UNCHANGED dbVars \/ NewJar
    \/ LeaseCall(r) \/ ClaimCall(r) \/ MarkCall(r) \/ FailCall(r)
    \/ CloseCall(r) \/ RecordCall(r) \/ DecorateCall(r)
    \/ PersistCall(r) \/ StatusCall(r) \/ IdentityCall(r)

LEMMA RunCalls ==
  ASSUME TypeOK, NEW r \in Runs, Proceed(r) \/ Crash(r)
  PROVE  DatabaseCall(r)
  <1>1. ASSUME NEW next, Answer(r, next) PROVE DatabaseCall(r)
    BY <1>1 DEF Answer, DatabaseCall
  <1>2. CASE \/ AcquireRefused(r) \/ ClaimRefused(r) \/ Load(r)
             \/ LoadMissing(r) \/ RenewRefused(r) \/ RefreshFails(r)
             \/ PersistRefused(r) \/ Prepare(r) \/ MarkRefused(r)
             \/ GetStore(r) \/ StoreReceived(r) \/ StoreRejected(r)
             \/ StoreAmbiguous(r) \/ LifecycleStale(r) \/ CloseRefused(r)
             \/ SendExpiry(r) \/ HealthyStale(r) \/ CanonicalizeFails(r)
             \/ RecordReplayed(r) \/ RecordRefused(r) \/ PipelineFails(r)
             \/ EnrichRefused(r)
    BY <1>1, <1>2
       DEF AcquireRefused, ClaimRefused, Load, LoadMissing, RenewRefused,
           RefreshFails, PersistRefused, Prepare, MarkRefused, GetStore,
           StoreReceived, StoreRejected, StoreAmbiguous, LifecycleStale,
           CloseRefused, SendExpiry, HealthyStale, CanonicalizeFails,
           RecordReplayed, RecordRefused, PipelineFails, EnrichRefused
  <1>3. CASE \/ CallFails(r) \/ RecordCallFails(r) \/ Crash(r) \/ Refresh(r)
    BY <1>3 DEF CallFails, RecordCallFails, Crash, Refresh, NewJar, DatabaseCall
  <1>4. CASE Acquire(r) \/ Renew(r) \/ Release(r)
    BY <1>4 DEF Acquire, Renew, Release, LeaseCall, DatabaseCall
  <1>5. CASE TakeDaily(r) \/ TakeManual(r) \/ MarkStorefrontAttempt(r)
    BY <1>5 DEF TakeDaily, TakeManual, MarkStorefrontAttempt, ClaimCall,
                MarkCall, DatabaseCall
  <1>6. CASE FailRetry(r) \/ FailAmbiguous(r) \/ Close(r)
    BY <1>6 DEF FailRetry, FailAmbiguous, Close, FailCall, CloseCall,
                DatabaseCall
  <1>7. CASE Record(r) \/ Extras(r) \/ Enrich(r) \/ Persist(r)
    BY <1>7 DEF Record, RecordEffect, Extras, Enrich, Persist, RecordCall,
                DecorateCall, PersistCall, DatabaseCall
  <1>8. CASE Lifecycle(r) \/ Healthy(r)
    <2>1. job[r].failures \in Nat /\ ctl[r].result \in {"OK", "DEAD", "TRANSIENT"}
      BY RunTypes DEF Control
    <2>2. "OK" \in {"OK", "DEAD", "TRANSIENT"}
      OBVIOUS
    <2>3. StatusCall(r)
      BY <1>8, <2>1, <2>2 DEF Lifecycle, Healthy, StatusCall
    <2> QED
      BY <2>3 DEF DatabaseCall
  <1>9. CASE ResolvePuuid(r)
    <2>1. hand[r].account \in Accounts
      BY RunTypes
    <2> QED
      BY <1>9, <2>1 DEF ResolvePuuid, IdentityCall, DatabaseCall
  <1> QED
    BY <1>2, <1>3, <1>4, <1>5, <1>6, <1>7, <1>8, <1>9 DEF Proceed

-----------------------------------------------------------------------------
(* A run whose connection was reconnected or deleted under it.              *)

LEMMA StaleCall ==
  ASSUME TypeOK, NEW r \in Runs, DatabaseCall(r), ~Current(C(r), E(r))
  PROVE  /\ UNCHANGED <<conn, lease>>
         /\ \A c \in Connections, d \in Days :
              shop'[c][d].stamp = shop[c][d].stamp
  <1>1. C(r) \in Connections /\ D(r) \in Days
    BY RunTypes
  <1>2. ~LeaseCall(r) \/ UNCHANGED dbVars
    BY DEF LeaseCall, ClaimRotation, RotationClaimable, RenewRotation,
           RotationRenewable, ReleaseRotation, HoldsToday, HoldsUnattempted,
           Usable, dbVars
  <1>3. ~ClaimCall(r) /\ ~MarkCall(r)
    BY DEF ClaimCall, MarkCall, ClaimDaily, DailyClaimable, ClaimManual,
           ManualClaimable, ManualAvailable, MarkDaily, DailyMarkable,
           MarkManual, ManualMarkable, HoldsToday, HoldsUnattempted
  <1>4. ~CloseCall(r) /\ ~RecordCall(r)
    BY DEF CloseCall, RecordCall, CloseDaily, DailyClosable, CloseManual,
           ManualClosable, RecordDaily, RecordManual, OwnsRecordedAttempt,
           OwnsAttempt
  <1>5. ~PersistCall(r) /\ ~StatusCall(r) /\ ~IdentityCall(r)
    BY DEF PersistCall, StatusCall, IdentityCall, PersistRotated,
           HoldsUnattempted, ApplyLifecycle, PersistPuuid, Usable
  <1>6. CASE UNCHANGED dbVars \/ NewJar \/ FailCall(r)
    BY <1>6 DEF dbVars, NewJar, FailCall, FailManualRetryable, FailManualFinal
  <1>7. CASE DecorateCall(r)
    <2>1. WriteExtras(C(r), D(r), attempt[r])
      BY <1>7 DEF DecorateCall, EnrichShop, Enrichable
    <2>2. UNCHANGED <<conn, lease>>
      BY <2>1 DEF WriteExtras
    <2>3. CASE shop' = [shop EXCEPT ![C(r)][D(r)].extras = attempt[r]]
      BY <1>1, <2>2, <2>3 DEF TypeOK, DatabaseTypeOK, ShopRow
    <2>4. CASE shop' = shop
      BY <2>2, <2>4
    <2> QED
      BY <2>1, <2>3, <2>4 DEF WriteExtras
  <1> QED
    BY <1>2, <1>3, <1>4, <1>5, <1>6, <1>7 DEF DatabaseCall

\* A worker that lost its connection to a reconnect or a disconnect changes
\* neither the replacement's row or lease nor which storefront is stored.
THEOREM Untouched == Spec => ReplacementUntouched
  <1>1. TypeOK /\ [Next]_vars
          => [\A r \in Runs :
                pc'[r] # pc[r] /\ pc[r] # "idle" /\ ~Current(C(r), E(r))
                => /\ conn' = conn /\ lease' = lease
                   /\ \A c \in Connections, d \in Days :
                        shop'[c][d].stamp = shop[c][d].stamp]_vars
    <2> SUFFICES ASSUME TypeOK, Next, NEW r \in Runs, pc'[r] # pc[r],
                        pc[r] # "idle", ~Current(C(r), E(r))
                 PROVE  /\ conn' = conn /\ lease' = lease
                        /\ \A c \in Connections, d \in Days :
                             shop'[c][d].stamp = shop[c][d].stamp
      BY DEF vars
    <2>1. ~(Environment /\ UNCHANGED workerVars)
      BY DEF workerVars
    <2>2. ASSUME NEW s \in Runs, NEW c \in Connections, NEW t \in Triggers,
                 Start(s, c, t)
          PROVE  FALSE
      BY <2>2 DEF Start, At, Goto, TypeOK
    <2>3. ASSUME NEW s \in Runs, Proceed(s) \/ Crash(s) PROVE s = r
      BY <2>3, RunMoves
    <2>4. Proceed(r) \/ Crash(r)
      BY <2>1, <2>2, <2>3 DEF Next
    <2> QED
      BY <2>4, RunCalls, StaleCall
  <1> QED
    BY <1>1, TypeCorrect, PTL DEF Spec, ReplacementUntouched

-----------------------------------------------------------------------------
(* The stored storefronts.                                                  *)

\* A storefront is never ahead of the marks, and not ahead of the attempt that
\* the connection's lease carries for its day: that attempt may still replace it.
StoredShops ==
    /\ \A c \in Connections : lease[c].attempted <= lastMark
    /\ \A c \in Connections, d \in Days :
         /\ shop[c][d].stamp <= lastMark
         /\ shop[c][d].enriched \in {0, shop[c][d].stamp}
         /\ lease[c].attempted # 0 /\ lease[c].day = d
              => shop[c][d].stamp <= lease[c].attempted

\* ShopNeverRegresses, for one step.
ShopKept ==
    \A c \in Connections, d \in Days :
       conn'[c].state # "deleted" =>
          /\ shop'[c][d].stamp >= shop[c][d].stamp
          /\ shop'[c][d].enriched \in {0, shop'[c][d].stamp}

ShopSafe == ShopKept /\ StoredShops'

\* No lease gets or moves an attempt.
AttemptsKept ==
    \A c \in Connections :
       \/ lease'[c].attempted = 0
       \/ lease'[c].attempted = lease[c].attempted /\ lease'[c].day = lease[c].day

\* Storefronts are decorated, or go with their connection.
ShopsDecorated ==
    \A c \in Connections, d \in Days :
       \/ /\ shop'[c][d].stamp = shop[c][d].stamp
          /\ shop'[c][d].enriched \in {0, shop[c][d].stamp}
       \/ /\ shop'[c][d].stamp = 0 /\ shop'[c][d].enriched = 0
          /\ conn'[c].state = "deleted"

LEMMA MarkTypes ==
  ASSUME TypeOK
  PROVE  /\ lastMark \in Nat
         /\ \A c \in Connections :
              lease[c].attempted \in Nat /\ lease[c].day \in Nat
         /\ \A c \in Connections, d \in Days :
              shop[c][d].stamp \in Nat /\ shop[c][d].enriched \in Nat
  BY RowTypes DEF TypeOK, DatabaseTypeOK, LeaseColumns, ShopRow

LEMMA QuietShops ==
  ASSUME TypeOK, StoredShops, UNCHANGED lastMark, AttemptsKept, ShopsDecorated
  PROVE  ShopSafe
  <1>1. ShopKept
    BY MarkTypes DEF ShopKept, ShopsDecorated
  <1>2. \A c \in Connections : lease'[c].attempted <= lastMark'
    BY MarkTypes DEF StoredShops, AttemptsKept
  <1>3. ASSUME NEW c \in Connections, NEW d \in Days
        PROVE  /\ shop'[c][d].stamp <= lastMark'
               /\ shop'[c][d].enriched \in {0, shop'[c][d].stamp}
               /\ lease'[c].attempted # 0 /\ lease'[c].day = d
                    => shop'[c][d].stamp <= lease'[c].attempted
    <2>1. /\ lastMark \in Nat /\ lease[c].attempted \in Nat
          /\ shop[c][d].stamp \in Nat
      BY MarkTypes
    <2> QED
      BY <2>1 DEF StoredShops, AttemptsKept, ShopsDecorated
  <1> QED
    BY <1>1, <1>2, <1>3 DEF ShopSafe, StoredShops

LEMMA ShopUntouched ==
  ASSUME StoredShops, UNCHANGED shop
  PROVE  ShopsDecorated
  BY DEF StoredShops, ShopsDecorated

LEMMA LeaseCallShops ==
  ASSUME TypeOK, StoredShops, NEW r \in Runs, LeaseCall(r)
  PROVE  ShopSafe
  <1>1. C(r) \in Connections /\ lease \in [Connections -> LeaseColumns]
    BY RunTypes DEF TypeOK, DatabaseTypeOK
  <1>2. UNCHANGED <<shop, lastMark>>
    BY DEF LeaseCall, ClaimRotation, RenewRotation, ReleaseRotation
  <1>3. AttemptsKept
    BY <1>1 DEF LeaseCall, ClaimRotation, RenewRotation, ReleaseRotation,
                AttemptsKept, NoLease, LeaseColumns
  <1> QED
    BY <1>2, <1>3, ShopUntouched, QuietShops

LEMMA LeaseClearedShops ==
  ASSUME TypeOK, StoredShops, UNCHANGED <<shop, lastMark>>,
         NEW c \in Connections, lease' = [lease EXCEPT ![c] = NoLease]
  PROVE  ShopSafe
  <1>1. AttemptsKept
    BY DEF AttemptsKept, NoLease, TypeOK, DatabaseTypeOK
  <1> QED
    BY <1>1, ShopUntouched, QuietShops

LEMMA LeaseUntouchedShops ==
  ASSUME TypeOK, StoredShops, UNCHANGED <<lease, lastMark>>, ShopsDecorated
  PROVE  ShopSafe
  <1>1. AttemptsKept
    BY DEF AttemptsKept
  <1> QED
    BY <1>1, QuietShops

LEMMA DecorateShops ==
  ASSUME TypeOK, StoredShops, NEW r \in Runs, DecorateCall(r)
  PROVE  ShopSafe
  <1> DEFINE c == C(r)
             d == D(r)
             s == attempt[r]
  <1>1. /\ c \in Connections /\ d \in Days
        /\ shop \in [Connections -> [Days -> ShopRow]]
        /\ shop[c][d] \in ShopRow
    BY RunTypes, RowTypes DEF TypeOK, DatabaseTypeOK
  <1>2. UNCHANGED <<lease, lastMark>>
    BY DEF DecorateCall, EnrichShop, WriteExtras
  <1>3. ASSUME NEW row, shop' = [shop EXCEPT ![c][d] = row],
               row.stamp = shop[c][d].stamp,
               row.enriched \in {0, shop[c][d].stamp}
        PROVE  ShopsDecorated
    <2>1. \A x \in Connections, y \in Days :
             shop'[x][y] = IF x = c /\ y = d THEN row ELSE shop[x][y]
      BY <1>1, <1>3
    <2> QED
      BY <1>3, <2>1 DEF StoredShops, ShopsDecorated
  <1>4. CASE EnrichShop(c, E(r), d, s)
    <2> DEFINE row == [shop[c][d] EXCEPT !.enriched = s]
    <2>1. shop' = [shop EXCEPT ![c][d] = row]
      BY <1>4 DEF EnrichShop
    <2>2. row.stamp = shop[c][d].stamp /\ row.enriched = shop[c][d].stamp
      BY <1>1, <1>4 DEF EnrichShop, Enrichable, ShopRow
    <2> HIDE DEF row
    <2> QED
      BY <1>2, <1>3, <2>1, <2>2, LeaseUntouchedShops
  <1>5. CASE WriteExtras(c, d, s)
    <2> DEFINE row == [shop[c][d] EXCEPT !.extras = s]
    <2>1. shop' = [shop EXCEPT ![c][d] = row] \/ shop' = shop
      BY <1>5 DEF WriteExtras
    <2>2. /\ row.stamp = shop[c][d].stamp
          /\ row.enriched \in {0, shop[c][d].stamp}
      BY <1>1 DEF ShopRow, StoredShops
    <2> HIDE DEF row
    <2> QED
      BY <1>2, <1>3, <2>1, <2>2, ShopUntouched, LeaseUntouchedShops
  <1> QED
    BY <1>4, <1>5 DEF DecorateCall

\* A recorded storefront comes from the attempt on the lease, which no stored
\* storefront of that day is ahead of; the lease goes with it.
LEMMA RecordShops ==
  ASSUME TypeOK, StoredShops, NEW r \in Runs, RecordCall(r)
  PROVE  /\ ShopSafe
         /\ shop'[C(r)][D(r)].stamp = attempt[r] /\ attempt[r] # 0
         /\ \A c \in Connections, d \in Days :
              shop'[c][d].stamp >= shop[c][d].stamp
  <1> DEFINE c == C(r)
             d == D(r)
             s == attempt[r]
             row == [shop[c][d] EXCEPT !.stamp = s, !.enriched = 0]
  <1>1. /\ c \in Connections /\ d \in Days /\ s \in Nat
        /\ shop[c][d] \in ShopRow
    BY RunTypes, RowTypes DEF TypeOK
  <1>2. /\ shop' = [shop EXCEPT ![c][d] = row]
        /\ lease' = [lease EXCEPT ![c] = NoLease]
        /\ OwnsRecordedAttempt(r, c, E(r), d, s) /\ UNCHANGED lastMark
    BY DEF RecordCall, RecordDaily, RecordManual, StoredShop
  <1>3. lease[c].attempted = s /\ lease[c].day = d /\ s # 0
    BY <1>2 DEF OwnsRecordedAttempt, OwnsAttempt
  <1>4. row.stamp = s /\ row.enriched = 0
    BY <1>1 DEF ShopRow
  <1>5. s <= lastMark /\ shop[c][d].stamp <= s
    BY <1>1, <1>3 DEF StoredShops
  <1> HIDE DEF row
  <1>6. \A x \in Connections, y \in Days :
           shop'[x][y] = IF x = c /\ y = d THEN row ELSE shop[x][y]
    BY <1>2 DEF TypeOK, DatabaseTypeOK
  <1>7. \A x \in Connections :
           lease'[x] = IF x = c THEN NoLease ELSE lease[x]
    BY <1>2 DEF TypeOK, DatabaseTypeOK
  <1> HIDE DEF c, d, s
  <1>8. \A x \in Connections, y \in Days :
           /\ shop'[x][y].stamp >= shop[x][y].stamp
           /\ shop'[x][y].stamp <= lastMark
           /\ shop'[x][y].enriched \in {0, shop'[x][y].stamp}
    BY <1>1, <1>4, <1>5, <1>6, MarkTypes DEF StoredShops
  <1>9. /\ \A x \in Connections : lease'[x].attempted <= lastMark
        /\ \A x \in Connections, y \in Days :
             lease'[x].attempted # 0 /\ lease'[x].day = y
                => shop'[x][y].stamp <= lease'[x].attempted
    BY <1>1, <1>6, <1>7, MarkTypes DEF StoredShops, NoLease
  <1>10. ShopKept /\ StoredShops'
    BY <1>2, <1>8, <1>9 DEF ShopKept, StoredShops
  <1> QED
    BY <1>1, <1>3, <1>4, <1>6, <1>8, <1>10 DEF ShopSafe, c, d, s

\* The mark puts the newest stamp on the lease.
LEMMA MarkShops ==
  ASSUME TypeOK, StoredShops, NEW r \in Runs, MarkCall(r)
  PROVE  ShopSafe
  <1> DEFINE c == C(r)
             row == [lease[c] EXCEPT !.attempted = lastMark + 1]
  <1>1. c \in Connections /\ lease \in [Connections -> LeaseColumns]
    BY RunTypes DEF TypeOK, DatabaseTypeOK
  <1>2. lease' = [lease EXCEPT ![c] = row] /\ lastMark' = lastMark + 1
    BY DEF MarkCall, MarkDaily, MarkManual
  <1>3. UNCHANGED shop
    BY DEF MarkCall, MarkDaily, MarkManual
  <1>4. row.attempted = lastMark + 1 /\ row.day = lease[c].day
    BY <1>1 DEF LeaseColumns
  <1>5. \A x \in Connections : lease'[x] = IF x = c THEN row ELSE lease[x]
    BY <1>1, <1>2
  <1> HIDE DEF row, c
  <1>6. ShopKept
    BY <1>3, MarkTypes DEF ShopKept, StoredShops
  <1>7. StoredShops'
    BY <1>2, <1>3, <1>4, <1>5, MarkTypes DEF StoredShops
  <1> QED
    BY <1>6, <1>7 DEF ShopSafe

LEMMA CallShops ==
  ASSUME TypeOK, StoredShops, NEW r \in Runs, DatabaseCall(r)
  PROVE  ShopSafe
  <1>1. CASE \/ UNCHANGED dbVars \/ NewJar \/ ClaimCall(r) \/ FailCall(r)
             \/ PersistCall(r) \/ StatusCall(r) \/ IdentityCall(r)
    <2>1. UNCHANGED <<lease, lastMark, shop>>
      BY <1>1 DEF dbVars, NewJar, ClaimCall, FailCall, PersistCall, StatusCall,
                  IdentityCall, ClaimDaily, ClaimManual, FailManualRetryable,
                  FailManualFinal, PersistRotated, ApplyLifecycle, PersistPuuid
    <2> QED
      BY <2>1, ShopUntouched, LeaseUntouchedShops
  <1>2. CASE CloseCall(r)
    <2>1. /\ UNCHANGED <<shop, lastMark>> /\ C(r) \in Connections
          /\ lease' = [lease EXCEPT ![C(r)] = NoLease]
      BY <1>2, RunTypes DEF CloseCall, CloseDaily, CloseManual
    <2> QED
      BY <2>1, LeaseClearedShops
  <1> QED
    BY <1>1, <1>2, LeaseCallShops, DecorateShops, RecordShops, MarkShops
       DEF DatabaseCall

LEMMA EnvironmentShops ==
  ASSUME TypeOK, StoredShops, Environment
  PROVE  ShopSafe
  <1>1. CASE Tick \/ Midnight
    BY <1>1, ShopUntouched, LeaseUntouchedShops DEF Tick, Midnight
  <1>2. ASSUME NEW c \in Connections, NEW a \in Accounts, NEW p, Connect(c, a, p)
        PROVE  ShopSafe
    BY <1>2, ShopUntouched, LeaseUntouchedShops DEF Connect
  <1>3. ASSUME NEW c \in Connections, NEW a \in Accounts, NEW p,
               Reconnect(c, a, p)
        PROVE  ShopSafe
    BY <1>3, LeaseClearedShops DEF Reconnect
  <1>4. ASSUME NEW c \in Connections, Disconnect(c) PROVE ShopSafe
    <2>1. /\ UNCHANGED lastMark
          /\ lease' = [lease EXCEPT ![c] = NoLease]
          /\ shop' = [shop EXCEPT ![c] = [d \in Days |-> NoShop]]
          /\ conn' = [conn EXCEPT ![c].state = "deleted"]
      BY <1>4 DEF Disconnect
    <2>2. AttemptsKept
      BY <2>1 DEF AttemptsKept, NoLease, TypeOK, DatabaseTypeOK
    <2>3. conn'[c].state = "deleted"
      BY <2>1 DEF TypeOK, DatabaseTypeOK, ConnectionRow
    <2>4. \A x \in Connections, y \in Days :
             shop'[x][y] = IF x = c THEN NoShop ELSE shop[x][y]
      BY <2>1 DEF TypeOK, DatabaseTypeOK
    <2>5. ShopsDecorated
      BY <2>3, <2>4 DEF ShopsDecorated, StoredShops, NoShop
    <2> QED
      BY <2>1, <2>2, <2>5, QuietShops
  <1> QED
    BY <1>1, <1>2, <1>3, <1>4 DEF Environment

LEMMA NextShops == TypeOK /\ StoredShops /\ [Next]_vars => ShopSafe
  <1> SUFFICES ASSUME TypeOK, StoredShops, [Next]_vars PROVE ShopSafe
    OBVIOUS
  <1>1. ASSUME UNCHANGED dbVars PROVE ShopSafe
    BY <1>1, ShopUntouched, LeaseUntouchedShops DEF dbVars
  <1>2. ASSUME NEW r \in Runs, NEW c \in Connections, NEW t \in Triggers,
               Start(r, c, t)
        PROVE  UNCHANGED dbVars
    BY <1>2 DEF Start
  <1>3. ASSUME NEW r \in Runs, Proceed(r) \/ Crash(r) PROVE ShopSafe
    BY <1>3, RunCalls, CallShops
  <1> QED
    BY <1>1, <1>2, <1>3, EnvironmentShops DEF Next, vars

LEMMA InitShops == Init => StoredShops
  BY DEF Init, DatabaseInit, StoredShops, NoLease, NoShop

\* No stored storefront is ahead of the attempt its connection's lease carries.
THEOREM StoredShopsInvariant == Spec => [](TypeOK /\ StoredShops)
  <1>1. TypeOK /\ StoredShops /\ [Next]_vars => (TypeOK /\ StoredShops)'
    BY NextType, NextShops DEF ShopSafe
  <1> QED
    BY <1>1, InitType, InitShops, PTL DEF Spec

\* A stored storefront is only ever replaced by one of a later attempt, and
\* enrichment never decorates another attempt's row.
THEOREM ShopOnlyAdvances == Spec => ShopNeverRegresses
  <1>1. TypeOK /\ StoredShops /\ [Next]_vars
          => [\A c \in Connections, d \in Days :
                conn'[c].state # "deleted" =>
                   /\ shop'[c][d].stamp >= shop[c][d].stamp
                   /\ shop'[c][d].enriched \in {0, shop'[c][d].stamp}]_vars
    BY NextShops DEF ShopSafe, ShopKept
  <1> QED
    BY <1>1, StoredShopsInvariant, PTL DEF Spec, ShopNeverRegresses

-----------------------------------------------------------------------------
(* The manual successes.                                                    *)

\* SuccessIsDurable with what keeps it: a manual row belongs to a connection
\* that exists or existed, and a success has the stamp of its attempt.
DurableSuccesses ==
    \A a \in Accounts, d \in Days :
       LET m == manual[a][d]
       IN  /\ m.status # "none" => conn[m.conn].state # "absent"
           /\ m.status = "succeeded" =>
                m.stamp # 0 /\ (Live(m.conn) => shop[m.conn][d].stamp >= m.stamp)

LEMMA SuccessKept ==
  ASSUME TypeOK, TypeOK', DurableSuccesses, ShopKept, RowsKept, UNCHANGED manual
  PROVE  DurableSuccesses'
  <1> SUFFICES ASSUME NEW a \in Accounts, NEW d \in Days
               PROVE  /\ manual[a][d].status # "none"
                           => conn'[manual[a][d].conn].state # "absent"
                      /\ manual[a][d].status = "succeeded" =>
                           /\ manual[a][d].stamp # 0
                           /\ Live(manual[a][d].conn)' =>
                                shop'[manual[a][d].conn][d].stamp
                                   >= manual[a][d].stamp
    BY DEF DurableSuccesses, Live
  <1> DEFINE c == manual[a][d].conn
  <1>1. c \in Connections /\ manual[a][d].stamp \in Nat
    BY RowTypes DEF TypeOK, ManualRow
  <1>2. shop[c][d].stamp \in Nat /\ shop'[c][d].stamp \in Nat
    <2>1. shop[c][d] \in ShopRow /\ shop'[c][d] \in ShopRow
      BY <1>1 DEF TypeOK, DatabaseTypeOK
    <2> QED
      BY <2>1 DEF ShopRow
  <1> HIDE DEF c
  <1>3. /\ manual[a][d].status # "none" => conn[c].state # "absent"
        /\ manual[a][d].status = "succeeded" =>
             /\ manual[a][d].stamp # 0
             /\ Live(c) => shop[c][d].stamp >= manual[a][d].stamp
    BY DEF DurableSuccesses, c
  <1>4. /\ conn[c].state # "absent" => conn'[c].state # "absent"
        /\ conn[c].state # "absent" /\ conn'[c].state = "live" => Live(c)
    BY <1>1 DEF RowsKept, Live
  <1>5. conn'[c].state = "live" => shop'[c][d].stamp >= shop[c][d].stamp
    BY <1>1 DEF ShopKept
  <1> QED
    BY <1>1, <1>2, <1>3, <1>4, <1>5 DEF Live, c

\* A manual row written without a new success.
LEMMA ManualRowSuccess ==
  ASSUME TypeOK, DurableSuccesses, UNCHANGED <<conn, shop>>,
         NEW a \in Accounts, NEW d \in Days, NEW row,
         manual' = [manual EXCEPT ![a][d] = row],
         row.status # "succeeded" \/ row.status = manual[a][d].status,
         row.status # "none" => conn[row.conn].state # "absent",
         row.status = "succeeded" =>
            row.stamp = manual[a][d].stamp /\ row.conn = manual[a][d].conn
  PROVE  DurableSuccesses'
  <1>1. \A x \in Accounts, y \in Days :
           manual'[x][y] = IF x = a /\ y = d THEN row ELSE manual[x][y]
    BY DEF TypeOK, DatabaseTypeOK
  <1> QED
    BY <1>1 DEF DurableSuccesses, Live

LEMMA FailSuccess ==
  ASSUME TypeOK, DurableSuccesses, NEW r \in Runs,
         \/ MarkManual(r, C(r), E(r), A(r), D(r))
         \/ FailCall(r)
         \/ CloseManual(r, C(r), E(r), A(r), D(r))
  PROVE  DurableSuccesses'
  <1> DEFINE a == A(r)
             d == D(r)
             m == manual[a][d]
  <1>1. a \in Accounts /\ d \in Days /\ m \in ManualRow
    BY RunTypes, RowTypes DEF TypeOK
  <1>2. UNCHANGED <<conn, shop>>
    BY DEF MarkManual, FailCall, FailManualRetryable, FailManualFinal,
           CloseManual
  <1>3. m.status # "none" => conn[m.conn].state # "absent"
    BY <1>1 DEF DurableSuccesses
  <1>4. CASE manual' = manual
    BY <1>2, <1>4 DEF DurableSuccesses, Live
  <1>5. CASE MarkManual(r, C(r), E(r), a, d)
    <2> DEFINE row == [m EXCEPT !.status = "requesting", !.stamp = lastMark + 1]
    <2>1. manual' = [manual EXCEPT ![a][d] = row] /\ m.status = "claimed"
      BY <1>5 DEF MarkManual, ManualMarkable
    <2>2. row.status = "requesting" /\ row.conn = m.conn
      BY <1>1 DEF ManualRow
    <2> HIDE DEF row, m, a, d
    <2> QED
      BY <1>1, <1>2, <1>3, <2>1, <2>2, ManualRowSuccess
  <1>6. CASE /\ ManualReleasable(r, C(r), E(r), a, d)
             /\ FailManualRetryable(r, C(r), E(r), a, d)
    <2> DEFINE row == [m EXCEPT !.status = "retryable_failed", !.failed = TRUE]
    <2>1. manual' = [manual EXCEPT ![a][d] = row] /\ m.status = "claimed"
      BY <1>6 DEF FailManualRetryable, ManualReleasable
    <2>2. row.status = "retryable_failed" /\ row.conn = m.conn
      BY <1>1 DEF ManualRow
    <2> HIDE DEF row, m, a, d
    <2> QED
      BY <1>1, <1>2, <1>3, <2>1, <2>2, ManualRowSuccess
  <1>7. CASE manual' = [manual EXCEPT ![a][d].failed = TRUE]
    <2> DEFINE row == [m EXCEPT !.failed = TRUE]
    <2>1. manual' = [manual EXCEPT ![a][d] = row]
      BY <1>7
    <2>2. /\ row.status = m.status /\ row.conn = m.conn /\ row.stamp = m.stamp
      BY <1>1 DEF ManualRow
    <2>3. m = manual[a][d]
      OBVIOUS
    <2> HIDE DEF row, m, a, d
    <2> QED
      BY <1>1, <1>2, <1>3, <2>1, <2>2, <2>3, ManualRowSuccess
  <1> QED
    BY <1>4, <1>5, <1>6, <1>7
       DEF FailCall, FailManualRetryable, FailManualFinal, CloseManual

LEMMA ClaimSuccess ==
  ASSUME TypeOK, DurableSuccesses, NEW r \in Runs, ClaimManual(r, C(r), E(r))
  PROVE  DurableSuccesses'
  <1> DEFINE c == C(r)
             a == conn[c].puuid
             row == [status |-> "claimed", conn |-> c, epoch |-> E(r),
                     token |-> r, at |-> now, stamp |-> 0, failed |-> FALSE]
  <1>1. a \in Accounts /\ today \in Days
    BY RunTypes, ClaimManualType DEF TypeOK, DatabaseTypeOK
  <1>2. conn[c].state # "absent"
    BY DEF ClaimManual, ManualClaimable, ManualAvailable, HoldsToday,
           HoldsUnattempted, Current, Live
  <1>3. /\ manual' = [manual EXCEPT ![a][today] = row]
        /\ UNCHANGED <<conn, shop>>
    BY DEF ClaimManual
  <1>4. row.status = "claimed" /\ row.conn = c
    OBVIOUS
  <1> HIDE DEF row, a, c
  <1> QED
    BY <1>1, <1>2, <1>3, <1>4, ManualRowSuccess

\* The success and its storefront are written in one transaction.
LEMMA RecordSuccess ==
  ASSUME TypeOK, TypeOK', DurableSuccesses, StoredShops, NEW r \in Runs,
         RecordManual(r, C(r), E(r), A(r), D(r), attempt[r])
  PROVE  DurableSuccesses'
  <1> DEFINE a == A(r)
             d == D(r)
             c == C(r)
             s == attempt[r]
             m == manual[a][d]
             row == [m EXCEPT !.status = "succeeded"]
  <1>1. /\ a \in Accounts /\ d \in Days /\ c \in Connections /\ s \in Nat
        /\ m \in ManualRow
    BY RunTypes, RowTypes DEF TypeOK
  <1>2. row.status = "succeeded" /\ row.conn = m.conn /\ row.stamp = m.stamp
    BY <1>1 DEF ManualRow
  <1>3. manual' = [manual EXCEPT ![a][d] = row] /\ UNCHANGED conn
    BY DEF RecordManual
  <1>4. /\ shop'[c][d].stamp = s /\ s # 0
        /\ \A x \in Connections, y \in Days :
             shop'[x][y].stamp >= shop[x][y].stamp
    BY RecordShops DEF RecordCall
  <1>5. m.conn = c /\ (m.stamp = s \/ m.status = "succeeded") /\ m.status # "none"
    BY DEF RecordManual, Completable, Completed, ClaimedRow
  <1>6. \A x \in Connections, y \in Days :
           shop[x][y].stamp \in Nat /\ shop'[x][y].stamp \in Nat
    <2>1. \A x \in Connections, y \in Days :
             shop[x][y] \in ShopRow /\ shop'[x][y] \in ShopRow
      BY DEF TypeOK, DatabaseTypeOK
    <2> QED
      BY <2>1 DEF ShopRow
  <1> HIDE DEF row, m, a, d, c, s
  <1>7. \A x \in Accounts, y \in Days :
           manual'[x][y] = IF x = a /\ y = d THEN row ELSE manual[x][y]
    BY <1>3 DEF TypeOK, DatabaseTypeOK
  <1>8. \A x \in Accounts, y \in Days :
           manual[x][y].conn \in Connections /\ manual[x][y].stamp \in Nat
    BY RowTypes DEF TypeOK, ManualRow
  <1>9. manual[a][d] = m
    BY DEF m
  <1>10. ASSUME NEW x \in Accounts, NEW y \in Days
         PROVE  /\ manual'[x][y].status # "none" =>
                     conn'[manual'[x][y].conn].state # "absent"
                /\ manual'[x][y].status = "succeeded" =>
                     /\ manual'[x][y].stamp # 0
                     /\ Live(manual'[x][y].conn) =>
                          shop'[manual'[x][y].conn][y].stamp
                             >= manual'[x][y].stamp
    <2>1. CASE x = a /\ y = d
      <3>1. manual'[x][y] = row
        BY <1>7, <2>1
      <3>2. conn[c].state # "absent"
        BY <1>1, <1>5, <1>9 DEF DurableSuccesses
      <3>3. CASE m.stamp = s
        BY <1>1, <1>2, <1>3, <1>4, <1>5, <2>1, <3>1, <3>2, <3>3
      <3>4. CASE m.status = "succeeded"
        <4>1. m.stamp # 0 /\ (Live(c) => shop[c][d].stamp >= m.stamp)
          BY <1>1, <1>5, <1>9, <3>4 DEF DurableSuccesses
        <4>2. shop'[c][d].stamp >= shop[c][d].stamp
          BY <1>1, <1>4
        <4>3. m.stamp \in Nat
          BY <1>1, <1>8, <1>9
        <4>4. shop[c][d].stamp \in Nat /\ shop'[c][d].stamp \in Nat
          BY <1>1, <1>6
        <4>5. Live(c) => shop'[c][d].stamp >= m.stamp
          BY <4>1, <4>2, <4>3, <4>4
        <4> QED
          BY <1>2, <1>3, <1>5, <2>1, <3>1, <3>2, <4>1, <4>5
      <3> QED
        BY <1>5, <3>3, <3>4
    <2>2. CASE ~(x = a /\ y = d)
      <3>1. manual'[x][y] = manual[x][y]
        BY <1>7, <2>2
      <3> QED
        BY <1>3, <1>4, <1>6, <1>8, <3>1 DEF DurableSuccesses
    <2> QED
      BY <2>1, <2>2
  <1> QED
    BY <1>3, <1>10 DEF DurableSuccesses, Live

LEMMA CallSuccess ==
  ASSUME TypeOK, TypeOK', DurableSuccesses, StoredShops, ShopKept, RowsKept,
         NEW r \in Runs, DatabaseCall(r)
  PROVE  DurableSuccesses'
  <1>1. CASE UNCHANGED manual
    BY <1>1, SuccessKept
  <1>2. CASE ClaimManual(r, C(r), E(r))
    BY <1>2, ClaimSuccess
  <1>3. CASE \/ MarkManual(r, C(r), E(r), A(r), D(r)) \/ FailCall(r)
             \/ CloseManual(r, C(r), E(r), A(r), D(r))
    BY <1>3, FailSuccess
  <1>4. CASE RecordManual(r, C(r), E(r), A(r), D(r), attempt[r])
    BY <1>4, RecordSuccess
  <1> QED
    BY <1>1, <1>2, <1>3, <1>4
       DEF DatabaseCall, dbVars, NewJar, LeaseCall, ClaimCall, MarkCall,
           CloseCall, RecordCall, DecorateCall, PersistCall, StatusCall,
           IdentityCall, ClaimRotation, RenewRotation, ReleaseRotation,
           ClaimDaily, MarkDaily, CloseDaily, RecordDaily, EnrichShop,
           WriteExtras, PersistRotated, ApplyLifecycle, PersistPuuid

SuccessInv == LeaseShape /\ StoredShops /\ DurableSuccesses

LEMMA NextSuccess == TypeOK /\ SuccessInv /\ [Next]_vars => SuccessInv'
  <1> SUFFICES ASSUME TypeOK, SuccessInv, [Next]_vars PROVE SuccessInv'
    OBVIOUS
  <1>1. TypeOK' /\ ShopSafe /\ FenceSafe
    BY NextType, NextShops, NextFence DEF SuccessInv
  <1>2. ASSUME UNCHANGED manual PROVE DurableSuccesses'
    BY <1>1, <1>2, SuccessKept DEF SuccessInv, ShopSafe, FenceSafe
  <1>3. ASSUME NEW r \in Runs, Proceed(r) \/ Crash(r) PROVE DurableSuccesses'
    BY <1>1, <1>3, RunCalls, CallSuccess DEF SuccessInv, ShopSafe, FenceSafe
  <1>4. ASSUME NEW r \in Runs, NEW c \in Connections, NEW t \in Triggers,
               Start(r, c, t)
        PROVE  UNCHANGED manual
    BY <1>4 DEF Start, dbVars
  <1>5. Environment \/ UNCHANGED vars => UNCHANGED manual
    BY DEF Environment, Tick, Midnight, Disconnect, Connect, Reconnect, vars,
           dbVars
  <1>6. DurableSuccesses'
    BY <1>2, <1>3, <1>4, <1>5 DEF Next
  <1> QED
    BY <1>1, <1>6 DEF SuccessInv, ShopSafe, FenceSafe

LEMMA InitSuccess == Init => SuccessInv
  <1> SUFFICES ASSUME Init PROVE SuccessInv
    OBVIOUS
  <1>1. \A a \in Accounts, d \in Days : manual[a][d].status = "none"
    BY DEF Init, DatabaseInit, NoManual
  <1>2. DurableSuccesses
    BY <1>1 DEF DurableSuccesses
  <1> QED
    BY <1>2, InitShape, InitShops DEF SuccessInv

\* A manual success stands for a storefront in shop_checks: the one of its own
\* attempt or a later one of that day, for as long as the connection exists.
THEOREM SuccessLasts == Spec => []SuccessIsDurable
  <1>1. TypeOK /\ SuccessInv /\ [Next]_vars => (TypeOK /\ SuccessInv)'
    BY NextType, NextSuccess
  <1>2. SuccessInv => SuccessIsDurable
    BY DEF SuccessInv, DurableSuccesses, SuccessIsDurable
  <1> QED
    BY <1>1, <1>2, InitType, InitSuccess, PTL DEF Spec

-----------------------------------------------------------------------------
(* The automatic allowances of a user.                                      *)

\* No row of a later day exists yet; neither the rows of today nor the
\* accounts held now exceed the most accounts held at once today.
CapacityInv ==
    /\ \A c \in Connections, d \in Days : d > today => ~daily[c][d].taken
    /\ \A u \in Users : /\ Cardinality(DailyTaken(u)) <= peak[u]
                        /\ Cardinality(Held(u)) <= peak[u]

LEMMA SmallerCount ==
  ASSUME NEW S \in SUBSET Connections, NEW T \in SUBSET S
  PROVE  /\ Cardinality(S) \in Nat /\ Cardinality(T) \in Nat
         /\ Cardinality(T) <= Cardinality(S)
         /\ IsFiniteSet(S)
  BY ConnectionsAssumption, FS_Subset, FS_CardinalityType

LEMMA OneMoreCount ==
  ASSUME NEW S \in SUBSET Connections, NEW c \in Connections
  PROVE  Cardinality(S \cup {c}) <= Cardinality(S) + 1
  <1>1. IsFiniteSet(S) /\ Cardinality(S) \in Nat
    BY SmallerCount
  <1> QED
    BY <1>1, FS_AddElement

\* No row is taken and no account is added.
LEMMA CapacityKept ==
  ASSUME TypeOK, CapacityInv, UNCHANGED <<today, peak>>,
         \A c \in Connections, d \in Days :
            daily'[c][d].taken = daily[c][d].taken,
         \A c \in Connections : Live(c)' => Live(c)
  PROVE  CapacityInv'
  <1>1. today \in Days /\ peak \in [Users -> Nat]
    BY DEF TypeOK, DatabaseTypeOK
  <1>2. ASSUME NEW u \in Users
        PROVE  /\ Cardinality(DailyTaken(u)') <= peak[u]
               /\ Cardinality(Held(u)') <= peak[u]
    <2>1. DailyTaken(u)' = DailyTaken(u)
      BY <1>1 DEF DailyTaken
    <2>2. Held(u)' \in SUBSET Held(u) /\ Held(u) \in SUBSET Connections
      BY DEF Held
    <2>3. /\ Cardinality(Held(u)) \in Nat /\ Cardinality(Held(u)') \in Nat
          /\ Cardinality(Held(u)') <= Cardinality(Held(u))
      BY <2>2, SmallerCount
    <2> QED
      BY <1>1, <2>1, <2>3 DEF CapacityInv
  <1>3. \A c \in Connections, d \in Days : d > today' => ~daily'[c][d].taken
    BY DEF CapacityInv
  <1> QED
    BY <1>2, <1>3 DEF CapacityInv

\* A new row is taken only while the user holds more accounts than that.
LEMMA ClaimCapacity ==
  ASSUME TypeOK, CapacityInv, NEW r \in Runs, ClaimDaily(r, C(r), E(r))
  PROVE  CapacityInv'
  <1> DEFINE c == C(r)
             row == [taken |-> TRUE, epoch |-> E(r), at |-> now, stamp |-> 0,
                     failed |-> FALSE]
  <1>1. c \in Connections /\ today \in Days /\ peak \in [Users -> Nat]
    BY RunTypes DEF TypeOK, DatabaseTypeOK
  <1>2. /\ daily' = [daily EXCEPT ![c][today] = row] /\ row.taken
        /\ UNCHANGED <<today, peak, conn>>
    BY DEF ClaimDaily
  <1>3. \/ daily[c][today].taken
        \/ Cardinality(DailyTaken(Owner[c])) < Cardinality(Held(Owner[c]))
    BY DEF ClaimDaily, DailyClaimable
  <1> HIDE DEF row, c
  <1>4. \A x \in Connections, d \in Days :
           daily'[x][d] = IF x = c /\ d = today THEN row ELSE daily[x][d]
    BY <1>1, <1>2 DEF TypeOK, DatabaseTypeOK
  <1>5. ASSUME NEW u \in Users
        PROVE  Cardinality(DailyTaken(u)') <= peak[u]
    <2>1. DailyTaken(u) \in SUBSET Connections
      BY DEF DailyTaken
    <2>2. Cardinality(DailyTaken(u)) \in Nat /\ Cardinality(Held(u)) \in Nat
      BY <2>1, SmallerCount, HeldCount
    <2>3. /\ Cardinality(DailyTaken(u)) <= peak[u]
          /\ Cardinality(Held(u)) <= peak[u] /\ peak[u] \in Nat
      BY <1>1 DEF CapacityInv
    <2>4. CASE u # Owner[c] \/ daily[c][today].taken
      <3>1. DailyTaken(u)' = DailyTaken(u)
        BY <1>1, <1>2, <1>4, <2>4 DEF DailyTaken
      <3> QED
        BY <2>3, <3>1
    <2>5. CASE u = Owner[c] /\ ~daily[c][today].taken
      <3>1. DailyTaken(u)' = DailyTaken(u) \cup {c}
        BY <1>1, <1>2, <1>4, <2>5 DEF DailyTaken
      <3>2. Cardinality(DailyTaken(u)') <= Cardinality(DailyTaken(u)) + 1
        BY <1>1, <2>1, <3>1, OneMoreCount
      <3>3. Cardinality(DailyTaken(u)') \in Nat
        <4>1. DailyTaken(u)' \in SUBSET Connections
          BY DEF DailyTaken
        <4> QED
          BY <4>1, SmallerCount
      <3>4. Cardinality(DailyTaken(u)) < Cardinality(Held(u))
        BY <1>3, <2>5
      <3> QED
        BY <2>2, <2>3, <3>2, <3>3, <3>4
    <2> QED
      BY <2>4, <2>5
  <1>6. ASSUME NEW u \in Users PROVE Cardinality(Held(u)') <= peak[u]
    <2>1. Held(u)' = Held(u)
      BY <1>2 DEF Held, Live
    <2> QED
      BY <2>1 DEF CapacityInv
  <1>7. \A x \in Connections, d \in Days : d > today' => ~daily'[x][d].taken
    <2>1. today \in Nat
      BY <1>1 DEF Days
    <2> QED
      BY <1>2, <1>4, <2>1 DEF CapacityInv
  <1> QED
    BY <1>2, <1>5, <1>6, <1>7 DEF CapacityInv

\* A connect raises the peak when it must; midnight starts it over.
LEMMA EnvironmentCapacity ==
  ASSUME TypeOK, CapacityInv, Environment
  PROVE  CapacityInv'
  <1>1. today \in Days /\ today \in Nat /\ peak \in [Users -> Nat]
    BY RowTypes DEF TypeOK, DatabaseTypeOK
  <1>2. CASE Tick
    BY <1>2, CapacityKept DEF Tick, Live
  <1>3. CASE Midnight
    <2>1. /\ today' = today + 1 /\ UNCHANGED <<daily, conn>>
          /\ peak' = [u \in Users |-> Cardinality(Held(u))]
      BY <1>3 DEF Midnight
    <2>2. today' \in Days
      BY <1>1, <1>3, BoundsAssumption DEF Midnight, Days
    <2>3. ASSUME NEW u \in Users
          PROVE  /\ Cardinality(DailyTaken(u)') <= peak'[u]
                 /\ Cardinality(Held(u)') <= peak'[u]
      <3>1. DailyTaken(u)' = {}
        BY <1>1, <2>1, <2>2 DEF DailyTaken, CapacityInv
      <3>2. Held(u)' = Held(u) /\ peak'[u] = Cardinality(Held(u))
        BY <2>1 DEF Held, Live
      <3> QED
        BY <3>1, <3>2, HeldCount, FS_EmptySet
    <2>4. \A c \in Connections, d \in Days : d > today' => ~daily'[c][d].taken
      <3>1. \A d \in Days : d \in Nat
        BY DEF Days
      <3> QED
        BY <1>1, <2>1, <3>1 DEF CapacityInv
    <2> QED
      BY <2>3, <2>4 DEF CapacityInv
  <1>4. ASSUME NEW c \in Connections, Disconnect(c) PROVE CapacityInv'
    <2>1. \A x \in Connections : Live(x)' => Live(x)
      BY <1>4 DEF Disconnect, Live, TypeOK, DatabaseTypeOK, ConnectionRow
    <2> QED
      BY <1>4, <2>1, CapacityKept DEF Disconnect
  <1>5. ASSUME NEW c \in Connections, NEW a \in Accounts, NEW p,
               Reconnect(c, a, p)
        PROVE  CapacityInv'
    <2>1. \A x \in Connections : Live(x)' => Live(x)
      BY <1>5 DEF Reconnect, ReconnectedRow, Live, TypeOK, DatabaseTypeOK
    <2> QED
      BY <1>5, <2>1, CapacityKept DEF Reconnect
  <1>6. ASSUME NEW c \in Connections, NEW a \in Accounts, NEW p, Connect(c, a, p)
        PROVE  CapacityInv'
    <2> DEFINE n == Cardinality(Held(Owner[c]))
    <2>1. /\ UNCHANGED <<today, daily>> /\ conn[c].state = "absent"
          /\ peak' = [peak EXCEPT ![Owner[c]] =
                        IF n >= peak[Owner[c]] THEN n + 1 ELSE peak[Owner[c]]]
      BY <1>6 DEF Connect
    <2>2. \A x \in Connections \ {c} : Live(x)' = Live(x)
      BY <1>6 DEF Connect, Live
    <2>3. Owner[c] \in Users /\ n \in Nat
      BY ConnectionsAssumption, HeldCount
    <2>4. ASSUME NEW u \in Users
          PROVE  /\ Cardinality(DailyTaken(u)') <= peak'[u]
                 /\ Cardinality(Held(u)') <= peak'[u]
      <3>1. DailyTaken(u)' = DailyTaken(u) /\ DailyTaken(u) \in SUBSET Connections
        BY <2>1 DEF DailyTaken
      <3>2. /\ Cardinality(DailyTaken(u)) <= peak[u]
            /\ Cardinality(Held(u)) <= peak[u] /\ peak[u] \in Nat
            /\ Cardinality(DailyTaken(u)) \in Nat /\ Cardinality(Held(u)) \in Nat
        BY <1>1, <3>1, HeldCount, SmallerCount DEF CapacityInv
      <3>3. CASE u # Owner[c]
        <4>1. Held(u)' = Held(u) /\ peak'[u] = peak[u]
          BY <1>1, <2>1, <2>2, <3>3 DEF Held
        <4> QED
          BY <3>1, <3>2, <4>1
      <3>4. CASE u = Owner[c]
        <4>1. Held(u)' \in SUBSET (Held(u) \cup {c}) /\ Held(u) \in SUBSET Connections
          BY <2>2 DEF Held
        <4>2. /\ Cardinality(Held(u)') <= Cardinality(Held(u) \cup {c})
              /\ Cardinality(Held(u)') \in Nat
              /\ Cardinality(Held(u) \cup {c}) \in Nat
          BY <4>1, SmallerCount
        <4>3. Cardinality(Held(u) \cup {c}) <= n + 1
          BY <3>4, <4>1, OneMoreCount
        <4>4. peak'[u] = IF n >= peak[u] THEN n + 1 ELSE peak[u]
          BY <1>1, <2>1, <2>3, <3>4
        <4> QED
          BY <2>3, <3>1, <3>2, <4>2, <4>3, <4>4
      <3> QED
        BY <3>3, <3>4
    <2> QED
      BY <2>1, <2>4 DEF CapacityInv
  <1> QED
    BY <1>2, <1>3, <1>4, <1>5, <1>6 DEF Environment

\* The mark and the close write a daily row without taking or freeing it.
LEMMA TakenKept ==
  ASSUME TypeOK, NEW r \in Runs, DatabaseCall(r), ~ClaimDaily(r, C(r), E(r))
  PROVE  \A c \in Connections, d \in Days :
            daily'[c][d].taken = daily[c][d].taken
  <1>1. C(r) \in Connections /\ D(r) \in Days
    BY RunTypes
  <1>2. daily[C(r)][D(r)] \in DailyRow
    BY <1>1, RowTypes DEF TypeOK
  <1>3. CASE UNCHANGED daily
    BY <1>3
  <1>4. ASSUME NEW row, row.taken = daily[C(r)][D(r)].taken,
               daily' = [daily EXCEPT ![C(r)][D(r)] = row]
        PROVE  \A c \in Connections, d \in Days :
                  daily'[c][d].taken = daily[c][d].taken
    BY <1>1, <1>4 DEF TypeOK, DatabaseTypeOK
  <1>5. CASE MarkDaily(r, C(r), E(r), D(r))
    <2> DEFINE row == [daily[C(r)][D(r)] EXCEPT !.stamp = lastMark + 1]
    <2>1. daily' = [daily EXCEPT ![C(r)][D(r)] = row]
      BY <1>5 DEF MarkDaily
    <2>2. row.taken = daily[C(r)][D(r)].taken
      BY <1>2 DEF DailyRow
    <2> HIDE DEF row
    <2> QED
      BY <1>4, <2>1, <2>2
  <1>6. CASE CloseDaily(r, C(r), E(r), D(r))
    <2> DEFINE row == [daily[C(r)][D(r)] EXCEPT !.failed = TRUE]
    <2>1. daily' = [daily EXCEPT ![C(r)][D(r)] = row]
      BY <1>6 DEF CloseDaily
    <2>2. row.taken = daily[C(r)][D(r)].taken
      BY <1>2 DEF DailyRow
    <2> HIDE DEF row
    <2> QED
      BY <1>4, <2>1, <2>2
  <1> QED
    BY <1>3, <1>5, <1>6
       DEF DatabaseCall, dbVars, NewJar, LeaseCall, ClaimCall, MarkCall,
           CloseCall, RecordCall, DecorateCall, PersistCall, StatusCall,
           IdentityCall, FailCall, ClaimRotation, RenewRotation,
           ReleaseRotation, ClaimManual, MarkManual, CloseManual,
           FailManualRetryable, FailManualFinal, RecordDaily, RecordManual,
           EnrichShop, WriteExtras, PersistRotated, ApplyLifecycle,
           PersistPuuid

\* No call of a run revives a connection or touches the clock or the peak.
LEMMA CallFrame ==
  ASSUME TypeOK, NEW r \in Runs, DatabaseCall(r)
  PROVE  /\ UNCHANGED <<now, today, peak>>
         /\ \A c \in Connections :
              conn'[c].state = conn[c].state /\ conn'[c].epoch = conn[c].epoch
  <1>1. UNCHANGED <<now, today, peak>>
    BY DEF DatabaseCall, dbVars, NewJar, LeaseCall, ClaimCall, MarkCall,
           CloseCall, RecordCall, DecorateCall, PersistCall, StatusCall,
           IdentityCall, FailCall, ClaimRotation, RenewRotation,
           ReleaseRotation, ClaimDaily, ClaimManual, MarkDaily, MarkManual,
           CloseDaily, CloseManual, FailManualRetryable, FailManualFinal,
           RecordDaily, RecordManual, EnrichShop, WriteExtras,
           PersistRotated, ApplyLifecycle, PersistPuuid
  <1>2. CASE UNCHANGED conn
    BY <1>1, <1>2
  <1>3. C(r) \in Connections /\ conn[C(r)] \in ConnectionRow
    BY RunTypes, RowTypes DEF TypeOK
  <1>4. ASSUME NEW row, conn' = [conn EXCEPT ![C(r)] = row],
               row.state = conn[C(r)].state, row.epoch = conn[C(r)].epoch
        PROVE  \A c \in Connections :
                 conn'[c].state = conn[c].state /\ conn'[c].epoch = conn[c].epoch
    BY <1>4 DEF TypeOK, DatabaseTypeOK
  <1>5. CASE PersistCall(r) \/ IdentityCall(r)
    <2>1. \A j : /\ [conn[C(r)] EXCEPT !.jar = j].state = conn[C(r)].state
                 /\ [conn[C(r)] EXCEPT !.jar = j].epoch = conn[C(r)].epoch
                 /\ [conn[C(r)] EXCEPT !.puuid = j].state = conn[C(r)].state
                 /\ [conn[C(r)] EXCEPT !.puuid = j].epoch = conn[C(r)].epoch
      BY <1>3 DEF ConnectionRow
    <2> QED
      BY <1>1, <1>4, <1>5, <2>1
         DEF PersistCall, IdentityCall, PersistRotated, PersistPuuid
  <1>6. CASE StatusCall(r)
    <2>1. PICK f \in Nat, result \in {"OK", "DEAD", "TRANSIENT"} :
             ApplyLifecycle(C(r), E(r), f, result)
      BY <1>6 DEF StatusCall
    <2>2. /\ CheckedRow(conn[C(r)], f, result).state = conn[C(r)].state
          /\ CheckedRow(conn[C(r)], f, result).epoch = conn[C(r)].epoch
      BY <1>3 DEF CheckedRow, ConnectionRow
    <2> QED
      BY <1>1, <1>4, <2>1, <2>2 DEF ApplyLifecycle
  <1> QED
    BY <1>1, <1>2, <1>5, <1>6
       DEF DatabaseCall, dbVars, NewJar, LeaseCall, ClaimCall, MarkCall,
           CloseCall, RecordCall, DecorateCall, FailCall, ClaimRotation,
           RenewRotation, ReleaseRotation, ClaimDaily, ClaimManual,
           MarkDaily, MarkManual, CloseDaily, CloseManual,
           FailManualRetryable, FailManualFinal, RecordDaily, RecordManual,
           EnrichShop, WriteExtras

LEMMA NextCapacity == TypeOK /\ CapacityInv /\ [Next]_vars => CapacityInv'
  <1> SUFFICES ASSUME TypeOK, CapacityInv, [Next]_vars PROVE CapacityInv'
    OBVIOUS
  <1>1. ASSUME NEW r \in Runs, DatabaseCall(r) PROVE CapacityInv'
    <2>1. CASE ClaimDaily(r, C(r), E(r))
      BY <2>1, ClaimCapacity
    <2>2. CASE ~ClaimDaily(r, C(r), E(r))
      <3>1. /\ UNCHANGED <<today, peak>>
            /\ \A c \in Connections : Live(c)' => Live(c)
        BY <1>1, CallFrame DEF Live
      <3> QED
        BY <1>1, <2>2, <3>1, TakenKept, CapacityKept
    <2> QED
      BY <2>1, <2>2
  <1>2. ASSUME UNCHANGED dbVars PROVE CapacityInv'
    BY <1>2, CapacityKept DEF dbVars, Live
  <1>3. ASSUME NEW r \in Runs, NEW c \in Connections, NEW t \in Triggers,
               Start(r, c, t)
        PROVE  UNCHANGED dbVars
    BY <1>3 DEF Start
  <1> QED
    BY <1>1, <1>2, <1>3, RunCalls, EnvironmentCapacity DEF Next, vars

LEMMA InitCapacity == Init => CapacityInv
  <1> SUFFICES ASSUME Init PROVE CapacityInv
    OBVIOUS
  <1>1. \A c \in Connections, d \in Days : ~daily[c][d].taken
    BY DEF Init, DatabaseInit, NoDaily
  <1>2. today \in Days
    BY InitType DEF TypeOK, DatabaseTypeOK
  <1>3. \A u \in Users : DailyTaken(u) = {}
    BY <1>1, <1>2 DEF DailyTaken
  <1>4. \A u \in Users : Held(u) = {} /\ peak[u] = 0
    BY DEF Init, DatabaseInit, Held, Live
  <1>5. Cardinality({}) = 0
    BY FS_EmptySet
  <1>6. \A u \in Users :
           Cardinality(DailyTaken(u)) <= peak[u] /\ Cardinality(Held(u)) <= peak[u]
    BY <1>3, <1>4, <1>5
  <1> QED
    BY <1>1, <1>6 DEF CapacityInv

\* Disconnecting and connecting again mints no automatic allowance: a user
\* never has more daily runs than accounts held at once that day.
THEOREM CapacityHolds == Spec => []DailyCapacity
  <1>1. TypeOK /\ CapacityInv /\ [Next]_vars => (TypeOK /\ CapacityInv)'
    BY NextType, NextCapacity
  <1>2. CapacityInv => DailyCapacity
    BY DEF CapacityInv, DailyCapacity, DailyTaken
  <1> QED
    BY <1>1, <1>2, InitType, InitCapacity, PTL DEF Spec

-----------------------------------------------------------------------------
(* What a step does to the connection rows and the leases.                  *)

\* The calls of a run keep a row's state, epoch and death; the jar is written
\* by the persist call alone.
LEMMA CallRows ==
  ASSUME TypeOK, NEW r \in Runs, DatabaseCall(r), NEW c \in Connections
  PROVE  /\ conn'[c].state = conn[c].state /\ conn'[c].epoch = conn[c].epoch
         /\ conn[c].auth = "REAUTH_REQUIRED" => conn'[c].auth = "REAUTH_REQUIRED"
         /\ \/ conn'[c].jar = conn[c].jar
            \/ /\ PersistCall(r) /\ c = C(r)
               /\ conn'[c].jar = hand[r].jar
  <1>1. conn'[c].state = conn[c].state /\ conn'[c].epoch = conn[c].epoch
    BY CallFrame
  <1>2. /\ C(r) \in Connections /\ conn[C(r)] \in ConnectionRow
        /\ conn \in [Connections -> ConnectionRow]
    BY RunTypes, RowTypes DEF TypeOK, DatabaseTypeOK
  <1>3. CASE PersistCall(r)
    <2>1. conn' = [conn EXCEPT ![C(r)].jar = hand[r].jar]
      BY <1>3 DEF PersistCall, PersistRotated
    <2>2. conn'[c].auth = conn[c].auth
      BY <1>2, <2>1 DEF ConnectionRow
    <2>3. conn'[c].jar = IF c = C(r) THEN hand[r].jar ELSE conn[c].jar
      BY <1>2, <2>1 DEF ConnectionRow
    <2> QED
      BY <1>1, <1>3, <2>2, <2>3
  <1>4. CASE StatusCall(r)
    <2>1. PICK f \in Nat, result \in {"OK", "DEAD", "TRANSIENT"} :
             ApplyLifecycle(C(r), E(r), f, result)
      BY <1>4 DEF StatusCall
    <2>2. /\ conn' = [conn EXCEPT ![C(r)] = CheckedRow(conn[C(r)], f, result)]
          /\ conn[C(r)].auth # "REAUTH_REQUIRED"
      BY <2>1 DEF ApplyLifecycle, Usable
    <2>3. CheckedRow(conn[C(r)], f, result).jar = conn[C(r)].jar
      BY <1>2 DEF CheckedRow, ConnectionRow
    <2> HIDE DEF CheckedRow
    <2> QED
      BY <1>1, <1>2, <2>2, <2>3
  <1>5. CASE IdentityCall(r)
    <2>1. PICK a \in Accounts : conn' = [conn EXCEPT ![C(r)].puuid = a]
      BY <1>5 DEF IdentityCall, PersistPuuid
    <2> QED
      BY <1>1, <1>2, <2>1 DEF ConnectionRow
  <1>6. CASE UNCHANGED conn
    BY <1>6
  <1> QED
    BY <1>3, <1>4, <1>5, <1>6
       DEF DatabaseCall, dbVars, NewJar, LeaseCall, ClaimCall, MarkCall,
           CloseCall, RecordCall, DecorateCall, FailCall, ClaimRotation,
           RenewRotation, ReleaseRotation, ClaimDaily, ClaimManual,
           MarkDaily, MarkManual, CloseDaily, CloseManual,
           FailManualRetryable, FailManualFinal, RecordDaily, RecordManual,
           EnrichShop, WriteExtras

\* Outside the runs, a row changes with a disconnect, a connect or a
\* reconnect; the last two bring the newest jar.
NewSession(c) ==
    /\ jars' = jars + 1 /\ conn'[c].jar = jars'
    /\ \/ conn[c].state = "absent" /\ conn'[c].epoch = 1
       \/ /\ conn[c].state = "live" /\ conn'[c].epoch = conn[c].epoch + 1
          /\ lease'[c] = NoLease

RowKeptOrReplaced(c) ==
    \/ conn'[c] = conn[c] /\ lease'[c] = lease[c]
    \/ /\ conn'[c] = [conn[c] EXCEPT !.state = "deleted"]
       /\ conn[c].state = "live" /\ lease'[c] = NoLease
    \/ NewSession(c) /\ conn'[c].state = "live"

LEMMA EnvironmentRows ==
  ASSUME TypeOK, Environment, NEW c \in Connections
  PROVE  RowKeptOrReplaced(c)
  <1>1. /\ conn \in [Connections -> ConnectionRow]
        /\ lease \in [Connections -> LeaseColumns] /\ jars \in Nat
    BY DEF TypeOK, DatabaseTypeOK
  <1>2. CASE Tick \/ Midnight
    BY <1>2 DEF Tick, Midnight, RowKeptOrReplaced
  <1>3. ASSUME NEW x \in Connections, Disconnect(x) PROVE RowKeptOrReplaced(c)
    BY <1>1, <1>3 DEF Disconnect, Live, RowKeptOrReplaced
  <1>4. ASSUME NEW x \in Connections, NEW a \in Accounts, NEW p, Connect(x, a, p)
        PROVE  RowKeptOrReplaced(c)
    BY <1>1, <1>4 DEF Connect, NewSession, RowKeptOrReplaced
  <1>5. ASSUME NEW x \in Connections, NEW a \in Accounts, NEW p,
               Reconnect(x, a, p)
        PROVE  RowKeptOrReplaced(c)
    BY <1>1, <1>5 DEF Reconnect, ReconnectedRow, Live, NewSession,
                      RowKeptOrReplaced
  <1> QED
    BY <1>2, <1>3, <1>4, <1>5 DEF Environment

\* A lease stays as it was but for its renewal, is cleared, is claimed afresh
\* by a run at its acquire step, or gets the attempt of the run that holds it.
LEMMA CallLeases ==
  ASSUME TypeOK, NEW r \in Runs, DatabaseCall(r), NEW c \in Connections
  PROVE  \/ /\ lease'[c].token = lease[c].token
            /\ lease'[c].attempted = lease[c].attempted
            /\ lease'[c].day = lease[c].day
         \/ lease'[c] = NoLease
         \/ /\ At(r, "acquire") /\ c = C(r) /\ Usable(c, E(r))
            /\ lease'[c] = [token |-> r, at |-> now, day |-> today,
                            attempted |-> 0]
         \/ /\ MarkCall(r) /\ c = C(r) /\ lease[c].token = r
            /\ lease'[c] = [lease[c] EXCEPT !.attempted = lastMark + 1]
  <1>1. C(r) \in Connections /\ lease \in [Connections -> LeaseColumns]
    BY RunTypes DEF TypeOK, DatabaseTypeOK
  <1>2. CASE LeaseCall(r)
    <2>1. CASE At(r, "acquire") /\ ClaimRotation(r, C(r), E(r))
      BY <1>1, <2>1 DEF ClaimRotation, RotationClaimable
    <2>2. CASE RenewRotation(r, C(r), E(r))
      BY <1>1, <2>2 DEF RenewRotation, LeaseColumns
    <2>3. CASE ReleaseRotation(r, C(r), E(r))
      BY <1>1, <2>3 DEF ReleaseRotation
    <2> QED
      BY <1>2, <2>1, <2>2, <2>3 DEF LeaseCall
  <1>3. CASE MarkCall(r)
    <2>1. /\ lease' = [lease EXCEPT ![C(r)].attempted = lastMark + 1]
          /\ lease[C(r)].token = r
      BY <1>3 DEF MarkCall, MarkDaily, MarkManual, DailyMarkable,
                  ManualMarkable, HoldsToday, HoldsUnattempted
    <2> QED
      BY <1>1, <1>3, <2>1
  <1>4. CASE CloseCall(r) \/ RecordCall(r)
    BY <1>1, <1>4 DEF CloseCall, RecordCall, CloseDaily, CloseManual,
                      RecordDaily, RecordManual
  <1>5. CASE UNCHANGED lease
    BY <1>5
  <1> QED
    BY <1>2, <1>3, <1>4, <1>5
       DEF DatabaseCall, dbVars, NewJar, ClaimCall, DecorateCall, FailCall,
           ClaimDaily, ClaimManual, FailManualRetryable, FailManualFinal,
           EnrichShop, WriteExtras, PersistCall, StatusCall, IdentityCall,
           PersistRotated, ApplyLifecycle, PersistPuuid

-----------------------------------------------------------------------------
(* Where a step leads: to "persist" only with a fresh jar in hand, and to    *)
(* the expiry email only after a terminal lifecycle write.                   *)

Fits(r, next) == next # "persist" /\ (next = "expire" => ctl[r].terminal)

LEMMA FitSteps ==
  ASSUME NEW r \in Runs
  PROVE  /\ \A held \in BOOLEAN :
              Fits(r, AfterFailure(r, held)) /\ Fits(r, Finally(held))
         /\ Fits(r, Finalize(r)) /\ Finalize(r) # "expire"
         /\ Fits(r, AfterIdentity(r)) /\ Fits(r, AfterRecord(r))
         /\ Fits(r, OnError(r))
         /\ At(r, "lifecycle") => OnError(r) = Finalize(r)
         /\ pc[r] \in {"record", "enrich"} =>
               /\ Fits(r, OnRecordError(r, "close"))
               /\ Fits(r, OnRecordError(r, "done"))
         /\ \A step \in Steps \ {"persist", "expire"} : Fits(r, step)
  <1>1. /\ \A step \in Steps \ {"persist", "expire"} : Fits(r, step)
        /\ {"release", "done", "record", "failRetry", "lifecycle", "close",
            "failAmbiguous", "enrich", "puuid"} \subseteq Steps \ {"persist", "expire"}
    BY DEF Fits, Steps
  <1>2. \A held \in BOOLEAN : Fits(r, Finally(held))
    BY <1>1 DEF Finally
  <1>3. \A held \in BOOLEAN : Fits(r, AfterFailure(r, held))
    BY <1>2 DEF AfterFailure, Fits
  <1>4. Fits(r, Finalize(r)) /\ Finalize(r) # "expire"
    BY DEF Finalize, Fits
  <1>5. Fits(r, AfterIdentity(r)) /\ Fits(r, AfterRecord(r))
    BY DEF AfterIdentity, AfterRecord, Fits
  <1>6. Fits(r, OnError(r)) /\ (At(r, "lifecycle") => OnError(r) = Finalize(r))
    <2>1. Fits(r, AfterFailure(r, TRUE)) /\ Fits(r, AfterFailure(r, FALSE))
      BY <1>3
    <2> QED
      BY <1>1, <1>4, <1>5, <2>1 DEF OnError, At
  <1>7. pc[r] \in {"record", "enrich"} =>
           Fits(r, OnRecordError(r, "close")) /\ Fits(r, OnRecordError(r, "done"))
    BY <1>1 DEF OnRecordError
  <1> QED
    BY <1>1, <1>2, <1>3, <1>4, <1>5, <1>6, <1>7

LEMMA StepFits ==
  ASSUME TypeOK, NEW r \in Runs, Proceed(r) \/ Crash(r), ~Refresh(r)
  PROVE  Fits(r, pc'[r]) /\ (Lifecycle(r) => pc'[r] # "expire")
  <1>1. ASSUME NEW next, Goto(r, next) PROVE pc'[r] = next
    BY <1>1 DEF Goto, TypeOK
  <1>2. \A step \in {"claim", "load", "release", "renew", "refresh", "prepare",
                     "mark", "fetch", "awaiting", "lifecycle", "healthy",
                     "record", "extras", "enrich", "enrichExtras",
                     "failRetry", "close", "done", "crashed"} : Fits(r, step)
    BY DEF Fits
  <1>3. CASE \/ Acquire(r) \/ AcquireRefused(r) \/ TakeDaily(r)
             \/ TakeManual(r) \/ ClaimRefused(r) \/ Load(r) \/ LoadMissing(r)
             \/ Renew(r) \/ RenewRefused(r) \/ RefreshFails(r) \/ Persist(r)
             \/ PersistRefused(r) \/ Prepare(r) \/ MarkStorefrontAttempt(r)
             \/ MarkRefused(r) \/ GetStore(r) \/ StoreReceived(r)
             \/ StoreRejected(r) \/ StoreAmbiguous(r)
    <2>1. ~Lifecycle(r)
      BY <1>3
         DEF Acquire, AcquireRefused, TakeDaily, TakeManual, ClaimRefused,
             Load, LoadMissing, Renew, RenewRefused, RefreshFails, Persist,
             PersistRefused, Prepare, MarkStorefrontAttempt, MarkRefused,
             GetStore, StoreReceived, StoreRejected, StoreAmbiguous,
             Lifecycle, At
    <2>2. PICK next : Goto(r, next) /\ Fits(r, next)
      BY <1>2, <1>3, FitSteps
         DEF Acquire, AcquireRefused, TakeDaily, TakeManual, ClaimRefused,
             Load, LoadMissing, Renew, RenewRefused, RefreshFails, Persist,
             PersistRefused, Prepare, MarkStorefrontAttempt, MarkRefused,
             GetStore, StoreReceived, StoreRejected, StoreAmbiguous, Reply,
             Answer
    <2> QED
      BY <1>1, <2>1, <2>2
  <1>4. CASE Lifecycle(r) \/ LifecycleStale(r)
    <2>1. Goto(r, Finalize(r))
      BY <1>4, FitSteps DEF Lifecycle, LifecycleStale, Answer
    <2> QED
      BY <1>1, <2>1, FitSteps
  <1>5. CASE \/ FailRetry(r) \/ FailAmbiguous(r) \/ Close(r)
             \/ CloseRefused(r) \/ SendExpiry(r) \/ Release(r)
    <2>1. ~Lifecycle(r)
      BY <1>5 DEF FailRetry, FailAmbiguous, Close, CloseRefused, SendExpiry,
                  Release, Lifecycle, At
    <2>2. ctl[r].held \in BOOLEAN
      BY RunTypes DEF Control
    <2>3. PICK next : Goto(r, next) /\ Fits(r, next)
      BY <1>2, <1>5, <2>2, FitSteps
         DEF FailRetry, FailAmbiguous, Close, CloseRefused, SendExpiry,
             Release, Reply, Answer
    <2> QED
      BY <1>1, <2>1, <2>3
  <1>6. CASE \/ Healthy(r) \/ HealthyStale(r) \/ CanonicalizeFails(r)
             \/ Record(r) \/ RecordReplayed(r) \/ RecordRefused(r)
             \/ Extras(r) \/ ResolvePuuid(r) \/ Enrich(r) \/ PipelineFails(r)
             \/ EnrichRefused(r)
    <2>1. ~Lifecycle(r)
      BY <1>6 DEF Healthy, HealthyStale, CanonicalizeFails, Record,
                  RecordReplayed, RecordRefused, Extras, ResolvePuuid,
                  Enrich, PipelineFails, EnrichRefused, Lifecycle, At
    <2>2. PICK next : Goto(r, next) /\ Fits(r, next)
      BY <1>2, <1>6, FitSteps
         DEF Healthy, HealthyStale, CanonicalizeFails, Record,
             RecordReplayed, RecordRefused, Extras, ResolvePuuid, Enrich,
             PipelineFails, EnrichRefused, Answer, At
    <2> QED
      BY <1>1, <2>1, <2>2
  <1>7. CASE CallFails(r)
    <2>1. pc'[r] = OnError(r)
      BY <1>1, <1>7 DEF CallFails
    <2>2. Lifecycle(r) => OnError(r) = Finalize(r)
      BY FitSteps DEF Lifecycle
    <2> QED
      BY <2>1, <2>2, FitSteps
  <1>8. CASE RecordCallFails(r) \/ Crash(r)
    <2>1. CASE Crash(r)
      BY <1>1, <1>2, <2>1 DEF Crash, Fits
    <2>2. CASE RecordCallFails(r)
      BY <1>1, <2>2, FitSteps DEF RecordCallFails, Lifecycle, At
    <2> QED
      BY <1>8, <2>1, <2>2
  <1> QED
    BY <1>3, <1>4, <1>5, <1>6, <1>7, <1>8 DEF Proceed

-----------------------------------------------------------------------------
(* The stored jars.                                                         *)

\* Jars are numbered as Riot issues them.  A run about to store its rotated
\* jar, with the lease still in hand, does not hold an older one than the row:
\* its own jar is the last that was issued under this lease.
JarInv ==
    /\ \A c \in Connections :
         /\ conn[c].jar <= jars
         /\ conn[c].state = "absent" => conn[c].epoch = 0
    /\ \A r \in Runs :
         /\ hand[r].jar <= jars
         /\ At(r, "persist") /\ HoldsUnattempted(r, C(r), E(r))
              => conn[C(r)].jar <= hand[r].jar

\* JarNeverRegresses, for one step.
JarKept ==
    \A c \in Connections :
       conn'[c].epoch = conn[c].epoch => conn'[c].jar >= conn[c].jar

LEMMA JarTypes ==
  ASSUME TypeOK
  PROVE  /\ jars \in Nat
         /\ \A c \in Connections : conn[c].jar \in Nat /\ conn[c].epoch \in Nat
         /\ \A r \in Runs : hand[r].jar \in Nat
  BY RunTypes, RowTypes DEF TypeOK, DatabaseTypeOK, ConnectionRow

\* Riot's counter does not run back, and runs ahead of every jar in memory.
LEMMA HandMoves ==
  ASSUME TypeOK, JarInv, NEW r \in Runs, Proceed(r) \/ Crash(r)
  PROVE  /\ jars' \in {jars, jars + 1}
         /\ \A s \in Runs \ {r} : hand'[s] = hand[s]
         /\ hand'[r].jar <= jars'
         /\ Refresh(r) => UNCHANGED conn /\ hand'[r].jar = jars'
  <1>1. jars' \in {jars, jars + 1}
    BY RunCalls
       DEF DatabaseCall, dbVars, NewJar, LeaseCall, ClaimCall, MarkCall,
           CloseCall, RecordCall, DecorateCall, FailCall, PersistCall,
           StatusCall, IdentityCall, ClaimRotation, RenewRotation,
           ReleaseRotation, ClaimDaily, ClaimManual, MarkDaily, MarkManual,
           CloseDaily, CloseManual, FailManualRetryable, FailManualFinal,
           RecordDaily, RecordManual, EnrichShop, WriteExtras,
           PersistRotated, ApplyLifecycle, PersistPuuid
  <1>2. CASE Refresh(r)
    BY <1>2, JarTypes DEF Refresh, TypeOK, Hand
  <1>3. CASE Load(r)
    <2>1. /\ hand' = [hand EXCEPT ![r] = [jar |-> conn[C(r)].jar,
                                          account |-> conn[C(r)].account]]
          /\ jars' = jars /\ C(r) \in Connections
      BY <1>3, RunTypes DEF Load, Answer, dbVars
    <2> QED
      BY <1>1, <1>3, <2>1 DEF JarInv, TypeOK, Load, Refresh, At
  <1>4. CASE ~Refresh(r) /\ ~Load(r)
    <2>1. UNCHANGED hand
      BY <1>4
         DEF Proceed, Acquire, AcquireRefused, TakeDaily, TakeManual,
             ClaimRefused, LoadMissing, Renew, RenewRefused, RefreshFails,
             Persist, PersistRefused, Prepare, MarkStorefrontAttempt,
             MarkRefused, GetStore, StoreReceived, StoreRejected,
             StoreAmbiguous, Lifecycle, LifecycleStale, FailRetry,
             FailAmbiguous, Close, CloseRefused, SendExpiry, Release,
             Healthy, HealthyStale, CanonicalizeFails, Record,
             RecordReplayed, RecordRefused, Extras, ResolvePuuid, Enrich,
             PipelineFails, EnrichRefused, CallFails, RecordCallFails, Crash,
             local
    <2>2. jars \in Nat /\ hand[r].jar \in Nat
      BY JarTypes
    <2> QED
      BY <1>1, <1>4, <2>1, <2>2 DEF JarInv
  <1> QED
    BY <1>2, <1>3, <1>4

\* A lease a waiting run still holds after another's call was its own before.
LEMMA LeaseWasHeld ==
  ASSUME TypeOK, NEW r \in Runs, DatabaseCall(r), NEW s \in Runs,
         ~At(s, "acquire"), NEW c \in Connections, NEW e,
         Current(c, e)', lease'[c].token = s, lease'[c].attempted = 0
  PROVE  HoldsUnattempted(s, c, e)
  <1>1. Current(c, e)
    BY CallRows DEF Current, Live
  <1>2. lastMark + 1 # 0 /\ s # NoRun /\ lease[c] \in LeaseColumns
    BY RunsAssumption, RowTypes DEF TypeOK, DatabaseTypeOK
  <1>3. [lease[c] EXCEPT !.attempted = lastMark + 1].attempted = lastMark + 1
    BY <1>2 DEF LeaseColumns
  <1>4. CASE /\ lease'[c].token = lease[c].token
             /\ lease'[c].attempted = lease[c].attempted
    BY <1>1, <1>4 DEF HoldsUnattempted
  <1>5. lease'[c] # NoLease
    BY <1>2 DEF NoLease
  <1>6. ~(/\ At(r, "acquire")
          /\ lease'[c] = [token |-> r, at |-> now, day |-> today,
                          attempted |-> 0])
    BY DEF At
  <1>7. lease'[c] # [lease[c] EXCEPT !.attempted = lastMark + 1]
    BY <1>2, <1>3
  <1> QED
    BY <1>4, <1>5, <1>6, <1>7, CallLeases

LEMMA CallJars ==
  ASSUME TypeOK, TypeOK', JarInv, NEW r \in Runs, Proceed(r) \/ Crash(r)
  PROVE  JarKept /\ JarInv'
  <1>1. DatabaseCall(r)
    BY RunCalls
  <1>2. /\ jars' \in {jars, jars + 1}
        /\ \A s \in Runs \ {r} : hand'[s] = hand[s]
        /\ hand'[r].jar <= jars'
        /\ Refresh(r) => UNCHANGED conn /\ hand'[r].jar = jars'
    BY HandMoves
  <1>3. /\ jars \in Nat /\ jars' \in Nat
        /\ \A c \in Connections : conn[c].jar \in Nat /\ conn'[c].jar \in Nat
        /\ \A s \in Runs : hand[s].jar \in Nat
    <2>1. jars' \in Nat /\ \A c \in Connections : conn'[c] \in ConnectionRow
      BY DEF TypeOK, DatabaseTypeOK
    <2> QED
      BY <2>1, JarTypes DEF ConnectionRow
  <1>4. ASSUME NEW c \in Connections
        PROVE  /\ conn'[c].jar >= conn[c].jar /\ conn'[c].jar <= jars'
               /\ conn'[c].state = "absent" => conn'[c].epoch = 0
    <2>1. \/ conn'[c].jar = conn[c].jar
          \/ /\ conn'[c].jar = hand[r].jar /\ hand[r].jar <= jars
             /\ hand[r].jar >= conn[c].jar
      BY <1>1, CallRows DEF JarInv, PersistCall, PersistRotated
    <2>2. conn'[c].jar >= conn[c].jar /\ conn'[c].jar <= jars'
      BY <1>2, <1>3, <2>1 DEF JarInv
    <2> QED
      BY <1>1, <2>2, CallRows DEF JarInv
  <1>5. ASSUME NEW s \in Runs
        PROVE  /\ hand'[s].jar <= jars'
               /\ pc'[s] = "persist" /\ HoldsUnattempted(s, C(s), E(s))'
                    => conn'[C(s)'].jar <= hand'[s].jar
    <2>1. hand'[s].jar <= jars'
      BY <1>2, <1>3 DEF JarInv
    <2>2. C(s)' = C(s) /\ E(s)' = E(s) /\ C(s) \in Connections
      BY RunMoves, RunTypes DEF C, E
    <2>3. ASSUME pc'[s] = "persist", HoldsUnattempted(s, C(s), E(s))'
          PROVE  conn'[C(s)].jar <= hand'[s].jar
      <3>1. CASE s = r
        <4>1. Refresh(r)
          BY <2>3, <3>1, StepFits DEF Fits
        <4> QED
          BY <1>2, <1>4, <2>2, <3>1, <4>1
      <3>2. CASE s # r
        <4>1. pc[s] = "persist" /\ hand'[s] = hand[s]
          BY <1>2, <2>3, <3>2, RunMoves
        <4>2. HoldsUnattempted(s, C(s), E(s))
          BY <1>1, <2>2, <2>3, <4>1, LeaseWasHeld DEF HoldsUnattempted, At
        <4>3. conn'[C(s)].jar = conn[C(s)].jar
          BY <1>1, <2>2, <3>2, <4>2, CallRows
             DEF PersistCall, PersistRotated, HoldsUnattempted
        <4> QED
          BY <4>1, <4>2, <4>3 DEF JarInv, At
      <3> QED
        BY <3>1, <3>2
    <2> QED
      BY <2>1, <2>2, <2>3
  <1> QED
    BY <1>4, <1>5 DEF JarKept, JarInv, At

\* Outside the runs only a new session brings a jar, the newest one.
LEMMA EnvironmentJars ==
  ASSUME TypeOK, RunsOnRows, JarInv, Environment, UNCHANGED workerVars
  PROVE  JarKept /\ JarInv'
  <1>1. jars' \in {jars, jars + 1}
    BY DEF Environment, Tick, Midnight, Disconnect, Connect, Reconnect
  <1>2. ASSUME NEW c \in Connections
        PROVE  /\ conn'[c].epoch = conn[c].epoch => conn'[c].jar = conn[c].jar
               /\ conn'[c].jar <= jars'
               /\ conn'[c].state = "absent" => conn'[c].epoch = 0
    <2>1. /\ conn[c].jar <= jars
          /\ conn[c].state = "absent" => conn[c].epoch = 0
      BY DEF JarInv
    <2>2. /\ jars \in Nat /\ conn[c].jar \in Nat /\ conn[c].epoch \in Nat
          /\ conn[c] \in ConnectionRow
      BY RowTypes, JarTypes DEF TypeOK
    <2>3. CASE conn'[c] = conn[c]
      BY <1>1, <2>1, <2>2, <2>3
    <2>4. CASE conn'[c] = [conn[c] EXCEPT !.state = "deleted"]
      <3>1. /\ conn'[c].state = "deleted" /\ conn'[c].jar = conn[c].jar
        BY <2>2, <2>4 DEF ConnectionRow
      <3> QED
        BY <1>1, <2>1, <2>2, <3>1
    <2>5. CASE NewSession(c) /\ conn'[c].state = "live"
      BY <1>1, <2>1, <2>2, <2>5 DEF NewSession
    <2> QED
      BY <2>3, <2>4, <2>5, EnvironmentRows DEF RowKeptOrReplaced
  <1>3. ASSUME NEW s \in Runs
        PROVE  /\ hand'[s].jar <= jars'
               /\ At(s, "persist")' /\ HoldsUnattempted(s, C(s), E(s))'
                    => conn'[C(s)'].jar <= hand'[s].jar
    <2>1. /\ C(s)' = C(s) /\ E(s)' = E(s) /\ hand' = hand /\ pc' = pc
          /\ C(s) \in Connections
      BY RunTypes DEF workerVars, C, E
    <2>2. hand[s].jar <= jars'
      BY <1>1, JarTypes DEF JarInv
    <2>3. ASSUME At(s, "persist"), HoldsUnattempted(s, C(s), E(s))'
          PROVE  conn'[C(s)].jar <= hand[s].jar
      <3>1. /\ lease'[C(s)].token = s /\ lease'[C(s)].attempted = 0
            /\ conn'[C(s)].state = "live" /\ conn'[C(s)].epoch = E(s)
        BY <2>1, <2>3 DEF HoldsUnattempted, Current, Live
      <3>2. s # NoRun
        BY RunsAssumption
      <3>3. CASE conn'[C(s)] = conn[C(s)] /\ lease'[C(s)] = lease[C(s)]
        BY <2>1, <2>3, <3>1, <3>3 DEF JarInv, HoldsUnattempted, Current, Live
      <3>4. conn[C(s)].state # "absent"
        BY <2>3 DEF RunsOnRows, At
      <3>5. lease'[C(s)] # NoLease
        BY <3>1, <3>2 DEF NoLease
      <3>6. RowKeptOrReplaced(C(s))
        BY <2>1, EnvironmentRows
      <3> QED
        BY <3>3, <3>4, <3>5, <3>6 DEF RowKeptOrReplaced, NewSession
    <2> QED
      BY <2>1, <2>2, <2>3 DEF At, HoldsUnattempted, Current, Live
  <1>4. \A c \in Connections : conn[c].jar \in Nat
    BY JarTypes
  <1> QED
    BY <1>2, <1>3, <1>4 DEF JarKept, JarInv

LEMMA NextJars ==
  TypeOK /\ RunsOnRows /\ JarInv /\ [Next]_vars => JarKept /\ JarInv'
  <1> SUFFICES ASSUME TypeOK, RunsOnRows, JarInv, [Next]_vars
               PROVE  JarKept /\ JarInv'
    OBVIOUS
  <1>1. TypeOK'
    BY NextType
  <1>2. ASSUME NEW r \in Runs, NEW c \in Connections, NEW t \in Triggers,
               Start(r, c, t)
        PROVE  JarKept /\ JarInv'
    <2>1. /\ UNCHANGED <<conn, lease, jars, hand>>
          /\ \A s \in Runs : pc'[s] = "persist" =>
               /\ pc[s] = "persist" /\ job'[s] = job[s]
      BY <1>2 DEF Start, dbVars, Goto, TypeOK
    <2> QED
      BY <2>1, JarTypes
         DEF JarKept, JarInv, At, C, E, HoldsUnattempted, Current, Live
  <1>3. CASE UNCHANGED vars
    BY <1>3, JarTypes
       DEF vars, dbVars, workerVars, JarKept, JarInv, At, C, E,
           HoldsUnattempted, Current, Live
  <1> QED
    BY <1>1, <1>2, <1>3, CallJars, EnvironmentJars DEF Next

LEMMA InitJars == Init => JarInv
  <1> SUFFICES ASSUME Init PROVE JarInv
    OBVIOUS
  <1>1. /\ \A c \in Connections : conn[c].jar = 0 /\ conn[c].epoch = 0
        /\ \A r \in Runs : hand[r].jar = 0 /\ pc[r] = "idle"
        /\ jars = 0
    BY DEF Init, DatabaseInit, NoHand
  <1> QED
    BY <1>1 DEF JarInv, At

\* Within one epoch the stored jar is never replaced by an older one, however
\* many runs rotated the session and in whatever order their writes arrive.
THEOREM JarOnlyAdvances == Spec => JarNeverRegresses
  <1>1. TypeOK /\ FenceInv /\ JarInv /\ [Next]_vars => JarKept /\ JarInv'
    BY NextJars DEF FenceInv
  <1>2. TypeOK /\ FenceInv /\ JarInv /\ [Next]_vars
          => (TypeOK /\ FenceInv /\ JarInv)'
    BY <1>1, NextType, NextFenceInv
  <1>3. JarKept =>
           [\A c \in Connections :
              conn'[c].epoch = conn[c].epoch => conn'[c].jar >= conn[c].jar]_vars
    BY DEF JarKept
  <1> QED
    BY <1>1, <1>2, <1>3, InitType, InitFence, InitJars, PTL
       DEF Spec, JarNeverRegresses

-----------------------------------------------------------------------------
(* The expired sessions.                                                    *)

\* A run knows a session is over only from its own write, after which the
\* session is unusable for good; so no two runs know it of the same session.
NoticeInv ==
    /\ \A r \in Runs :
         /\ ctl[r].terminal => pc[r] # "idle" /\ ~Usable(C(r), E(r))
         /\ At(r, "expire") \/ r \in noticed => ctl[r].terminal
    /\ \A r, s \in Runs :
         r # s /\ ctl[r].terminal /\ ctl[s].terminal
            => C(r) # C(s) \/ E(r) # E(s)

TerminalSame == \A s \in Runs : ctl'[s].terminal = ctl[s].terminal

LEMMA TerminalUpdate ==
  ASSUME TypeOK, NEW r \in Runs, NEW v, NEW n,
         \/ UNCHANGED ctl
         \/ ctl' = [ctl EXCEPT ![r].held = v]
         \/ ctl' = [ctl EXCEPT ![r].handled = v]
         \/ ctl' = [ctl EXCEPT ![r].healthy = v]
         \/ ctl' = [ctl EXCEPT ![r].result = v]
         \/ ctl' = [ctl EXCEPT ![r].tries = v]
         \/ ctl' = [ctl EXCEPT ![r] = [@ EXCEPT !.held = v, !.tries = n]]
  PROVE  TerminalSame
  <1>1. ctl \in [Runs -> Control] /\ ctl[r] \in Control
    BY DEF TypeOK
  <1>2. \A s \in Runs \ {r} : ctl'[s] = ctl[s]
    BY <1>1
  <1>3. ctl'[r].terminal = ctl[r].terminal
    <2>1. CASE UNCHANGED ctl
      BY <2>1
    <2>2. CASE ctl' = [ctl EXCEPT ![r].held = v]
      BY <1>1, <2>2 DEF Control
    <2>3. CASE ctl' = [ctl EXCEPT ![r].handled = v]
      BY <1>1, <2>3 DEF Control
    <2>4. CASE ctl' = [ctl EXCEPT ![r].healthy = v]
      BY <1>1, <2>4 DEF Control
    <2>5. CASE ctl' = [ctl EXCEPT ![r].result = v]
      BY <1>1, <2>5 DEF Control
    <2>6. CASE ctl' = [ctl EXCEPT ![r].tries = v]
      BY <1>1, <2>6 DEF Control
    <2>7. CASE ctl' = [ctl EXCEPT ![r] = [@ EXCEPT !.held = v, !.tries = n]]
      BY <1>1, <2>7 DEF Control
    <2> QED
      BY <2>1, <2>2, <2>3, <2>4, <2>5, <2>6, <2>7
  <1> QED
    BY <1>2, <1>3 DEF TerminalSame

\* Only the lifecycle write decides whether the session is over.
LEMMA TerminalUnchanged ==
  ASSUME TypeOK, NEW r \in Runs, Proceed(r) \/ Crash(r), ~Lifecycle(r)
  PROVE  TerminalSame
  <1>1. CASE \/ AcquireRefused(r) \/ TakeDaily(r) \/ TakeManual(r)
             \/ ClaimRefused(r) \/ Load(r) \/ LoadMissing(r) \/ Renew(r)
             \/ RenewRefused(r) \/ Refresh(r) \/ Persist(r)
             \/ PersistRefused(r) \/ Prepare(r) \/ MarkStorefrontAttempt(r)
             \/ MarkRefused(r) \/ GetStore(r) \/ StoreReceived(r)
             \/ StoreAmbiguous(r) \/ LifecycleStale(r) \/ FailRetry(r)
             \/ CloseRefused(r) \/ SendExpiry(r) \/ Release(r)
             \/ HealthyStale(r) \/ CanonicalizeFails(r) \/ Extras(r)
             \/ ResolvePuuid(r) \/ PipelineFails(r) \/ Crash(r)
    <2>1. UNCHANGED ctl
      BY <1>1
         DEF AcquireRefused, TakeDaily, TakeManual, ClaimRefused, Load,
             LoadMissing, Renew, RenewRefused, Refresh, Persist,
             PersistRefused, Prepare, MarkStorefrontAttempt, MarkRefused,
             GetStore, StoreReceived, StoreAmbiguous, LifecycleStale,
             FailRetry, CloseRefused, SendExpiry, Release, HealthyStale,
             CanonicalizeFails, Extras, ResolvePuuid, PipelineFails, Crash
    <2> QED
      BY <2>1 DEF TerminalSame
  <1>2. CASE Acquire(r) \/ FailAmbiguous(r) \/ Close(r) \/ CallFails(r)
    <2>1. UNCHANGED ctl \/ \E v : ctl' = [ctl EXCEPT ![r].held = v]
      <3>1. CASE Acquire(r) \/ FailAmbiguous(r) \/ Close(r)
        BY <3>1 DEF Acquire, FailAmbiguous, Close
      <3>2. CASE CallFails(r)
        <4>1. ctl' = [ctl EXCEPT ![r].held =
                        IF At(r, "failAmbiguous") THEN FALSE ELSE ctl[r].held]
          BY <3>2 DEF CallFails
        <4> QED
          BY <4>1
      <3> QED
        BY <1>2, <3>1, <3>2
    <2> QED
      BY <2>1, TerminalUpdate
  <1>3. CASE Healthy(r) \/ StoreRejected(r) \/ RefreshFails(r)
    <2>1. \/ UNCHANGED ctl
          \/ \E v : ctl' = [ctl EXCEPT ![r].healthy = v]
          \/ \E v : ctl' = [ctl EXCEPT ![r].handled = v]
          \/ \E v : ctl' = [ctl EXCEPT ![r].result = v]
      BY <1>3 DEF Healthy, StoreRejected, RefreshFails
    <2> QED
      BY <2>1, TerminalUpdate
  <1>4. CASE \/ Record(r) \/ RecordReplayed(r) \/ RecordRefused(r)
             \/ Enrich(r) \/ EnrichRefused(r) \/ RecordCallFails(r)
    <2>1. \/ ctl' = [ctl EXCEPT ![r].tries = 1]
          \/ ctl' = [ctl EXCEPT ![r] = [@ EXCEPT !.held = FALSE, !.tries = 0]]
      BY <1>4 DEF Record, RecordReplayed, RecordRefused, Enrich,
                  EnrichRefused, RecordCallFails
    <2>2. CASE ctl' = [ctl EXCEPT ![r].tries = 1]
      BY <2>2, TerminalUpdate
    <2>3. CASE ctl' = [ctl EXCEPT ![r] = [@ EXCEPT !.held = FALSE, !.tries = 0]]
      BY <2>3, TerminalUpdate, Zenon
    <2> QED
      BY <2>1, <2>2, <2>3
  <1> QED
    BY <1>1, <1>2, <1>3, <1>4 DEF Proceed

\* An unusable session, once its row exists, is never usable again: neither a
\* status write nor a reconnect brings back the same epoch.
OverForGood ==
    \A c \in Connections, e \in Nat :
       conn[c].state # "absent" /\ e <= conn[c].epoch /\ ~Usable(c, e)
       => ~Usable(c, e)'

LEMMA NextOver ==
  ASSUME TypeOK, TypeOK', [Next]_vars
  PROVE  OverForGood
  <1>1. ASSUME UNCHANGED conn PROVE OverForGood
    BY <1>1 DEF OverForGood, Usable, Current, Live
  <1>2. ASSUME NEW r \in Runs, Proceed(r) \/ Crash(r) PROVE OverForGood
    <2>1. \A c \in Connections :
             /\ conn'[c].state = conn[c].state /\ conn'[c].epoch = conn[c].epoch
             /\ conn[c].auth = "REAUTH_REQUIRED"
                  => conn'[c].auth = "REAUTH_REQUIRED"
      BY <1>2, RunCalls, CallRows
    <2> QED
      BY <2>1 DEF OverForGood, Usable, Current, Live
  <1>3. ASSUME Environment PROVE OverForGood
    <2> SUFFICES ASSUME NEW c \in Connections, NEW e \in Nat,
                        conn[c].state # "absent", e <= conn[c].epoch,
                        ~Usable(c, e)
                 PROVE  ~Usable(c, e)'
      BY DEF OverForGood
    <2>1. RowKeptOrReplaced(c) /\ conn[c].epoch \in Nat /\ conn[c] \in ConnectionRow
      BY <1>3, EnvironmentRows, JarTypes, RowTypes DEF TypeOK
    <2>2. CASE conn'[c] = conn[c]
      BY <2>2 DEF Usable, Current, Live
    <2>3. CASE conn'[c] = [conn[c] EXCEPT !.state = "deleted"]
      BY <2>1, <2>3 DEF Usable, Current, Live, ConnectionRow
    <2>4. CASE NewSession(c)
      <3>1. conn'[c].epoch # e
        BY <2>1, <2>4 DEF NewSession
      <3> QED
        BY <3>1 DEF Usable, Current
    <2> QED
      BY <2>1, <2>2, <2>3, <2>4 DEF RowKeptOrReplaced
  <1>4. ASSUME NEW r \in Runs, NEW c \in Connections, NEW t \in Triggers,
               Start(r, c, t)
        PROVE  UNCHANGED conn
    BY <1>4 DEF Start, dbVars
  <1> QED
    BY <1>1, <1>2, <1>3, <1>4 DEF Next, vars, dbVars

\* A step after which the same runs know their session is over.
LEMMA NoticeKept ==
  ASSUME TypeOK, TypeOK', RunsOnRows, NoticeInv, OverForGood, TerminalSame,
         \A s \in Runs : ctl[s].terminal => pc'[s] # "idle" /\ job'[s] = job[s],
         \A s \in Runs :
            pc'[s] = "expire" \/ s \in noticed' => ctl[s].terminal
  PROVE  NoticeInv'
  <1>1. ASSUME NEW s \in Runs, ctl[s].terminal
        PROVE  ~Usable(C(s), E(s))' /\ C(s)' = C(s) /\ E(s)' = E(s)
    <2>1. /\ C(s)' = C(s) /\ E(s)' = E(s)
          /\ C(s) \in Connections /\ E(s) \in Nat
      BY <1>1, RunTypes DEF C, E
    <2>2. /\ conn[C(s)].state # "absent" /\ E(s) <= conn[C(s)].epoch
          /\ ~Usable(C(s), E(s))
      BY <1>1 DEF NoticeInv, RunsOnRows
    <2>3. \A c \in Connections, e \in Nat :
             conn[c].state # "absent" /\ e <= conn[c].epoch /\ ~Usable(c, e)
             => ~(/\ conn'[c].state = "live" /\ conn'[c].epoch = e
                  /\ conn'[c].auth # "REAUTH_REQUIRED")
      BY DEF OverForGood, Usable, Current, Live
    <2>4. ~(/\ conn'[C(s)].state = "live" /\ conn'[C(s)].epoch = E(s)
            /\ conn'[C(s)].auth # "REAUTH_REQUIRED")
      BY <2>1, <2>2, <2>3
    <2> QED
      BY <2>1, <2>4 DEF Usable, Current, Live
  <1> QED
    BY <1>1 DEF NoticeInv, TerminalSame, At

\* The write that ends a session finds it usable, so nobody ended it before.
LEMMA LifecycleNotice ==
  ASSUME TypeOK, TypeOK', RunsOnRows, NoticeInv, OverForGood, NEW r \in Runs,
         Lifecycle(r), ~TerminalSame
  PROVE  NoticeInv'
  <1> DEFINE over == Terminal(job[r].failures, ctl[r].result)
  <1>1. Usable(C(r), E(r)) /\ UNCHANGED noticed
    BY DEF Lifecycle, ApplyLifecycle, local
  <1>2. ctl' = [ctl EXCEPT ![r].terminal = over]
    BY DEF Lifecycle, TerminalSame
  <1>3. /\ ~ctl[r].terminal /\ r \notin noticed
    BY <1>1 DEF NoticeInv
  <1>4. /\ \A s \in Runs \ {r} : ctl'[s].terminal = ctl[s].terminal
        /\ ctl'[r].terminal = over
    BY <1>2 DEF TypeOK, Control
  <1>5. over
    <2>1. over \in BOOLEAN /\ ctl[r].terminal \in BOOLEAN
      BY RunTypes DEF Terminal, Control
    <2> HIDE DEF over
    <2>2. ASSUME ~over PROVE FALSE
      <3>1. over = ctl[r].terminal
        BY <1>3, <2>1, <2>2
      <3> QED
        BY <1>4, <3>1 DEF TerminalSame
    <2> QED
      BY <2>2
  <1>6. conn'[C(r)].auth = "REAUTH_REQUIRED"
    <2>1. C(r) \in Connections /\ conn[C(r)] \in ConnectionRow
      BY RunTypes, RowTypes DEF TypeOK
    <2>2. CheckedRow(conn[C(r)], job[r].failures, ctl[r].result).auth
             = "REAUTH_REQUIRED"
      <3>1. NextAuth(job[r].failures, ctl[r].result) = "REAUTH_REQUIRED"
        <4>1. \A f \in Nat, result \in {"OK", "DEAD", "TRANSIENT"} :
                 Terminal(f, result) => NextAuth(f, result) = "REAUTH_REQUIRED"
          BY DEF Terminal, NextAuth
        <4>2. /\ job[r].failures \in Nat
              /\ ctl[r].result \in {"OK", "DEAD", "TRANSIENT"}
          BY RunTypes DEF Control
        <4>3. Terminal(job[r].failures, ctl[r].result)
          BY <1>5 DEF over
        <4> QED
          BY <4>1, <4>2, <4>3
      <3>2. \A f, result :
               CheckedRow(conn[C(r)], f, result).auth = NextAuth(f, result)
        BY <2>1 DEF CheckedRow, ConnectionRow
      <3> QED
        BY <3>1, <3>2
    <2>3. conn' = [conn EXCEPT ![C(r)] =
                     CheckedRow(conn[C(r)], job[r].failures, ctl[r].result)]
      BY DEF Lifecycle, ApplyLifecycle
    <2> HIDE DEF CheckedRow
    <2> QED
      BY <2>1, <2>2, <2>3 DEF TypeOK, DatabaseTypeOK
  <1>7. /\ UNCHANGED job /\ pc[r] # "idle"
        /\ \A s \in Runs \ {r} : pc'[s] = pc[s]
        /\ pc'[r] \notin {"idle", "expire"}
    <2>1. UNCHANGED job /\ pc[r] # "idle" /\ \A s \in Runs \ {r} : pc'[s] = pc[s]
      BY RunMoves DEF Proceed
    <2>2. Goto(r, Finalize(r))
      BY FitSteps DEF Lifecycle
    <2>3. Finalize(r) \notin {"idle", "expire"}
      BY DEF Finalize
    <2> QED
      BY <2>1, <2>2, <2>3 DEF Goto, TypeOK
  <1> HIDE DEF over
  <1>8. \A s \in Runs : C(s)' = C(s) /\ E(s)' = E(s)
    BY <1>7 DEF C, E
  <1>9. ASSUME NEW s \in Runs, ctl[s].terminal
        PROVE  /\ ~Usable(C(s), E(s))' /\ s # r
               /\ C(s) # C(r) \/ E(s) # E(r)
    <2>1. C(s) \in Connections /\ E(s) \in Nat
      BY RunTypes
    <2>2. /\ conn[C(s)].state # "absent" /\ E(s) <= conn[C(s)].epoch
          /\ ~Usable(C(s), E(s))
      BY <1>9 DEF NoticeInv, RunsOnRows
    <2>3. \A c \in Connections, e \in Nat :
             conn[c].state # "absent" /\ e <= conn[c].epoch /\ ~Usable(c, e)
             => ~(/\ conn'[c].state = "live" /\ conn'[c].epoch = e
                  /\ conn'[c].auth # "REAUTH_REQUIRED")
      BY DEF OverForGood, Usable, Current, Live
    <2>4. ~Usable(C(s), E(s))'
      BY <1>8, <2>1, <2>2, <2>3 DEF Usable, Current, Live
    <2> QED
      BY <1>1, <1>3, <1>9, <2>2, <2>4
  <1>10. ~Usable(C(r), E(r))'
    BY <1>6, <1>8 DEF Usable
  <1> QED
    BY <1>1, <1>3, <1>4, <1>5, <1>7, <1>8, <1>9, <1>10 DEF NoticeInv, At

LEMMA NextNotice ==
  TypeOK /\ RunsOnRows /\ NoticeInv /\ [Next]_vars => NoticeInv'
  <1> SUFFICES ASSUME TypeOK, RunsOnRows, NoticeInv, [Next]_vars
               PROVE  NoticeInv'
    OBVIOUS
  <1>1. TypeOK' /\ OverForGood
    BY NextType, NextOver
  <1>2. ASSUME NEW r \in Runs, Proceed(r) \/ Crash(r) PROVE NoticeInv'
    <2>1. CASE Lifecycle(r) /\ ~TerminalSame
      BY <1>1, <2>1, LifecycleNotice
    <2>2. CASE TerminalSame
      <3>1. /\ UNCHANGED job /\ pc[r] # "idle"
            /\ \A s \in Runs \ {r} : pc'[s] = pc[s]
        BY <1>2, RunMoves
      <3>2. pc'[r] = "expire" => ctl[r].terminal
        <4>1. CASE Refresh(r)
          BY <4>1 DEF Refresh, Goto, TypeOK
        <4>2. CASE ~Refresh(r)
          BY <1>2, <4>2, StepFits DEF Fits
        <4> QED
          BY <4>1, <4>2
      <3>3. pc'[r] # "idle"
        <4>1. CASE Acquire(r) \/ MarkStorefrontAttempt(r) \/ GetStore(r)
          <5>1. OnError(r) # "idle"
            BY LaterSteps DEF Later, Unclaimed
          <5> QED
            BY <4>1, <5>1 DEF Acquire, MarkStorefrontAttempt, GetStore, Reply,
                              Answer, Goto, TypeOK
        <4>2. CASE ~(Acquire(r) \/ MarkStorefrontAttempt(r) \/ GetStore(r))
          <5>1. PICK x \in Later : Goto(r, x)
            BY <1>2, <4>2, AnsweredNext, RepliedNext DEF Answer, Proceed
          <5> QED
            BY <5>1 DEF Goto, Later, Unclaimed, TypeOK
        <4> QED
          BY <4>1, <4>2
      <3>4. noticed' \subseteq noticed \cup {r}
            /\ (r \in noticed' => r \in noticed \/ At(r, "expire"))
        <4>1. CASE SendExpiry(r)
          BY <4>1 DEF SendExpiry
        <4>2. CASE ~SendExpiry(r)
          <5>1. UNCHANGED noticed
            BY <1>2, <4>2
               DEF Proceed, Acquire, AcquireRefused, TakeDaily, TakeManual,
                   ClaimRefused, Load, LoadMissing, Renew, RenewRefused,
                   Refresh, RefreshFails, Persist, PersistRefused, Prepare,
                   MarkStorefrontAttempt, MarkRefused, GetStore,
                   StoreReceived, StoreRejected, StoreAmbiguous, Lifecycle,
                   LifecycleStale, FailRetry, FailAmbiguous, Close,
                   CloseRefused, Release, Healthy, HealthyStale,
                   CanonicalizeFails, Record, RecordReplayed, RecordRefused,
                   Extras, ResolvePuuid, Enrich, PipelineFails,
                   EnrichRefused, CallFails, RecordCallFails, Crash, local
          <5> QED
            BY <5>1
        <4> QED
          BY <4>1, <4>2
      <3>5. \A s \in Runs :
               pc'[s] = "expire" \/ s \in noticed' => ctl[s].terminal
        BY <3>1, <3>2, <3>4 DEF NoticeInv, At
      <3>6. \A s \in Runs :
               ctl[s].terminal => pc'[s] # "idle" /\ job'[s] = job[s]
        BY <3>1, <3>3 DEF NoticeInv
      <3> QED
        BY <1>1, <2>2, <3>5, <3>6, NoticeKept
    <2> QED
      BY <1>2, <2>1, <2>2, TerminalUnchanged
  <1>3. ASSUME NEW r \in Runs, NEW c \in Connections, NEW t \in Triggers,
               Start(r, c, t)
        PROVE  NoticeInv'
    <2>1. /\ UNCHANGED <<ctl, noticed>> /\ pc[r] = "idle"
          /\ \A s \in Runs \ {r} : pc'[s] = pc[s] /\ job'[s] = job[s]
          /\ pc'[r] \notin {"idle", "expire"}
      BY <1>3 DEF Start, At, Goto, TypeOK
    <2>2. TerminalSame
      BY <2>1 DEF TerminalSame
    <2>3. \A s \in Runs :
             /\ ctl[s].terminal => pc'[s] # "idle" /\ job'[s] = job[s]
             /\ pc'[s] = "expire" \/ s \in noticed' => ctl[s].terminal
      BY <2>1 DEF NoticeInv, At
    <2> QED
      BY <1>1, <2>2, <2>3, NoticeKept
  <1>4. ASSUME UNCHANGED workerVars PROVE NoticeInv'
    <2>1. UNCHANGED <<pc, job, ctl, noticed>>
      BY <1>4 DEF workerVars
    <2>2. TerminalSame
      BY <2>1 DEF TerminalSame
    <2>3. \A s \in Runs :
             /\ ctl[s].terminal => pc'[s] # "idle" /\ job'[s] = job[s]
             /\ pc'[s] = "expire" \/ s \in noticed' => ctl[s].terminal
      BY <2>1 DEF NoticeInv, At
    <2> QED
      BY <1>1, <2>2, <2>3, NoticeKept
  <1> QED
    BY <1>2, <1>3, <1>4 DEF Next, vars

LEMMA InitNotice == Init => NoticeInv
  <1> SUFFICES ASSUME Init PROVE NoticeInv
    OBVIOUS
  <1>1. /\ \A r \in Runs : ~ctl[r].terminal /\ pc[r] = "idle"
        /\ noticed = {}
    BY DEF Init, NewControl
  <1> QED
    BY <1>1 DEF NoticeInv, At

\* One session is announced expired at most once, whichever runs find it dead
\* at the same time.
THEOREM OneNotice == Spec => []OneExpiryNotice
  <1>1. TypeOK /\ FenceInv /\ NoticeInv /\ [Next]_vars
          => (TypeOK /\ FenceInv /\ NoticeInv)'
    BY NextType, NextFenceInv, NextNotice DEF FenceInv
  <1>2. TypeOK /\ NoticeInv => OneExpiryNotice
    BY DEF TypeOK, NoticeInv, OneExpiryNotice
  <1> QED
    BY <1>1, <1>2, InitType, InitFence, InitNotice, PTL DEF Spec

-----------------------------------------------------------------------------
(* No lease is left behind.                                                 *)

\* A row that can still be claimed or marked has no failure on it yet.
FreshRows ==
    /\ \A c \in Connections, d \in Days :
         daily[c][d].stamp = 0 => ~daily[c][d].failed
    /\ \A a \in Accounts, d \in Days :
         manual[a][d].status = "claimed" => ~manual[a][d].failed

LEMMA DailyRowFresh ==
  ASSUME TypeOK, FreshRows, UNCHANGED manual,
         NEW c \in Connections, NEW d \in Days, NEW row,
         daily' = [daily EXCEPT ![c][d] = row],
         row.stamp = 0 => ~row.failed
  PROVE  FreshRows'
  <1>1. \A x \in Connections, y \in Days :
           daily'[x][y] = IF x = c /\ y = d THEN row ELSE daily[x][y]
    BY DEF TypeOK, DatabaseTypeOK
  <1> QED
    BY <1>1 DEF FreshRows

LEMMA ManualRowFresh ==
  ASSUME TypeOK, FreshRows, UNCHANGED daily,
         NEW a \in Accounts, NEW d \in Days, NEW row,
         manual' = [manual EXCEPT ![a][d] = row],
         row.status = "claimed" => ~row.failed
  PROVE  FreshRows'
  <1>1. \A x \in Accounts, y \in Days :
           manual'[x][y] = IF x = a /\ y = d THEN row ELSE manual[x][y]
    BY DEF TypeOK, DatabaseTypeOK
  <1> QED
    BY <1>1 DEF FreshRows

LEMMA ClaimFresh ==
  ASSUME TypeOK, FreshRows, NEW r \in Runs, ClaimCall(r)
  PROVE  FreshRows'
  <1> DEFINE c == C(r)
             a == conn[c].puuid
             new == [taken |-> TRUE, epoch |-> E(r), at |-> now, stamp |-> 0,
                     failed |-> FALSE]
             row == [status |-> "claimed", conn |-> c, epoch |-> E(r),
                     token |-> r, at |-> now, stamp |-> 0, failed |-> FALSE]
  <1>1. c \in Connections /\ today \in Days
    BY RunTypes DEF TypeOK, DatabaseTypeOK
  <1>2. ~new.failed /\ ~row.failed
    OBVIOUS
  <1>3. CASE ClaimDaily(r, c, E(r))
    <2>1. daily' = [daily EXCEPT ![c][today] = new] /\ UNCHANGED manual
      BY <1>3 DEF ClaimDaily
    <2> HIDE DEF new, c
    <2> QED
      BY <1>1, <1>2, <2>1, DailyRowFresh
  <1>4. CASE ClaimManual(r, c, E(r))
    <2>1. manual' = [manual EXCEPT ![a][today] = row] /\ UNCHANGED daily
      BY <1>4 DEF ClaimManual
    <2>2. a \in Accounts
      BY <1>4, RunTypes, ClaimManualType DEF TypeOK
    <2> HIDE DEF row, a, c
    <2> QED
      BY <1>1, <1>2, <2>1, <2>2, ManualRowFresh
  <1> QED
    BY <1>3, <1>4 DEF ClaimCall

LEMMA MarkFresh ==
  ASSUME TypeOK, FreshRows, NEW r \in Runs, MarkCall(r)
  PROVE  FreshRows'
  <1> DEFINE c == C(r)
             a == A(r)
             d == D(r)
             new == [daily[c][d] EXCEPT !.stamp = lastMark + 1]
             row == [manual[a][d] EXCEPT !.status = "requesting",
                                         !.stamp = lastMark + 1]
  <1>1. /\ c \in Connections /\ a \in Accounts /\ d \in Days
        /\ daily[c][d] \in DailyRow /\ manual[a][d] \in ManualRow
    BY RunTypes, RowTypes DEF TypeOK
  <1>2. new.stamp = lastMark + 1 /\ row.status = "requesting"
    BY <1>1 DEF DailyRow, ManualRow
  <1>3. lastMark + 1 # 0
    BY DEF TypeOK, DatabaseTypeOK
  <1>4. CASE MarkDaily(r, c, E(r), d)
    <2>1. daily' = [daily EXCEPT ![c][d] = new] /\ UNCHANGED manual
      BY <1>4 DEF MarkDaily
    <2> HIDE DEF new, c, d
    <2> QED
      BY <1>1, <1>2, <1>3, <2>1, DailyRowFresh
  <1>5. CASE MarkManual(r, c, E(r), a, d)
    <2>1. manual' = [manual EXCEPT ![a][d] = row] /\ UNCHANGED daily
      BY <1>5 DEF MarkManual
    <2> HIDE DEF row, a, d
    <2> QED
      BY <1>1, <1>2, <2>1, ManualRowFresh
  <1> QED
    BY <1>4, <1>5 DEF MarkCall

LEMMA SettleFresh ==
  ASSUME TypeOK, FreshRows, NEW r \in Runs,
         FailCall(r) \/ CloseCall(r) \/ RecordCall(r)
  PROVE  FreshRows'
  <1> DEFINE c == C(r)
             a == A(r)
             d == D(r)
             m == manual[a][d]
             new == [daily[c][d] EXCEPT !.failed = TRUE]
             over == [m EXCEPT !.failed = TRUE]
             back == [m EXCEPT !.status = "retryable_failed", !.failed = TRUE]
             good == [m EXCEPT !.status = "succeeded"]
  <1>1. /\ c \in Connections /\ a \in Accounts /\ d \in Days
        /\ daily[c][d] \in DailyRow /\ m \in ManualRow
    BY RunTypes, RowTypes DEF TypeOK
  <1>2. /\ new.stamp = daily[c][d].stamp
        /\ over.status = m.status
        /\ back.status = "retryable_failed" /\ good.status = "succeeded"
    BY <1>1 DEF DailyRow, ManualRow
  <1>3. CASE CloseDaily(r, c, E(r), d)
    <2>1. daily' = [daily EXCEPT ![c][d] = new] /\ UNCHANGED manual
      BY <1>3 DEF CloseDaily
    <2>2. new.stamp # 0
      BY <1>2, <1>3 DEF CloseDaily, DailyClosable, OwnsAttempt
    <2> HIDE DEF new, c, d
    <2> QED
      BY <1>1, <2>1, <2>2, DailyRowFresh
  <1>4. ASSUME manual' = [manual EXCEPT ![a][d].failed = TRUE],
               UNCHANGED daily, m.status = "requesting"
        PROVE  FreshRows'
    <2>1. manual' = [manual EXCEPT ![a][d] = over]
      BY <1>4
    <2>2. over.status = "requesting"
      BY <1>2, <1>4
    <2> HIDE DEF over, m, a, d
    <2> QED
      BY <1>1, <1>4, <2>1, <2>2, ManualRowFresh
  <1>5. CASE CloseManual(r, c, E(r), a, d)
    BY <1>4, <1>5 DEF CloseManual, ManualClosable
  <1>6. CASE FailManualFinal(r, c, E(r), a, d)
    <2>1. CASE ManualExhaustable(r, c, E(r), a, d)
      BY <1>4, <1>6, <2>1 DEF FailManualFinal, ManualExhaustable
    <2>2. CASE ~ManualExhaustable(r, c, E(r), a, d)
      BY <1>6, <2>2 DEF FailManualFinal, FreshRows
    <2> QED
      BY <2>1, <2>2
  <1>7. CASE FailManualRetryable(r, c, E(r), a, d)
    <2>1. CASE ManualReleasable(r, c, E(r), a, d)
      <3>1. manual' = [manual EXCEPT ![a][d] = back] /\ UNCHANGED daily
        BY <1>7, <2>1 DEF FailManualRetryable
      <3> HIDE DEF back, m, a, d
      <3> QED
        BY <1>1, <1>2, <3>1, ManualRowFresh
    <2>2. CASE ~ManualReleasable(r, c, E(r), a, d)
      BY <1>7, <2>2 DEF FailManualRetryable, FreshRows
    <2> QED
      BY <2>1, <2>2
  <1>8. CASE RecordManual(r, c, E(r), a, d, attempt[r])
    <2>1. manual' = [manual EXCEPT ![a][d] = good] /\ UNCHANGED daily
      BY <1>8 DEF RecordManual
    <2> HIDE DEF good, m, a, d
    <2> QED
      BY <1>1, <1>2, <2>1, ManualRowFresh
  <1>9. CASE RecordDaily(r, c, E(r), d, attempt[r])
    BY <1>9 DEF RecordDaily, FreshRows
  <1> QED
    BY <1>3, <1>5, <1>6, <1>7, <1>8, <1>9 DEF FailCall, CloseCall, RecordCall

LEMMA CallFresh ==
  ASSUME TypeOK, FreshRows, NEW r \in Runs, DatabaseCall(r)
  PROVE  FreshRows'
  <1>1. CASE UNCHANGED <<daily, manual>>
    BY <1>1 DEF FreshRows
  <1>2. CASE ClaimCall(r)
    BY <1>2, ClaimFresh
  <1>3. CASE MarkCall(r)
    BY <1>3, MarkFresh
  <1>4. CASE FailCall(r) \/ CloseCall(r) \/ RecordCall(r)
    BY <1>4, SettleFresh
  <1> QED
    BY <1>1, <1>2, <1>3, <1>4
       DEF DatabaseCall, dbVars, NewJar, LeaseCall, DecorateCall, PersistCall,
           StatusCall, IdentityCall, ClaimRotation, RenewRotation,
           ReleaseRotation, EnrichShop, WriteExtras, PersistRotated,
           ApplyLifecycle, PersistPuuid

LEMMA NextFresh == TypeOK /\ FreshRows /\ [Next]_vars => FreshRows'
  <1> SUFFICES ASSUME TypeOK, FreshRows, [Next]_vars PROVE FreshRows'
    OBVIOUS
  <1>1. ASSUME NEW r \in Runs, Proceed(r) \/ Crash(r) PROVE FreshRows'
    BY <1>1, RunCalls, CallFresh
  <1>2. CASE UNCHANGED <<daily, manual>>
    BY <1>2 DEF FreshRows
  <1>3. ASSUME NEW r \in Runs, NEW c \in Connections, NEW t \in Triggers,
               Start(r, c, t)
        PROVE  UNCHANGED <<daily, manual>>
    BY <1>3 DEF Start, dbVars
  <1>4. CASE Environment
    BY <1>4 DEF Environment, Tick, Midnight, Disconnect, Connect, Reconnect,
                FreshRows
  <1>5. CASE UNCHANGED vars
    BY <1>2, <1>5 DEF vars, dbVars
  <1> QED
    BY <1>1, <1>2, <1>3, <1>4, <1>5 DEF Next

LEMMA InitFresh == Init => FreshRows
  BY DEF Init, DatabaseInit, FreshRows, NoDaily, NoManual

\* Where a run is while it holds a lease.  Before its request it is on its way
\* to the request or to the release; after it, on its way to the close or the
\* record; once its request is ambiguous it keeps the lease for good.
Unfenced == {"claim", "load", "renew", "refresh", "persist", "prepare",
             "mark", "lifecycle", "failRetry", "expire", "release"}
Fenced == {"fetch", "awaiting", "lifecycle", "close", "healthy", "record"}
Abandoned == {"lifecycle", "failAmbiguous", "expire", "release", "done"}

InStep(r) ==
    /\ attempt[r] = 0 => pc[r] \in Unfenced /\ ctl[r].held
    /\ attempt[r] # 0 /\ r \notin uncertain =>
         /\ pc[r] \in Fenced /\ ctl[r].held
         /\ At(r, "lifecycle") => ctl[r].handled
    /\ attempt[r] # 0 /\ r \in uncertain => pc[r] \in Abandoned

\* The row that close_riot_storefront_attempt looks for: the run's own, with
\* its stamp and not yet failed.
Closable(r) ==
    IF IsManual(r)
    THEN /\ ClaimedRow(r, C(r), E(r), A(r), D(r))
         /\ manual[A(r)][D(r)].status = "requesting"
         /\ manual[A(r)][D(r)].stamp = attempt[r] /\ ~manual[A(r)][D(r)].failed
    ELSE /\ daily[C(r)][D(r)].epoch = E(r)
         /\ daily[C(r)][D(r)].stamp = attempt[r] /\ ~daily[C(r)][D(r)].failed

OnLease(r) ==
    /\ Current(C(r), E(r)) /\ lease[C(r)].attempted = attempt[r]
    /\ attempt[r] # 0 /\ r \notin uncertain =>
         lease[C(r)].day = D(r) /\ Closable(r)

\* Why no lease is left behind, as an inductive invariant: a run that met no
\* fault and whose token is on a lease still has a step ahead of it that lets
\* the lease go, and the rows that this step looks for.
LeaseInHand ==
    \A r \in Runs, c \in Connections :
       faults[r] = 0 /\ lease[c].token = r
       => c = C(r) /\ InStep(r) /\ OnLease(r)

\* The rows of a request in flight are not touched by other runs.
LEMMA ClosableKept ==
  ASSUME TypeOK, StampsRecorded, NEW r \in Runs, NEW s \in Runs, r # s,
         DatabaseCall(s), lease[C(r)].token = r, attempt[r] # 0, Closable(r),
         job'[r] = job[r], claim'[r] = claim[r], attempt'[r] = attempt[r]
  PROVE  Closable(r)'
  <1>1. /\ C(r) \in Connections /\ D(r) \in Days /\ A(r) \in Accounts
        /\ C(s) \in Connections /\ D(s) \in Days /\ A(s) \in Accounts
        /\ today \in Days
        /\ daily \in [Connections -> [Days -> DailyRow]]
        /\ manual \in [Accounts -> [Days -> ManualRow]]
    BY RunTypes DEF TypeOK, DatabaseTypeOK
  <1>2. /\ C(r)' = C(r) /\ E(r)' = E(r) /\ D(r)' = D(r) /\ A(r)' = A(r)
        /\ IsManual(r)' = IsManual(r)
    BY DEF C, E, D, A, IsManual
  <1>3. CASE IsManual(r)
    <2>1. /\ manual[A(r)][D(r)].token = r
          /\ manual[A(r)][D(r)].status = "requesting"
      BY <1>3 DEF Closable, ClaimedRow
    <2>2. manual'[A(r)][D(r)] = manual[A(r)][D(r)]
      <3>1. CASE ClaimCall(s)
        <4>1. CASE ClaimDaily(s, C(s), E(s))
          BY <4>1 DEF ClaimDaily
        <4>2. CASE ClaimManual(s, C(s), E(s))
          <5> DEFINE p == conn[C(s)].puuid
                     row == [status |-> "claimed", conn |-> C(s),
                             epoch |-> E(s), token |-> s, at |-> now,
                             stamp |-> 0, failed |-> FALSE]
          <5>1. manual' = [manual EXCEPT ![p][today] = row]
            BY <4>2 DEF ClaimManual
          <5>2. manual[p][today].status # "requesting"
            BY <4>2 DEF ClaimManual, ManualClaimable, ManualFree
          <5> HIDE DEF p, row
          <5> QED
            BY <1>1, <2>1, <5>1, <5>2
        <4> QED
          BY <3>1, <4>1, <4>2 DEF ClaimCall
      <3>2. CASE MarkCall(s)
        BY <1>1, <2>1, <3>2 DEF MarkCall, MarkDaily, MarkManual,
                                ManualMarkable
      <3>3. CASE FailCall(s)
        BY <1>1, <2>1, <3>3
           DEF FailCall, FailManualRetryable, FailManualFinal,
               ManualReleasable, ManualExhaustable, ClaimedRow
      <3>4. CASE CloseCall(s) \/ RecordCall(s)
        BY <1>1, <2>1, <3>4
           DEF CloseCall, CloseDaily, CloseManual, ManualClosable, RecordCall,
               RecordDaily, RecordManual, Completable, Completed, ClaimedRow
      <3>5. CASE UNCHANGED manual
        BY <3>5
      <3> QED
        BY <3>1, <3>2, <3>3, <3>4, <3>5
           DEF DatabaseCall, dbVars, NewJar, LeaseCall, DecorateCall,
               PersistCall, StatusCall, IdentityCall, ClaimRotation,
               RenewRotation, ReleaseRotation, EnrichShop, WriteExtras,
               PersistRotated, ApplyLifecycle, PersistPuuid
    <2> QED
      BY <1>2, <1>3, <2>2 DEF Closable, ClaimedRow
  <1>4. CASE ~IsManual(r)
    <2>1. /\ daily[C(r)][D(r)].stamp # 0 /\ daily[C(r)][D(r)].taken
      BY <1>1, <1>4 DEF Closable, StampsRecorded
    <2>2. daily'[C(r)][D(r)] = daily[C(r)][D(r)]
      <3>1. CASE ClaimCall(s)
        BY <1>1, <2>1, <3>1
           DEF ClaimCall, ClaimDaily, ClaimManual, DailyClaimable
      <3>2. CASE MarkCall(s)
        BY <1>1, <2>1, <3>2 DEF MarkCall, MarkDaily, MarkManual, DailyMarkable
      <3>3. CASE CloseCall(s)
        BY <1>1, <3>3
           DEF CloseCall, CloseDaily, CloseManual, DailyClosable, OwnsAttempt
      <3>4. CASE UNCHANGED daily
        BY <3>4
      <3> QED
        BY <3>1, <3>2, <3>3, <3>4
           DEF DatabaseCall, dbVars, NewJar, LeaseCall, DecorateCall, FailCall,
               FailManualRetryable, FailManualFinal, RecordCall, RecordDaily,
               RecordManual, PersistCall, StatusCall, IdentityCall,
               ClaimRotation, RenewRotation, ReleaseRotation, EnrichShop,
               WriteExtras, PersistRotated, ApplyLifecycle, PersistPuuid
    <2> QED
      BY <1>2, <1>4, <2>2 DEF Closable
  <1> QED
    BY <1>3, <1>4

\* What a run has in hand is its own as long as it does not step itself.
LocalKept(r) ==
    /\ pc'[r] = pc[r] /\ job'[r] = job[r] /\ claim'[r] = claim[r]
    /\ attempt'[r] = attempt[r] /\ ctl'[r] = ctl[r] /\ faults'[r] = faults[r]
    /\ (r \in uncertain)' <=> r \in uncertain

LEMMA OthersInHand ==
  ASSUME TypeOK, LeaseInHand, NEW r \in Runs, LocalKept(r),
         NEW c \in Connections, faults'[r] = 0, lease'[c].token = r,
         lease[c].token = r, lease'[c].attempted = lease[c].attempted,
         lease'[c].day = lease[c].day,
         Current(C(r), E(r)) => conn'[c].state = conn[c].state
                                /\ conn'[c].epoch = conn[c].epoch,
         attempt[r] # 0 /\ Closable(r) => Closable(r)'
  PROVE  c = C(r)' /\ InStep(r)' /\ OnLease(r)'
  <1>1. c = C(r) /\ InStep(r) /\ OnLease(r)
    BY DEF LeaseInHand, LocalKept
  <1>2. /\ C(r)' = C(r) /\ E(r)' = E(r) /\ D(r)' = D(r)
    BY DEF LocalKept, C, E, D
  <1>3. InStep(r)'
    BY <1>1 DEF LocalKept, InStep, At
  <1>4. Current(C(r), E(r))'
    BY <1>1, <1>2 DEF OnLease, Current, Live
  <1>5. attempt[r] # 0 /\ r \notin uncertain => Closable(r)'
    BY <1>1 DEF OnLease
  <1> QED
    BY <1>1, <1>2, <1>3, <1>4, <1>5 DEF OnLease, LocalKept

LEMMA FaultMoves ==
  ASSUME TypeOK, NEW r \in Runs, Proceed(r) \/ Crash(r)
  PROVE  /\ UNCHANGED faults \/ Fault(r)
         /\ \A s \in Runs \ {r} : faults'[s] = faults[s]
         /\ faults'[r] = 0 => faults[r] = 0 /\ ~Fault(r)
  <1>1. UNCHANGED faults \/ Fault(r)
    BY DEF Proceed, Crash, Acquire, AcquireRefused, TakeDaily, TakeManual,
           ClaimRefused, Load, LoadMissing, Renew, RenewRefused, Refresh,
           RefreshFails, Persist, PersistRefused, Prepare,
           MarkStorefrontAttempt, MarkRefused, GetStore, StoreReceived,
           StoreRejected, StoreAmbiguous, Lifecycle, LifecycleStale, FailRetry,
           FailAmbiguous, Close, CloseRefused, SendExpiry, Release, Healthy,
           HealthyStale, CanonicalizeFails, Record, RecordReplayed,
           RecordRefused, Extras, ResolvePuuid, Enrich, PipelineFails,
           EnrichRefused, CallFails, RecordCallFails, Reply, Answer
  <1>2. faults \in [Runs -> 0..MaxFaults]
    BY DEF TypeOK
  <1>3. Fault(r) => /\ faults'[r] # 0
                    /\ \A s \in Runs \ {r} : faults'[s] = faults[s]
    BY <1>2, TriggersAssumption DEF Fault
  <1> QED
    BY <1>1, <1>3

\* The four ways a run's own step keeps its lease in hand.
LEMMA StaysUnfenced ==
  ASSUME NEW r \in Runs, attempt[r] = 0, attempt'[r] = attempt[r],
         Current(C(r), E(r))', lease'[C(r)'].attempted = 0,
         pc'[r] \in Unfenced, ctl'[r].held
  PROVE  InStep(r)' /\ OnLease(r)'
  BY DEF InStep, OnLease

LEMMA AcquiredInHand ==
  ASSUME TypeOK, RunStamps, LeaseInHand, NEW r \in Runs,
         Acquire(r) \/ AcquireRefused(r), ~Fault(r), faults[r] = 0,
         NEW c \in Connections, lease'[c].token = r
  PROVE  c = C(r)' /\ InStep(r)' /\ OnLease(r)'
  <1>1. At(r, "acquire") /\ attempt[r] = 0
    BY DEF Acquire, AcquireRefused, RunStamps, At, Unclaimed
  <1>2. lease[c].token # r
    BY <1>1 DEF LeaseInHand, InStep, At, Unfenced
  <1>3. Acquire(r)
    BY <1>2 DEF AcquireRefused, Answer, dbVars
  <1>4. /\ ClaimRotation(r, C(r), E(r)) /\ UNCHANGED <<job, attempt>>
        /\ Goto(r, "claim") /\ ctl' = [ctl EXCEPT ![r].held = TRUE]
    BY <1>3 DEF Acquire, Reply, local
  <1>5. C(r) \in Connections /\ C(r)' = C(r) /\ E(r)' = E(r)
    BY <1>4, RunTypes DEF C, E
  <1>6. c = C(r) /\ lease'[C(r)].attempted = 0 /\ Current(C(r), E(r))'
    BY <1>2, <1>4, <1>5
       DEF ClaimRotation, RotationClaimable, Usable, Current, Live, TypeOK,
           DatabaseTypeOK
  <1>7. pc'[r] = "claim" /\ ctl'[r].held
    BY <1>4 DEF Goto, TypeOK, Control
  <1>8. pc'[r] \in Unfenced /\ attempt'[r] = attempt[r]
    BY <1>4, <1>7 DEF Unfenced
  <1>9. InStep(r)' /\ OnLease(r)'
    BY <1>1, <1>5, <1>6, <1>7, <1>8, StaysUnfenced
  <1> QED
    BY <1>5, <1>6, <1>9

\* Before the request.
LEMMA EarlyInHand ==
  ASSUME TypeOK, NEW r \in Runs, InStep(r), OnLease(r), ~Fault(r),
         Current(C(r), E(r))', UNCHANGED job,
         \/ TakeDaily(r) \/ TakeManual(r) \/ ClaimRefused(r) \/ Load(r)
         \/ LoadMissing(r) \/ Renew(r) \/ RenewRefused(r) \/ Refresh(r)
         \/ RefreshFails(r) \/ Persist(r) \/ PersistRefused(r) \/ Prepare(r)
         \/ MarkRefused(r) \/ FailRetry(r)
  PROVE  InStep(r)' /\ OnLease(r)'
  <1>1. /\ pc[r] \in {"claim", "load", "renew", "refresh", "persist", "prepare",
                      "mark", "failRetry"}
        /\ UNCHANGED attempt
    BY DEF TakeDaily, TakeManual, ClaimRefused, Load, LoadMissing, Renew,
           RenewRefused, Refresh, RefreshFails, Persist, PersistRefused,
           Prepare, MarkRefused, FailRetry, At, local
  <1>2. attempt[r] = 0 /\ ctl[r].held
    BY <1>1 DEF InStep, Unfenced, Fenced, Abandoned
  <1>3. C(r) \in Connections /\ C(r)' = C(r)
    BY RunTypes DEF C
  <1>4. lease'[C(r)].attempted = lease[C(r)].attempted
    <2>1. CASE Renew(r)
      BY <1>3, <2>1 DEF Renew, RenewRotation, TypeOK, DatabaseTypeOK,
                        LeaseColumns
    <2>2. CASE UNCHANGED lease
      BY <2>2
    <2> QED
      BY <2>1, <2>2
         DEF TakeDaily, TakeManual, ClaimRefused, Load, LoadMissing,
             RenewRefused, Refresh, RefreshFails, Persist, PersistRefused,
             Prepare, MarkRefused, FailRetry, ClaimDaily, ClaimManual,
             PersistRotated, FailManualRetryable, Answer, dbVars
  <1>5. ctl'[r].held
    <2>1. CASE RefreshFails(r)
      BY <1>2, <2>1 DEF RefreshFails, TypeOK, Control
    <2>2. CASE UNCHANGED ctl
      BY <1>2, <2>2
    <2> QED
      BY <2>1, <2>2
         DEF TakeDaily, TakeManual, ClaimRefused, Load, LoadMissing, Renew,
             RenewRefused, Refresh, Persist, PersistRefused, Prepare,
             MarkRefused, FailRetry
  <1>6. ASSUME NEW next, Goto(r, next) PROVE pc'[r] = next
    BY <1>6 DEF Goto, TypeOK
  <1>7. AfterFailure(r, TRUE) \in Unfenced
    BY DEF AfterFailure, Finally, Unfenced
  <1>8. PICK next \in Unfenced : Goto(r, next)
    <2>1. {"load", "release", "renew", "lifecycle", "refresh", "failRetry",
           "persist", "prepare", "mark"} \subseteq Unfenced
      BY DEF Unfenced
    <2> QED
      BY <1>7, <2>1
         DEF TakeDaily, TakeManual, ClaimRefused, Load, LoadMissing, Renew,
             RenewRefused, Refresh, RefreshFails, Persist, PersistRefused,
             Prepare, MarkRefused, FailRetry, Reply, Answer
  <1> QED
    BY <1>1, <1>2, <1>3, <1>4, <1>5, <1>6, <1>8, StaysUnfenced DEF OnLease

\* The mark turns the lease into the attempt of a row with no failure on it.
LEMMA MarkedInHand ==
  ASSUME TypeOK, LeaseShape, Outcomes, FreshRows, NEW r \in Runs,
         InStep(r), OnLease(r), ~Fault(r), MarkStorefrontAttempt(r)
  PROVE  InStep(r)' /\ OnLease(r)'
  <1>1. /\ C(r)' = C(r) /\ E(r)' = E(r) /\ D(r)' = D(r) /\ A(r)' = A(r)
        /\ IsManual(r)' = IsManual(r) /\ UNCHANGED <<uncertain, ctl>>
        /\ attempt' = [attempt EXCEPT ![r] = lastMark + 1]
        /\ Goto(r, "fetch") /\ At(r, "mark")
    BY DEF MarkStorefrontAttempt, C, E, D, A, IsManual
  <1>2. attempt[r] = 0 /\ ctl[r].held /\ r \notin uncertain
    BY <1>1 DEF InStep, Unfenced, Fenced, Abandoned, At, Outcomes,
                UncertainSteps
  <1>3. /\ lastMark + 1 # 0 /\ attempt'[r] = lastMark + 1 /\ pc'[r] = "fetch"
    BY <1>1 DEF TypeOK, DatabaseTypeOK, Goto
  <1>4. InStep(r)'
    BY <1>1, <1>2, <1>3 DEF InStep, Fenced, At
  <1>5. /\ C(r) \in Connections /\ D(r) \in Days /\ A(r) \in Accounts
        /\ lease \in [Connections -> LeaseColumns]
        /\ daily \in [Connections -> [Days -> DailyRow]]
        /\ manual \in [Accounts -> [Days -> ManualRow]]
    BY RunTypes DEF TypeOK, DatabaseTypeOK
  <1>6. /\ Current(C(r), E(r))' /\ lease'[C(r)].day = D(r)
    BY <1>1, MarkFence DEF Current, Live
  <1>7. lease'[C(r)].attempted = lastMark + 1
    BY <1>5 DEF MarkStorefrontAttempt, MarkDaily, MarkManual, LeaseColumns
  <1>8. Closable(r)'
    <2>1. CASE IsManual(r)
      <3>1. MarkManual(r, C(r), E(r), A(r), D(r))
        BY <2>1 DEF MarkStorefrontAttempt
      <3> DEFINE row == [manual[A(r)][D(r)] EXCEPT !.status = "requesting",
                                                   !.stamp = lastMark + 1]
      <3>2. /\ manual' = [manual EXCEPT ![A(r)][D(r)] = row]
            /\ ClaimedRow(r, C(r), E(r), A(r), D(r))
            /\ ~manual[A(r)][D(r)].failed
        BY <1>5, <3>1 DEF MarkManual, ManualMarkable, FreshRows
      <3>3. manual[A(r)][D(r)] \in ManualRow
        BY <1>5
      <3>4. /\ row.status = "requesting" /\ row.stamp = lastMark + 1
            /\ row.failed = manual[A(r)][D(r)].failed
            /\ row.token = manual[A(r)][D(r)].token
            /\ row.conn = manual[A(r)][D(r)].conn
            /\ row.epoch = manual[A(r)][D(r)].epoch
        BY <3>3 DEF ManualRow
      <3> HIDE DEF row
      <3>5. manual'[A(r)][D(r)] = row
        BY <1>5, <3>2
      <3> QED
        BY <1>1, <1>3, <2>1, <3>2, <3>4, <3>5 DEF Closable, ClaimedRow
    <2>2. CASE ~IsManual(r)
      <3>1. MarkDaily(r, C(r), E(r), D(r))
        BY <2>2 DEF MarkStorefrontAttempt
      <3> DEFINE row == [daily[C(r)][D(r)] EXCEPT !.stamp = lastMark + 1]
      <3>2. /\ daily' = [daily EXCEPT ![C(r)][D(r)] = row]
            /\ daily[C(r)][D(r)].epoch = E(r) /\ ~daily[C(r)][D(r)].failed
        BY <1>5, <3>1 DEF MarkDaily, DailyMarkable, FreshRows
      <3>3. daily[C(r)][D(r)] \in DailyRow
        BY <1>5
      <3>4. /\ row.stamp = lastMark + 1
            /\ row.failed = daily[C(r)][D(r)].failed
            /\ row.epoch = daily[C(r)][D(r)].epoch
        BY <3>3 DEF DailyRow
      <3> HIDE DEF row
      <3>5. daily'[C(r)][D(r)] = row
        BY <1>5, <3>2
      <3> QED
        BY <1>1, <1>3, <2>2, <3>2, <3>4, <3>5 DEF Closable
    <2> QED
      BY <2>1, <2>2
  <1> QED
    BY <1>1, <1>3, <1>4, <1>6, <1>7, <1>8 DEF OnLease

\* From the request to its answer, and from the answer to the close.
LEMMA RequestInHand ==
  ASSUME TypeOK, Outcomes, NEW r \in Runs, InStep(r), OnLease(r), ~Fault(r),
         Current(C(r), E(r))', UNCHANGED job,
         \/ GetStore(r) \/ StoreReceived(r) \/ StoreRejected(r)
         \/ StoreAmbiguous(r) \/ Healthy(r) \/ HealthyStale(r)
         \/ CanonicalizeFails(r) \/ RecordRefused(r)
  PROVE  InStep(r)' /\ OnLease(r)'
  <1>1. /\ pc[r] \in {"fetch", "awaiting", "healthy", "record"}
        /\ UNCHANGED <<claim, attempt, lease, daily, manual>>
    BY DEF GetStore, StoreReceived, StoreRejected, StoreAmbiguous, Healthy,
           HealthyStale, CanonicalizeFails, RecordRefused, At, Answer, dbVars,
           local, ApplyLifecycle
  <1>2. attempt[r] # 0 /\ r \notin uncertain /\ ctl[r].held
    BY <1>1 DEF InStep, Unfenced, Fenced, Abandoned, Outcomes, UncertainSteps
  <1>3. /\ C(r)' = C(r) /\ E(r)' = E(r) /\ D(r)' = D(r) /\ A(r)' = A(r)
        /\ IsManual(r)' = IsManual(r)
    BY <1>1 DEF C, E, D, A, IsManual
  <1>4. OnLease(r)'
    <2>1. Closable(r)' = Closable(r)
      BY <1>1, <1>3 DEF Closable, ClaimedRow
    <2>2. UNCHANGED uncertain \/ StoreAmbiguous(r)
      BY DEF GetStore, StoreReceived, StoreRejected, Healthy, HealthyStale,
             CanonicalizeFails, RecordRefused, local
    <2>3. r \notin uncertain
      BY <1>2
    <2> QED
      BY <1>1, <1>3, <2>1, <2>3 DEF OnLease
  <1>5. ASSUME NEW next, Goto(r, next) PROVE pc'[r] = next
    BY <1>5 DEF Goto, TypeOK
  <1>6. CASE StoreAmbiguous(r)
    BY <1>1, <1>2, <1>4, <1>5, <1>6
       DEF StoreAmbiguous, Answer, InStep, Abandoned
  <1>7. CASE StoreRejected(r)
    <2>1. /\ ctl'[r].held = ctl[r].held /\ ctl'[r].handled
          /\ pc'[r] = "lifecycle" /\ UNCHANGED uncertain
      BY <1>5, <1>7 DEF StoreRejected, Answer, TypeOK, Control, local
    <2> QED
      BY <1>1, <1>2, <1>4, <2>1 DEF InStep, Fenced
  <1>8. CASE \/ GetStore(r) \/ StoreReceived(r) \/ Healthy(r)
             \/ HealthyStale(r) \/ CanonicalizeFails(r) \/ RecordRefused(r)
    <2>1. UNCHANGED uncertain
      BY <1>8 DEF GetStore, StoreReceived, Healthy, HealthyStale,
                  CanonicalizeFails, RecordRefused, local
    <2>2. ctl'[r].held = ctl[r].held
      <3>1. \/ UNCHANGED ctl
            \/ ctl' = [ctl EXCEPT ![r].healthy = TRUE]
            \/ ctl' = [ctl EXCEPT ![r].tries = 1]
        BY <1>8 DEF GetStore, StoreReceived, Healthy, HealthyStale,
                    CanonicalizeFails, RecordRefused
      <3> QED
        BY <3>1 DEF TypeOK, Control
    <2>3. pc'[r] \in {"awaiting", "healthy", "record", "close"}
      <3>1. pc[r] = "record" => OnRecordError(r, "close") \in {"record", "close"}
        BY DEF OnRecordError
      <3>2. \E next \in {"awaiting", "healthy", "record", "close"} :
               Goto(r, next)
        BY <1>8, <3>1
           DEF GetStore, StoreReceived, Healthy, HealthyStale,
               CanonicalizeFails, RecordRefused, Answer, At
      <3> QED
        BY <1>5, <3>2
    <2> QED
      BY <1>1, <1>2, <1>4, <2>1, <2>2, <2>3 DEF InStep, Fenced, At
  <1> QED
    BY <1>6, <1>7, <1>8

\* The lifecycle write leaves the choice of what follows to Finalize.
LEMMA FinalizedInHand ==
  ASSUME TypeOK, Outcomes, NEW r \in Runs, InStep(r), OnLease(r), ~Fault(r),
         Current(C(r), E(r))', UNCHANGED job,
         Lifecycle(r) \/ LifecycleStale(r)
  PROVE  InStep(r)' /\ OnLease(r)'
  <1>1. /\ At(r, "lifecycle") /\ Goto(r, Finalize(r))
        /\ UNCHANGED <<claim, attempt, lease, daily, manual, uncertain>>
    BY DEF Lifecycle, LifecycleStale, Answer, dbVars, local, ApplyLifecycle
  <1>2. /\ C(r)' = C(r) /\ E(r)' = E(r) /\ D(r)' = D(r) /\ A(r)' = A(r)
        /\ IsManual(r)' = IsManual(r)
    BY <1>1 DEF C, E, D, A, IsManual
  <1>3. OnLease(r)'
    BY <1>1, <1>2 DEF OnLease, Closable, ClaimedRow
  <1>4. ctl'[r].held = ctl[r].held
    <2>1. UNCHANGED ctl \/ \E v : ctl' = [ctl EXCEPT ![r].terminal = v]
      BY DEF Lifecycle, LifecycleStale
    <2> QED
      BY <2>1 DEF TypeOK, Control
  <1>5. pc'[r] = Finalize(r)
    BY <1>1 DEF Goto, TypeOK
  <1>6. /\ attempt[r] = 0 => Finalize(r) = "failRetry"
        /\ attempt[r] # 0 /\ ctl[r].handled => Finalize(r) = "close"
        /\ attempt[r] # 0 /\ ~ctl[r].handled => Finalize(r) = "failAmbiguous"
    BY DEF Finalize
  <1>7. /\ attempt[r] # 0 /\ r \notin uncertain => ctl[r].handled
        /\ r \in uncertain => ~ctl[r].handled
    BY <1>1 DEF InStep, Outcomes
  <1>8. InStep(r)'
    <2>1. CASE attempt[r] = 0
      BY <1>1, <1>4, <1>5, <1>6, <2>1 DEF InStep, Unfenced
    <2>2. CASE attempt[r] # 0 /\ r \notin uncertain
      BY <1>1, <1>4, <1>5, <1>6, <1>7, <2>2 DEF InStep, Fenced, At
    <2>3. CASE attempt[r] # 0 /\ r \in uncertain
      BY <1>1, <1>5, <1>6, <1>7, <2>3 DEF InStep, Abandoned
    <2> QED
      BY <2>1, <2>2, <2>3
  <1> QED
    BY <1>3, <1>8

\* An ambiguous request keeps its lease; an unattempted lease is let go.
LEMMA ExpiryInHand ==
  ASSUME TypeOK, Outcomes, NEW r \in Runs, InStep(r), OnLease(r), ~Fault(r),
         Current(C(r), E(r))', UNCHANGED job, lease'[C(r)].token = r,
         FailAmbiguous(r) \/ SendExpiry(r) \/ Release(r)
  PROVE  InStep(r)' /\ OnLease(r)'
  <1>1. /\ pc[r] \in {"failAmbiguous", "expire", "release"}
        /\ UNCHANGED <<claim, attempt, uncertain>>
    BY DEF FailAmbiguous, SendExpiry, Release, At, local
  <1>2. /\ attempt[r] = 0 \/ (attempt[r] # 0 /\ r \in uncertain)
        /\ attempt[r] = 0 => ctl[r].held /\ pc[r] # "failAmbiguous"
    BY <1>1 DEF InStep, Unfenced, Fenced
  <1>3. C(r) \in Connections /\ C(r)' = C(r) /\ E(r)' = E(r) /\ r # NoRun
    BY RunTypes, RunsAssumption DEF C, E
  <1>4. UNCHANGED lease
    <2>1. CASE Release(r)
      BY <1>3, <2>1 DEF Release, ReleaseRotation, TypeOK, DatabaseTypeOK,
                        NoLease
    <2>2. CASE FailAmbiguous(r) \/ SendExpiry(r)
      BY <2>2 DEF FailAmbiguous, SendExpiry, FailManualFinal, Answer, dbVars
    <2> QED
      BY <2>1, <2>2
  <1>5. attempt[r] = 0 => ~Release(r)
    BY <1>3, <1>4 DEF Release, ReleaseRotation, HoldsUnattempted, OnLease,
                      TypeOK, DatabaseTypeOK, NoLease
  <1>6. OnLease(r)'
    BY <1>1, <1>2, <1>3, <1>4 DEF OnLease
  <1>7. ASSUME NEW next, Goto(r, next) PROVE pc'[r] = next
    BY <1>7 DEF Goto, TypeOK
  <1>8. CASE attempt[r] = 0
    <2>1. SendExpiry(r)
      BY <1>2, <1>5, <1>8 DEF FailAmbiguous, At
    <2>2. pc'[r] = "release" /\ UNCHANGED ctl
      BY <1>2, <1>7, <1>8, <2>1 DEF SendExpiry, Answer, Finally
    <2> QED
      BY <1>1, <1>2, <1>6, <1>8, <2>2 DEF InStep, Unfenced
  <1>9. CASE attempt[r] # 0 /\ r \in uncertain
    <2>1. /\ AfterFailure(r, FALSE) \in {"expire", "done"}
          /\ Finally(ctl[r].held) \in {"release", "done"}
      BY DEF AfterFailure, Finally
    <2>2. \E next \in {"expire", "release", "done"} : Goto(r, next)
      BY <2>1 DEF FailAmbiguous, SendExpiry, Release, Reply, Answer
    <2>3. pc'[r] \in Abandoned
      BY <1>7, <2>2 DEF Abandoned
    <2> QED
      BY <1>1, <1>6, <1>9, <2>3 DEF InStep
  <1> QED
    BY <1>2, <1>8, <1>9

\* The close and the record clear the lease, and neither is refused to the
\* run that holds it with its own row.
LEMMA SettledNotInHand ==
  ASSUME TypeOK, Outcomes, NEW r \in Runs, InStep(r), OnLease(r), ~Fault(r),
         lease[C(r)].token = r,
         Close(r) \/ CloseRefused(r) \/ Record(r) \/ RecordReplayed(r)
  PROVE  lease'[C(r)].token # r
  <1>1. pc[r] \in {"close", "record"}
    BY DEF Close, CloseRefused, Record, RecordReplayed, At
  <1>2. attempt[r] # 0 /\ r \notin uncertain
    BY <1>1 DEF InStep, Unfenced, Abandoned
  <1>3. /\ OwnsRecordedAttempt(r, C(r), E(r), D(r), attempt[r])
        /\ Closable(r)
    BY <1>2 DEF OnLease, OwnsRecordedAttempt, OwnsAttempt
  <1>4. ~CloseRefused(r)
    BY <1>2, <1>3
       DEF CloseRefused, ManualClosable, DailyClosable, Closable, OnLease,
           OwnsRecordedAttempt, OwnsAttempt
  <1>5. ~RecordReplayed(r)
    BY <1>3 DEF RecordReplayed, Replayable, ReplayableShop
  <1>6. lease' = [lease EXCEPT ![C(r)] = NoLease]
    BY <1>4, <1>5 DEF Close, Record, CloseDaily, CloseManual, RecordEffect,
                      RecordDaily, RecordManual
  <1>7. C(r) \in Connections /\ r # NoRun
    BY RunTypes, RunsAssumption
  <1> QED
    BY <1>6, <1>7 DEF TypeOK, DatabaseTypeOK, NoLease

\* After its record a run has no lease.
LEMMA DecoratedNotInHand ==
  ASSUME NEW r \in Runs, InStep(r), ~Fault(r)
  PROVE  ~(\/ Extras(r) \/ ResolvePuuid(r) \/ Enrich(r) \/ PipelineFails(r)
           \/ EnrichRefused(r) \/ CallFails(r) \/ RecordCallFails(r)
           \/ Crash(r))
  <1>1. pc[r] \notin {"extras", "enrichExtras", "puuid", "enrich"}
    BY DEF InStep, Unfenced, Fenced, Abandoned
  <1> QED
    BY <1>1 DEF Extras, ResolvePuuid, Enrich, PipelineFails, EnrichRefused,
                CallFails, RecordCallFails, Crash, At

LEMMA OwnStepInHand ==
  ASSUME TypeOK, RunStamps, LeaseShape, Outcomes, FreshRows, LeaseInHand,
         NEW r \in Runs, Proceed(r) \/ Crash(r), faults'[r] = 0,
         NEW c \in Connections, lease'[c].token = r
  PROVE  c = C(r)' /\ InStep(r)' /\ OnLease(r)'
  <1>1. faults[r] = 0 /\ ~Fault(r)
    BY FaultMoves
  <1>2. UNCHANGED job /\ C(r)' = C(r) /\ E(r)' = E(r) /\ C(r) \in Connections
    BY RunMoves, RunTypes DEF C, E
  <1>3. CASE Acquire(r) \/ AcquireRefused(r)
    BY <1>1, <1>3, AcquiredInHand
  <1>4. CASE ~(Acquire(r) \/ AcquireRefused(r))
    <2>1. DatabaseCall(r)
      BY RunCalls
    <2>2. lease[c].token = r
      <3>1. r # NoRun /\ lease \in [Connections -> LeaseColumns]
        BY RunsAssumption DEF TypeOK, DatabaseTypeOK
      <3>2. ~At(r, "acquire")
        BY <1>1, <1>4
           DEF At, Proceed, Crash, TakeDaily, TakeManual, ClaimRefused, Load,
               LoadMissing, Renew, RenewRefused, Refresh, RefreshFails,
               Persist, PersistRefused, Prepare, MarkStorefrontAttempt,
               MarkRefused, GetStore, StoreReceived, StoreRejected,
               StoreAmbiguous, Lifecycle, LifecycleStale, FailRetry,
               FailAmbiguous, Close, CloseRefused, SendExpiry, Release,
               Healthy, HealthyStale, CanonicalizeFails, Record,
               RecordReplayed, RecordRefused, Extras, ResolvePuuid, Enrich,
               PipelineFails, EnrichRefused, CallFails, RecordCallFails
      <3>3. NoLease.token = NoRun
        BY DEF NoLease
      <3> QED
        BY <2>1, <3>1, <3>2, <3>3, CallLeases
    <2>3. c = C(r) /\ InStep(r) /\ OnLease(r)
      BY <1>1, <2>2 DEF LeaseInHand
    <2>4. Current(C(r), E(r))'
      <3>1. /\ conn'[C(r)].state = conn[C(r)].state
            /\ conn'[C(r)].epoch = conn[C(r)].epoch
        BY <1>2, <2>1, CallRows
      <3> QED
        BY <1>2, <2>3, <3>1 DEF OnLease, Current, Live
    <2>5. CASE \/ TakeDaily(r) \/ TakeManual(r) \/ ClaimRefused(r) \/ Load(r)
               \/ LoadMissing(r) \/ Renew(r) \/ RenewRefused(r) \/ Refresh(r)
               \/ RefreshFails(r) \/ Persist(r) \/ PersistRefused(r)
               \/ Prepare(r) \/ MarkRefused(r) \/ FailRetry(r)
      <3>1. InStep(r)' /\ OnLease(r)'
        BY <1>1, <1>2, <2>3, <2>4, <2>5, EarlyInHand
      <3> QED
        BY <1>2, <2>3, <3>1
    <2>6. CASE MarkStorefrontAttempt(r)
      <3>1. InStep(r)' /\ OnLease(r)'
        BY <1>1, <2>3, <2>6, MarkedInHand
      <3> QED
        BY <1>2, <2>3, <3>1
    <2>7. CASE \/ GetStore(r) \/ StoreReceived(r) \/ StoreRejected(r)
               \/ StoreAmbiguous(r) \/ Healthy(r) \/ HealthyStale(r)
               \/ CanonicalizeFails(r) \/ RecordRefused(r)
      <3>1. InStep(r)' /\ OnLease(r)'
        BY <1>1, <1>2, <2>3, <2>4, <2>7, RequestInHand
      <3> QED
        BY <1>2, <2>3, <3>1
    <2>8. CASE Lifecycle(r) \/ LifecycleStale(r)
      <3>1. InStep(r)' /\ OnLease(r)'
        BY <1>1, <1>2, <2>3, <2>4, <2>8, FinalizedInHand
      <3> QED
        BY <1>2, <2>3, <3>1
    <2>9. CASE FailAmbiguous(r) \/ SendExpiry(r) \/ Release(r)
      <3>1. InStep(r)' /\ OnLease(r)'
        BY <1>1, <1>2, <2>3, <2>4, <2>9, ExpiryInHand
      <3> QED
        BY <1>2, <2>3, <3>1
    <2>10. CASE Close(r) \/ CloseRefused(r) \/ Record(r) \/ RecordReplayed(r)
      BY <1>1, <2>2, <2>3, <2>10, SettledNotInHand
    <2>11. CASE \/ Extras(r) \/ ResolvePuuid(r) \/ Enrich(r)
                \/ PipelineFails(r) \/ EnrichRefused(r) \/ CallFails(r)
                \/ RecordCallFails(r) \/ Crash(r)
      BY <1>1, <2>3, <2>11, DecoratedNotInHand
    <2> QED
      BY <1>4, <2>5, <2>6, <2>7, <2>8, <2>9, <2>10, <2>11 DEF Proceed
  <1> QED
    BY <1>3, <1>4

\* What a run's step, a start or a step of the rest of the program leaves to
\* the other runs.
LEMMA LocalMoves ==
  ASSUME TypeOK, NEW r \in Runs, Proceed(r) \/ Crash(r), NEW s \in Runs \ {r}
  PROVE  LocalKept(s)
  <1>1. UNCHANGED job /\ pc'[s] = pc[s] /\ faults'[s] = faults[s]
    BY RunMoves, FaultMoves
  <1>2. claim'[s] = claim[s]
    <2>1. CASE TakeDaily(r) \/ TakeManual(r)
      BY <2>1 DEF TakeDaily, TakeManual, TypeOK
    <2>2. CASE UNCHANGED claim
      BY <2>2
    <2> QED
      BY <2>1, <2>2
         DEF Proceed, Crash, local, Acquire, AcquireRefused, ClaimRefused,
             Load, LoadMissing, Renew, RenewRefused, Refresh, RefreshFails,
             Persist, PersistRefused, Prepare, MarkStorefrontAttempt,
             MarkRefused, GetStore, StoreReceived, StoreRejected,
             StoreAmbiguous, Lifecycle, LifecycleStale, FailRetry,
             FailAmbiguous, Close, CloseRefused, SendExpiry, Release, Healthy,
             HealthyStale, CanonicalizeFails, Record, RecordReplayed,
             RecordRefused, Extras, ResolvePuuid, Enrich, PipelineFails,
             EnrichRefused, CallFails, RecordCallFails
  <1>3. attempt'[s] = attempt[s]
    <2>1. CASE MarkStorefrontAttempt(r)
      BY <2>1 DEF MarkStorefrontAttempt, TypeOK
    <2>2. CASE UNCHANGED attempt
      BY <2>2
    <2> QED
      BY <2>1, <2>2
         DEF Proceed, Crash, local, Acquire, AcquireRefused, TakeDaily,
             TakeManual, ClaimRefused, Load, LoadMissing, Renew, RenewRefused,
             Refresh, RefreshFails, Persist, PersistRefused, Prepare,
             MarkRefused, GetStore, StoreReceived, StoreRejected,
             StoreAmbiguous, Lifecycle, LifecycleStale, FailRetry,
             FailAmbiguous, Close, CloseRefused, SendExpiry, Release, Healthy,
             HealthyStale, CanonicalizeFails, Record, RecordReplayed,
             RecordRefused, Extras, ResolvePuuid, Enrich, PipelineFails,
             EnrichRefused, CallFails, RecordCallFails
  <1>4. (s \in uncertain)' <=> s \in uncertain
    <2>1. UNCHANGED uncertain \/ uncertain' = uncertain \cup {r}
      BY DEF Proceed, Crash, local, Acquire, AcquireRefused, TakeDaily,
             TakeManual, ClaimRefused, Load, LoadMissing, Renew, RenewRefused,
             Refresh, RefreshFails, Persist, PersistRefused, Prepare,
             MarkStorefrontAttempt, MarkRefused, GetStore, StoreReceived,
             StoreRejected, StoreAmbiguous, Lifecycle, LifecycleStale,
             FailRetry, FailAmbiguous, Close, CloseRefused, SendExpiry,
             Release, Healthy, HealthyStale, CanonicalizeFails, Record,
             RecordReplayed, RecordRefused, Extras, ResolvePuuid, Enrich,
             PipelineFails, EnrichRefused, CallFails, RecordCallFails
    <2> QED
      BY <2>1
  <1>5. ctl'[s] = ctl[s]
    <2>1. UNCHANGED ctl \/ \E v : ctl' = [ctl EXCEPT ![r] = v]
      BY Zenon
         DEF Proceed, Crash, Acquire, AcquireRefused, TakeDaily,
             TakeManual, ClaimRefused, Load, LoadMissing, Renew, RenewRefused,
             Refresh, RefreshFails, Persist, PersistRefused, Prepare,
             MarkStorefrontAttempt, MarkRefused, GetStore, StoreReceived,
             StoreRejected, StoreAmbiguous, Lifecycle, LifecycleStale,
             FailRetry, FailAmbiguous, Close, CloseRefused, SendExpiry,
             Release, Healthy, HealthyStale, CanonicalizeFails, Record,
             RecordReplayed, RecordRefused, Extras, ResolvePuuid, Enrich,
             PipelineFails, EnrichRefused, CallFails, RecordCallFails
    <2> QED
      BY <2>1 DEF TypeOK
  <1> QED
    BY <1>1, <1>2, <1>3, <1>4, <1>5 DEF LocalKept

LEMMA StartInHand ==
  ASSUME TypeOK, LeaseInHand, NEW s \in Runs, NEW d \in Connections,
         NEW t \in Triggers, Start(s, d, t)
  PROVE  LeaseInHand'
  <1>1. UNCHANGED <<dbVars, claim, attempt, ctl, faults, uncertain>>
    BY DEF Start
  <1>2. \A r \in Runs \ {s} : pc'[r] = pc[r] /\ job'[r] = job[r]
    BY DEF Start, Goto, TypeOK
  <1> SUFFICES ASSUME NEW r \in Runs, NEW c \in Connections,
                      faults[r] = 0, lease[c].token = r
               PROVE  c = C(r)' /\ InStep(r)' /\ OnLease(r)'
    BY <1>1 DEF LeaseInHand, dbVars
  <1>3. c = C(r) /\ InStep(r) /\ OnLease(r)
    BY DEF LeaseInHand
  <1>4. r # s
    BY <1>3 DEF InStep, Unfenced, Fenced, Abandoned, Start, At
  <1>5. LocalKept(r)
    BY <1>1, <1>2, <1>4 DEF LocalKept
  <1>6. Closable(r) => Closable(r)'
    BY <1>1, <1>5 DEF LocalKept, dbVars, Closable, ClaimedRow, C, E, D, A,
                      IsManual
  <1> QED
    BY <1>1, <1>5, <1>6, OthersInHand DEF dbVars

LEMMA EnvironmentInHand ==
  ASSUME TypeOK, LeaseInHand, Environment, UNCHANGED workerVars
  PROVE  LeaseInHand'
  <1> SUFFICES ASSUME NEW r \in Runs, NEW c \in Connections,
                      faults'[r] = 0, lease'[c].token = r
               PROVE  c = C(r)' /\ InStep(r)' /\ OnLease(r)'
    BY DEF LeaseInHand
  <1>1. LocalKept(r)
    BY DEF LocalKept, workerVars
  <1>2. UNCHANGED <<daily, manual>>
    BY DEF Environment, Tick, Midnight, Disconnect, Connect, Reconnect
  <1>3. Closable(r) => Closable(r)'
    BY <1>1, <1>2 DEF LocalKept, Closable, ClaimedRow, C, E, D, A, IsManual
  <1>4. NoLease.token # r
    BY RunsAssumption DEF NoLease
  <1>5. RowKeptOrReplaced(c)
    BY EnvironmentRows
  <1>6. CASE conn'[c] = conn[c] /\ lease'[c] = lease[c]
    <2>1. c = C(r)
      BY <1>1, <1>6 DEF LeaseInHand, LocalKept
    <2> QED
      BY <1>1, <1>3, <1>6, <2>1, OthersInHand
  <1>7. CASE conn[c].state = "absent" /\ NewSession(c)
    <2>1. lease[c].token = r
      BY <1>2, <1>4, <1>7
         DEF Environment, Tick, Midnight, Disconnect, Connect, Reconnect,
             TypeOK, DatabaseTypeOK
    <2>2. Current(c, E(r))
      BY <1>1, <2>1 DEF LeaseInHand, LocalKept, OnLease
    <2> QED
      BY <1>7, <2>2 DEF Current, Live
  <1> QED
    BY <1>4, <1>5, <1>6, <1>7 DEF RowKeptOrReplaced, NewSession

LeakInv == AttemptInv /\ FenceInv /\ FreshRows /\ LeaseInHand

LEMMA NextInHand ==
  TypeOK /\ LeakInv /\ [Next]_vars => LeaseInHand'
  <1> SUFFICES ASSUME TypeOK, LeakInv, [Next]_vars PROVE LeaseInHand'
    OBVIOUS
  <1>1. /\ RunStamps /\ StampsRecorded /\ LeaseShape /\ Outcomes /\ FreshRows
        /\ LeaseInHand
    BY DEF LeakInv, AttemptInv, FenceInv
  <1>2. ASSUME NEW s \in Runs, Proceed(s) \/ Crash(s) PROVE LeaseInHand'
    <2> SUFFICES ASSUME NEW r \in Runs, NEW c \in Connections,
                        faults'[r] = 0, lease'[c].token = r
                 PROVE  c = C(r)' /\ InStep(r)' /\ OnLease(r)'
      BY DEF LeaseInHand
    <2>1. CASE r = s
      BY <1>1, <1>2, <2>1, OwnStepInHand
    <2>2. CASE r # s
      <3>1. LocalKept(r) /\ DatabaseCall(s)
        BY <1>2, <2>2, LocalMoves, RunCalls
      <3>2. /\ lease[c].token = r
            /\ lease'[c].attempted = lease[c].attempted
            /\ lease'[c].day = lease[c].day
        <4>1. NoLease.token # r
          BY RunsAssumption DEF NoLease
        <4>2. MarkCall(s) /\ lease[c].token = s
              /\ lease'[c] = [lease[c] EXCEPT !.attempted = lastMark + 1]
              => lease'[c].token = s
          <5>1. lease[c] \in LeaseColumns
            BY DEF TypeOK, DatabaseTypeOK
          <5> QED
            BY <5>1 DEF LeaseColumns
        <4>3. lease'[c] = [token |-> s, at |-> now, day |-> today,
                           attempted |-> 0]
              => lease'[c].token = s
          OBVIOUS
        <4>4. ~MarkCall(s) \/ c # C(s) \/ lease[c].token # s
              \/ lease'[c] # [lease[c] EXCEPT !.attempted = lastMark + 1]
          BY <2>2, <4>2
        <4> QED
          BY <2>2, <3>1, <4>1, <4>3, <4>4, CallLeases
      <3>3. c = C(r)
        BY <1>1, <3>1, <3>2 DEF LeaseInHand, LocalKept
      <3>4. attempt[r] # 0 /\ Closable(r) => Closable(r)'
        BY <1>1, <2>2, <3>1, <3>2, <3>3, ClosableKept DEF LocalKept
      <3>5. conn'[c].state = conn[c].state /\ conn'[c].epoch = conn[c].epoch
        BY <3>1, CallRows
      <3> QED
        BY <1>1, <3>1, <3>2, <3>3, <3>4, <3>5, OthersInHand
    <2> QED
      BY <2>1, <2>2
  <1>3. ASSUME NEW s \in Runs, NEW c \in Connections, NEW t \in Triggers,
               Start(s, c, t)
        PROVE  LeaseInHand'
    BY <1>1, <1>3, StartInHand
  <1>4. CASE Environment /\ UNCHANGED workerVars
    BY <1>1, <1>4, EnvironmentInHand
  <1>5. CASE UNCHANGED vars
    BY <1>1, <1>5
       DEF vars, dbVars, workerVars, LeaseInHand, InStep, OnLease, Closable,
           ClaimedRow, Current, Live, At, C, E, D, A, IsManual
  <1> QED
    BY <1>2, <1>3, <1>4, <1>5 DEF Next

LEMMA InitInHand == Init => LeakInv
  <1>1. Init => LeaseInHand
    <2>1. NoLease.token \notin Runs
      BY RunsAssumption DEF NoLease
    <2> QED
      BY <2>1 DEF Init, DatabaseInit, LeaseInHand
  <1> QED
    BY <1>1, InitAttempt, InitFence, InitFresh DEF LeakInv

\* A run that ended without a fault, on whatever path, left no lease behind
\* except the fenced one of an ambiguous request: the finally block, the close
\* and the record between them cover every way out of runAccount.
THEOREM NoLeak == Spec => []NoLeaseLeak
  <1>1. TypeOK /\ LeakInv => NoLeaseLeak
    <2> SUFFICES ASSUME LeakInv, NEW c \in Connections, NEW r \in Runs,
                        lease[c].token = r, pc[r] = "done", faults[r] = 0
                 PROVE  lease[c].attempted # 0 /\ r \in uncertain
      BY DEF NoLeaseLeak, TypeOK
    <2>1. c = C(r) /\ InStep(r) /\ OnLease(r)
      BY DEF LeakInv, LeaseInHand
    <2>2. attempt[r] # 0 /\ r \in uncertain
      BY <2>1 DEF InStep, Unfenced, Fenced
    <2> QED
      BY <2>1, <2>2 DEF OnLease
  <1>2. TypeOK /\ LeakInv /\ [Next]_vars => LeakInv'
    BY NextAttempt, NextFenceInv, NextFresh, NextInHand DEF LeakInv
  <1> QED
    BY <1>1, <1>2, InitInHand, TypeCorrect, PTL DEF Spec

-----------------------------------------------------------------------------
(* The worker under the dashboard.                                          *)

LEMMA DashboardStep == [DashboardNext]_dashVars => [Next]_vars
  <1>1. ASSUME NEW r \in Runs, StartManual(r) PROVE Next
    <2>1. Start(r, Selected, "manual")
      BY <1>1 DEF StartManual, Begin
    <2> QED
      BY <2>1, SelectedAssumption, ManualAssumption DEF Next
  <1>2. ASSUME NEW r \in Runs, NEW c \in Connections, NEW t \in Triggers,
               Begin(r, c, t)
        PROVE  Next
    BY <1>2 DEF Begin, Next
  <1>3. ASSUME NEW r \in Runs, WorkerStep(r) \/ Crash(r) PROVE Next
    BY <1>3 DEF WorkerStep, Next
  <1>4. CASE Environment /\ UNCHANGED <<workerVars, tabVars>>
    BY <1>4 DEF Next
  <1>5. CASE UNCHANGED dashVars
    BY <1>5 DEF dashVars
  <1> QED
    BY <1>1, <1>2, <1>3, <1>4, <1>5 DEF DashboardNext

\* The dashboard adds no behaviour to the worker: every theorem about the
\* worker is a theorem about the worker under the dashboard.
THEOREM WorkerUnderDashboard == DashboardSpec => Spec
  <1>1. DashboardInit => Init
    BY DEF DashboardInit
  <1> QED
    BY <1>1, DashboardStep, PTL DEF DashboardSpec, Spec

-----------------------------------------------------------------------------
(* Types of the tab.                                                        *)

LEMMA HoldType ==
  ASSUME NEW l, NEW d, NEW t
  PROVE  Hold(l, d, t) \in {"available", "uncertain", "leased"}
  BY DEF Hold

LEMMA AvailabilityType ==
  ASSUME NEW auth, NEW puuid, NEW hold \in Availabilities, NEW m, NEW t
  PROVE  Availability(auth, puuid, hold, m, t) \in Availabilities
  BY DEF Availability, Offered, Availabilities

LEMMA ReasonType ==
  ASSUME DashboardTypeOK, NEW r \in Runs
  PROVE  ReasonOf(r) \in Reasons
  <1>1. report[r] \in Reasons
    BY DEF DashboardTypeOK
  <1>2. {"skipped", "unexpected", "leased", "unavailable", "held", "session",
         "fenced", "lease", "storefront", "stale", "catalog", "ok"}
        \subseteq Reasons
    BY DEF Reasons, Unstarted
  <1> HIDE DEF Reasons
  <1> QED
    BY <1>1, <1>2 DEF ReasonOf

LEMMA ReportType ==
  ASSUME DashboardTypeOK, NEW r \in Runs
  PROVE  Reported(r) \in [Runs -> Reasons]
  BY ReasonType DEF Reported, DashboardTypeOK

LEMMA MessageType ==
  ASSUME NEW r
  PROVE  MessageOf(r) \in Messages
  BY DEF MessageOf, Messages

LEMMA ReadType ==
  ASSUME TypeOK, DashboardTypeOK,
         ReadAccounts \/ ReadStoreDay \/ ReadIdentity \/ ReadManual \/ Reload
  PROVE  tab' \in Tab
  <1>1. /\ tab \in Tab /\ now \in Nat /\ today \in Days
        /\ conn[Selected] \in ConnectionRow
    BY SelectedAssumption DEF DashboardTypeOK, TypeOK, DatabaseTypeOK
  <1>2. CASE ReadAccounts
    BY <1>1, <1>2 DEF ReadAccounts, Tab, ConnectionRow
  <1>3. CASE ReadStoreDay
    BY <1>1, <1>3 DEF ReadStoreDay, Tab
  <1>4. CASE ReadIdentity
    <2>1. Hold(lease[Selected], tab.day, tab.now) \in Availabilities
      BY HoldType DEF Availabilities
    <2> QED
      BY <1>1, <1>4, <2>1 DEF ReadIdentity, Tab, ConnectionRow
  <1>5. CASE ReadManual
    <2>1. Availability(tab.auth, tab.puuid, tab.view,
                       ManualOf(tab.puuid, tab.day), tab.now)
             \in Availabilities
      BY <1>1, AvailabilityType DEF Tab
    <2> QED
      BY <1>1, <1>5, <2>1 DEF ReadManual, Tab
  <1>6. CASE Reload
    BY <1>1, <1>6 DEF Reload, Tab
  <1> QED
    BY <1>2, <1>3, <1>4, <1>5, <1>6

LEMMA ButtonType ==
  ASSUME DashboardTypeOK,
         \/ CheckOwnership \/ StartNothing \/ Answered
         \/ \E r \in Runs : Press(r) \/ StartManual(r)
  PROVE  tab' \in Tab
  <1>1. tab \in Tab
    BY DEF DashboardTypeOK
  <1>2. ASSUME NEW message \in Messages, Finished(message) PROVE tab' \in Tab
    BY <1>1, <1>2 DEF Finished, Tab
  <1>3. "none" \in Messages /\ "notConnected" \in Messages /\ "failed" \in Messages
    BY DEF Messages
  <1>4. CASE CheckOwnership
    BY <1>1, <1>2, <1>3, <1>4 DEF CheckOwnership, Tab
  <1>5. CASE StartNothing \/ Answered
    BY <1>2, <1>3, <1>5, MessageType DEF StartNothing, Answered
  <1>6. ASSUME NEW r \in Runs, Press(r) \/ StartManual(r) PROVE tab' \in Tab
    BY <1>1, <1>3, <1>6 DEF Press, StartManual, Tab
  <1> QED
    BY <1>4, <1>5, <1>6

LEMMA DashboardNextType ==
  TypeOK /\ DashboardTypeOK /\ [DashboardNext]_dashVars => DashboardTypeOK'
  <1> SUFFICES ASSUME TypeOK, DashboardTypeOK, [DashboardNext]_dashVars
               PROVE  DashboardTypeOK'
    OBVIOUS
  <1>1. CASE /\ TabStep \/ Reload \/ \E r \in Runs : Press(r)
             /\ UNCHANGED <<report, lastLog, lastCheck>>
    <2>1. tab' \in Tab
      BY <1>1, ReadType, ButtonType DEF TabStep
    <2> QED
      BY <1>1, <2>1 DEF DashboardTypeOK
  <1>2. ASSUME NEW r \in Runs, StartManual(r) PROVE DashboardTypeOK'
    <2>1. tab' \in Tab /\ report' \in [Runs -> Reasons]
      BY <1>2, ButtonType, ReportType DEF StartManual, Begin
    <2> QED
      BY <1>2, <2>1 DEF DashboardTypeOK, StartManual, Begin
  <1>3. ASSUME NEW r \in Runs, NEW c \in Connections, NEW t,
               Begin(r, c, t), UNCHANGED tab
        PROVE  DashboardTypeOK'
    BY <1>3, ReportType DEF DashboardTypeOK, Begin
  <1>4. ASSUME NEW r \in Runs, WorkerStep(r) PROVE DashboardTypeOK'
    <2>1. report' \in [Runs -> Reasons] /\ C(r) \in Connections
      BY <1>4, ReportType, RunTypes DEF WorkerStep
    <2>2. report'[r] \in Reasons
      BY <2>1
    <2> QED
      BY <1>4, <2>1, <2>2 DEF DashboardTypeOK, WorkerStep
  <1>5. CASE UNCHANGED tabVars
    BY <1>5 DEF DashboardTypeOK, tabVars
  <1> QED
    BY <1>1, <1>2, <1>3, <1>4, <1>5 DEF DashboardNext, dashVars

LEMMA DashboardInitType == DashboardInit => DashboardTypeOK
  <1>1. "none" \in Reasons
    BY DEF Reasons, Unstarted
  <1>2. 0 \in Days
    BY BoundsAssumption DEF Days
  <1> QED
    BY <1>1, <1>2
       DEF DashboardInit, DashboardTypeOK, Tab, AuthStatuses, Availabilities,
           Messages

\* The tab, the reasons and the log the dashboard reads are well typed.
THEOREM DashboardTypeCorrect == DashboardSpec => [](TypeOK /\ DashboardTypeOK)
  <1>1. DashboardSpec => []TypeOK
    BY WorkerUnderDashboard, TypeCorrect, PTL
  <1> QED
    BY <1>1, DashboardInitType, DashboardNextType, PTL DEF DashboardSpec

-----------------------------------------------------------------------------
(* The status offers what the claims would grant.                           *)

\* The day of a lease is never ahead of the database's.
LeaseDays == \A c \in Connections : lease[c].day <= today

LEMMA NextLeaseDays == TypeOK /\ LeaseDays /\ [Next]_vars => LeaseDays'
  <1> SUFFICES ASSUME TypeOK, LeaseDays, [Next]_vars, NEW c \in Connections
               PROVE  lease'[c].day <= today'
    BY DEF LeaseDays
  <1>1. /\ today \in Nat /\ lease[c] \in LeaseColumns
        /\ lease[c].day \in Nat /\ lease[c].day <= today
    BY RowTypes DEF TypeOK, LeaseDays, LeaseColumns
  <1>2. NoLease.day = 0
    BY DEF NoLease
  <1>3. ASSUME NEW r \in Runs, Proceed(r) \/ Crash(r)
        PROVE  lease'[c].day <= today'
    <2>1. DatabaseCall(r) /\ UNCHANGED today
      BY <1>3, RunCalls, CallFrame
    <2>2. \A n : [lease[c] EXCEPT !.attempted = n].day = lease[c].day
      BY <1>1 DEF LeaseColumns
    <2>3. CASE /\ lease'[c].token = lease[c].token
               /\ lease'[c].attempted = lease[c].attempted
               /\ lease'[c].day = lease[c].day
      BY <1>1, <2>1, <2>3
    <2>4. CASE lease'[c] = NoLease
      BY <1>1, <1>2, <2>1, <2>4
    <2>5. CASE lease'[c] = [token |-> r, at |-> now, day |-> today,
                            attempted |-> 0]
      BY <1>1, <2>1, <2>5
    <2>6. CASE lease'[c] = [lease[c] EXCEPT !.attempted = lastMark + 1]
      BY <1>1, <2>1, <2>2, <2>6
    <2> QED
      BY <2>1, <2>3, <2>4, <2>5, <2>6, CallLeases
  <1>4. ASSUME NEW r \in Runs, NEW d \in Connections, NEW t \in Triggers,
               Start(r, d, t)
        PROVE  lease'[c].day <= today'
    BY <1>1, <1>4 DEF Start, dbVars
  <1>5. CASE Environment
    <2>1. lease' = lease \/ \E d \in Connections :
                               lease' = [lease EXCEPT ![d] = NoLease]
      BY <1>5 DEF Environment, Tick, Midnight, Disconnect, Connect, Reconnect
    <2>2. today' \in {today, today + 1}
      BY <1>5 DEF Environment, Tick, Midnight, Disconnect, Connect, Reconnect
    <2>3. lease'[c] = lease[c] \/ lease'[c] = NoLease
      BY <2>1 DEF TypeOK, DatabaseTypeOK
    <2> QED
      BY <1>1, <1>2, <2>2, <2>3
  <1>6. CASE UNCHANGED vars
    BY <1>1, <1>6 DEF vars, dbVars
  <1> QED
    BY <1>3, <1>4, <1>5, <1>6 DEF Next

LEMMA HoldClaimable ==
  ASSUME TypeOK, LeaseDays, NEW c \in Connections
  PROVE  Hold(lease[c], today, now) = "available"
           <=> \/ lease[c].token = NoRun
               \/ lease[c].day < today
               \/ lease[c].attempted = 0 /\ lease[c].at < now
  <1>1. /\ today \in Nat /\ now \in Nat /\ lease[c].day \in Nat
        /\ lease[c].at \in Nat /\ lease[c].day <= today
    BY RowTypes DEF TypeOK, LeaseDays, LeaseColumns
  <1>2. CASE lease[c].token = NoRun \/ lease[c].day # today
    <2>1. lease[c].day # today => lease[c].day < today
      BY <1>1
    <2>2. Hold(lease[c], today, now) = "available"
      BY <1>2 DEF Hold
    <2> QED
      BY <1>2, <2>1, <2>2
  <1>3. CASE lease[c].token # NoRun /\ lease[c].day = today
    <2>1. CASE lease[c].attempted # 0
      BY <1>1, <1>3, <2>1 DEF Hold
    <2>2. CASE lease[c].attempted = 0 /\ lease[c].at >= now
      BY <1>1, <1>3, <2>2 DEF Hold
    <2>3. CASE lease[c].attempted = 0 /\ ~(lease[c].at >= now)
      BY <1>1, <1>3, <2>3 DEF Hold
    <2> QED
      BY <2>1, <2>2, <2>3
  <1> QED
    BY <1>2, <1>3

LEMMA RowAvailable ==
  ASSUME NEW auth, NEW puuid, NEW m, m.status \in ManualStatuses,
         NEW t \in Nat, m.at \in Nat,
         NEW hold \in {"available", "uncertain", "leased"}
  PROVE  Availability(auth, puuid, hold, m, t) = "available"
           <=> /\ auth = "CONNECTED" /\ puuid # NoAccount
               /\ hold = "available"
               /\ \/ m.status \in {"none", "retryable_failed"}
                  \/ m.status = "claimed" /\ m.at < t
  <1>1. m.at < t <=> ~(m.at >= t)
    OBVIOUS
  <1>2. CASE m.status = "succeeded"
    BY <1>2 DEF Availability, Offered
  <1>3. CASE m.status = "requesting"
    BY <1>3 DEF Availability, Offered
  <1>4. CASE m.status = "claimed" /\ m.at >= t
    BY <1>1, <1>4 DEF Availability, Offered
  <1>5. CASE \/ m.status \in {"none", "retryable_failed"}
             \/ m.status = "claimed" /\ ~(m.at >= t)
    <2>1. CASE auth # "CONNECTED"
      BY <1>5, <2>1 DEF Availability, Offered
    <2>2. CASE auth = "CONNECTED" /\ puuid = NoAccount
      BY <1>5, <2>2 DEF Availability, Offered
    <2>3. CASE auth = "CONNECTED" /\ puuid # NoAccount
      BY <1>1, <1>5, <2>3 DEF Availability, Offered
    <2> QED
      BY <2>1, <2>2, <2>3
  <1> QED
    BY <1>2, <1>3, <1>4, <1>5 DEF ManualStatuses

\* The refresh button is offered for an account exactly when the two claims
\* behind it would be granted, in every state the system can reach.
THEOREM OfferIsGranted == DashboardSpec => []AvailableIsClaimable
  <1>1. TypeOK /\ LeaseDays => AvailableIsClaimable
    <2> SUFFICES ASSUME TypeOK, LeaseDays, NEW c \in Connections, Live(c)
                 PROVE  StatusNow(c) = "available" <=> ManualWouldRun(c)
      BY DEF AvailableIsClaimable
    <2> DEFINE m == ManualOf(conn[c].puuid, today)
               hold == Hold(lease[c], today, now)
    <2>1. /\ now \in Nat /\ conn[c] \in ConnectionRow /\ today \in Days
          /\ conn[c].puuid \in Accounts \cup {NoAccount}
      BY RowTypes DEF TypeOK, DatabaseTypeOK, ConnectionRow
    <2>2. m \in ManualRow
      BY <2>1, RowTypes, NullRowTypes DEF ManualOf, TypeOK
    <2>3. m.status \in ManualStatuses /\ m.at \in Nat
      BY <2>2 DEF ManualRow
    <2>4. hold \in {"available", "uncertain", "leased"}
      BY HoldType
    <2>5. StatusNow(c) = "available"
            <=> /\ conn[c].auth = "CONNECTED" /\ conn[c].puuid # NoAccount
                /\ hold = "available"
                /\ \/ m.status \in {"none", "retryable_failed"}
                   \/ m.status = "claimed" /\ m.at < now
      <3> HIDE DEF m, hold
      <3>1. Availability(conn[c].auth, conn[c].puuid, hold, m, now) = "available"
            <=> /\ conn[c].auth = "CONNECTED" /\ conn[c].puuid # NoAccount
                /\ hold = "available"
                /\ \/ m.status \in {"none", "retryable_failed"}
                   \/ m.status = "claimed" /\ m.at < now
        BY <2>1, <2>3, <2>4, RowAvailable
      <3> QED
        BY <3>1 DEF StatusNow, m, hold
    <2>6. conn[c].puuid # NoAccount =>
             (ManualFree(conn[c].puuid)
                <=> \/ m.status \in {"none", "retryable_failed"}
                    \/ m.status = "claimed" /\ m.at < now)
      BY DEF ManualFree, ManualOf
    <2>7. conn[c].auth = "CONNECTED" =>
             (RotationClaimable(c, conn[c].epoch) <=> hold = "available")
      BY HoldClaimable DEF RotationClaimable, Usable, Current
    <2> HIDE DEF m, hold
    <2> QED
      BY <2>5, <2>6, <2>7 DEF ManualWouldRun
  <1>2. DashboardInit => LeaseDays
    <2>1. 0 \in Nat /\ NoLease.day = 0
      BY DEF NoLease
    <2> QED
      BY <2>1 DEF DashboardInit, Init, DatabaseInit, LeaseDays
  <1>3. TypeOK /\ LeaseDays /\ [DashboardNext]_dashVars => LeaseDays'
    BY NextLeaseDays, DashboardStep
  <1> QED
    BY <1>1, <1>2, <1>3, DashboardTypeCorrect, PTL DEF DashboardSpec

-----------------------------------------------------------------------------
(* A page that calls the day spent stays right.                             *)

\* A request that was marked has a stamp, whatever became of it.
RequestsStamped ==
    \A a \in Accounts, d \in Days :
       manual[a][d].status \in {"requesting", "succeeded"}
       => manual[a][d].stamp # 0

LEMMA StampedRow ==
  ASSUME TypeOK, RequestsStamped, NEW a \in Accounts, NEW d \in Days, NEW row,
         manual' = [manual EXCEPT ![a][d] = row],
         row.status \in {"requesting", "succeeded"} => row.stamp # 0
  PROVE  RequestsStamped'
  <1>1. \A x \in Accounts, y \in Days :
           manual'[x][y] = IF x = a /\ y = d THEN row ELSE manual[x][y]
    BY DEF TypeOK, DatabaseTypeOK
  <1> QED
    BY <1>1 DEF RequestsStamped

LEMMA CallRequests ==
  ASSUME TypeOK, RequestsStamped, NEW r \in Runs, DatabaseCall(r)
  PROVE  RequestsStamped'
  <1> DEFINE a == A(r)
             d == D(r)
             m == manual[a][d]
  <1>1. /\ a \in Accounts /\ d \in Days /\ m \in ManualRow
        /\ today \in Days /\ lastMark + 1 # 0
    BY RunTypes, RowTypes DEF TypeOK, DatabaseTypeOK
  <1>2. m.status \in {"requesting", "succeeded"} => m.stamp # 0
    BY <1>1 DEF RequestsStamped
  <1>3. CASE UNCHANGED manual
    BY <1>3 DEF RequestsStamped
  <1>4. CASE ClaimManual(r, C(r), E(r))
    <2> DEFINE p == conn[C(r)].puuid
               row == [status |-> "claimed", conn |-> C(r), epoch |-> E(r),
                       token |-> r, at |-> now, stamp |-> 0, failed |-> FALSE]
    <2>1. p \in Accounts
      BY <1>4, RunTypes, ClaimManualType DEF TypeOK
    <2>2. manual' = [manual EXCEPT ![p][today] = row]
      BY <1>4 DEF ClaimManual
    <2>3. row.status = "claimed"
      OBVIOUS
    <2> HIDE DEF p, row
    <2> QED
      BY <1>1, <2>1, <2>2, <2>3, StampedRow
  <1>5. CASE MarkManual(r, C(r), E(r), a, d)
    <2> DEFINE row == [m EXCEPT !.status = "requesting", !.stamp = lastMark + 1]
    <2>1. manual' = [manual EXCEPT ![a][d] = row]
      BY <1>5 DEF MarkManual
    <2>2. row.stamp = lastMark + 1
      BY <1>1 DEF ManualRow
    <2> HIDE DEF row, m, a, d
    <2> QED
      BY <1>1, <2>1, <2>2, StampedRow
  <1>6. CASE FailManualRetryable(r, C(r), E(r), a, d) /\ ~UNCHANGED manual
    <2> DEFINE row == [m EXCEPT !.status = "retryable_failed", !.failed = TRUE]
    <2>1. manual' = [manual EXCEPT ![a][d] = row]
      BY <1>6 DEF FailManualRetryable
    <2>2. row.status = "retryable_failed"
      BY <1>1 DEF ManualRow
    <2> HIDE DEF row, m, a, d
    <2> QED
      BY <1>1, <2>1, <2>2, StampedRow
  <1>7. CASE manual' = [manual EXCEPT ![a][d].failed = TRUE]
    <2> DEFINE row == [m EXCEPT !.failed = TRUE]
    <2>1. manual' = [manual EXCEPT ![a][d] = row]
      BY <1>7
    <2>2. row.status = m.status /\ row.stamp = m.stamp
      BY <1>1 DEF ManualRow
    <2> HIDE DEF row, m, a, d
    <2> QED
      BY <1>1, <1>2, <2>1, <2>2, StampedRow
  <1>8. CASE RecordManual(r, C(r), E(r), a, d, attempt[r])
    <2> DEFINE row == [m EXCEPT !.status = "succeeded"]
    <2>1. manual' = [manual EXCEPT ![a][d] = row]
      BY <1>8 DEF RecordManual
    <2>2. row.stamp = m.stamp
      BY <1>1 DEF ManualRow
    <2>3. m.status \in {"requesting", "succeeded"}
      BY <1>8 DEF RecordManual, Completable, Completed
    <2> HIDE DEF row, m, a, d
    <2> QED
      BY <1>1, <1>2, <2>1, <2>2, <2>3, StampedRow
  <1> QED
    BY <1>3, <1>4, <1>5, <1>6, <1>7, <1>8
       DEF DatabaseCall, dbVars, NewJar, LeaseCall, ClaimCall, MarkCall,
           FailCall, CloseCall, RecordCall, DecorateCall, PersistCall,
           StatusCall, IdentityCall, ClaimRotation, RenewRotation,
           ReleaseRotation, ClaimDaily, MarkDaily, FailManualFinal,
           CloseDaily, CloseManual, RecordDaily, EnrichShop, WriteExtras,
           PersistRotated, ApplyLifecycle, PersistPuuid

LEMMA NextRequests ==
  TypeOK /\ RequestsStamped /\ [Next]_vars => RequestsStamped'
  <1> SUFFICES ASSUME TypeOK, RequestsStamped, [Next]_vars
               PROVE  RequestsStamped'
    OBVIOUS
  <1>1. ASSUME NEW r \in Runs, Proceed(r) \/ Crash(r) PROVE RequestsStamped'
    BY <1>1, RunCalls, CallRequests
  <1>2. CASE UNCHANGED manual
    BY <1>2 DEF RequestsStamped
  <1>3. ASSUME NEW r \in Runs, NEW c \in Connections, NEW t \in Triggers,
               Start(r, c, t)
        PROVE  UNCHANGED manual
    BY <1>3 DEF Start, dbVars
  <1>4. Environment \/ UNCHANGED vars => UNCHANGED manual
    BY DEF Environment, Tick, Midnight, Disconnect, Connect, Reconnect, vars,
           dbVars
  <1> QED
    BY <1>1, <1>2, <1>3, <1>4 DEF Next

\* What a tab that has read a spent day rests on; it may stay on the page, go
\* back to the account list, or find its account gone.
SpentView == tab.view \in {"succeeded", "exhausted"}

SeenInv ==
    /\ tab.step = "manual" => tab.view \in {"available", "uncertain", "leased"}
    /\ tab.step \notin {"identity", "manual"} /\ SpentView =>
         /\ tab.puuid \in Accounts
         /\ manual[tab.puuid][tab.day].stamp # 0
         /\ tab.view = "succeeded" =>
              manual[tab.puuid][tab.day].status = "succeeded"

LEMMA SpentRow ==
  ASSUME NEW auth, NEW puuid, NEW m, NEW t,
         NEW hold \in {"available", "uncertain", "leased"}
  PROVE  /\ Availability(auth, puuid, hold, m, t) = "succeeded"
              => m.status = "succeeded"
         /\ Availability(auth, puuid, hold, m, t) = "exhausted"
              => m.status = "requesting"
  BY DEF Availability, Offered

LEMMA ReadSeen ==
  ASSUME TypeOK, DashboardTypeOK, RequestsStamped, SeenInv, UNCHANGED manual,
         ReadAccounts \/ ReadStoreDay \/ ReadIdentity \/ ReadManual \/ Reload
  PROVE  SeenInv'
  <1>1. tab \in Tab
    BY DEF DashboardTypeOK
  <1>2. CASE ReadAccounts \/ ReadStoreDay \/ Reload
    <2>1. /\ tab'.view = tab.view /\ tab'.puuid = tab.puuid
          /\ tab'.step = "identity"
             \/ (tab'.day = tab.day /\ tab.step \notin {"identity", "manual"}
                 /\ tab'.step # "manual")
      BY <1>1, <1>2 DEF ReadAccounts, ReadStoreDay, Reload, Tab
    <2> QED
      BY <2>1 DEF SeenInv, SpentView
  <1>3. CASE ReadIdentity
    <2>1. /\ tab'.step = "manual"
          /\ tab'.view = Hold(lease[Selected], tab.day, tab.now)
      BY <1>1, <1>3 DEF ReadIdentity, Tab
    <2> QED
      BY <2>1, HoldType DEF SeenInv, SpentView
  <1>4. CASE ReadManual
    <2> DEFINE m == ManualOf(tab.puuid, tab.day)
               view == Availability(tab.auth, tab.puuid, tab.view, m, tab.now)
    <2>1. /\ tab'.step = "shown" /\ tab'.view = view
          /\ tab'.puuid = tab.puuid /\ tab'.day = tab.day
          /\ tab.view \in {"available", "uncertain", "leased"}
      BY <1>1, <1>4 DEF ReadManual, Tab, SeenInv
    <2>2. /\ view = "succeeded" => m.status = "succeeded"
          /\ view = "exhausted" => m.status = "requesting"
      BY <2>1, SpentRow
    <2>3. m.status \in {"succeeded", "requesting"}
          => tab.puuid \in Accounts /\ m = manual[tab.puuid][tab.day]
      BY <1>1 DEF ManualOf, NoManual, Tab
    <2>4. m.status \in {"succeeded", "requesting"} => m.stamp # 0
      BY <1>1, <2>3 DEF RequestsStamped, Tab
    <2> HIDE DEF m, view
    <2> QED
      BY <2>1, <2>2, <2>3, <2>4 DEF SeenInv, SpentView
  <1> QED
    BY <1>2, <1>3, <1>4

LEMMA ButtonSeen ==
  ASSUME DashboardTypeOK, SeenInv, UNCHANGED manual,
         \/ CheckOwnership \/ StartNothing \/ Answered
         \/ \E r \in Runs : Press(r) \/ StartManual(r)
  PROVE  SeenInv'
  <1>1. tab \in Tab
    BY DEF DashboardTypeOK
  <1>2. /\ tab'.view = tab.view /\ tab'.puuid = tab.puuid /\ tab'.day = tab.day
        /\ tab.step \notin {"identity", "manual"} /\ tab'.step # "manual"
    BY <1>1 DEF CheckOwnership, StartNothing, Answered, Finished, Press,
                StartManual, Tab
  <1> QED
    BY <1>2 DEF SeenInv, SpentView

LEMMA NextSeen ==
  TypeOK /\ DashboardTypeOK /\ StampsRecorded /\ RequestsStamped /\ SeenInv
  /\ [DashboardNext]_dashVars => SeenInv'
  <1> SUFFICES ASSUME TypeOK, DashboardTypeOK, StampsRecorded,
                      RequestsStamped, SeenInv, [DashboardNext]_dashVars
               PROVE  SeenInv'
    OBVIOUS
  <1>1. CASE UNCHANGED tab
    <2>1. StampsKept
      BY DashboardStep, NextStamps DEF StampsSafe
    <2>2. tab.puuid \in Accounts /\ manual[tab.puuid][tab.day].stamp # 0
          => /\ manual'[tab.puuid][tab.day].stamp # 0
             /\ manual[tab.puuid][tab.day].status = "succeeded" =>
                  manual'[tab.puuid][tab.day].status = "succeeded"
      BY <2>1 DEF StampsKept, DashboardTypeOK, Tab
    <2> QED
      BY <1>1, <2>2 DEF SeenInv, SpentView
  <1>2. CASE /\ TabStep \/ Reload \/ \E r \in Runs : Press(r)
             /\ UNCHANGED vars
    BY <1>2, ReadSeen, ButtonSeen DEF TabStep, vars, dbVars
  <1>3. ASSUME NEW r \in Runs, StartManual(r) PROVE SeenInv'
    BY <1>3, ButtonSeen DEF StartManual, Begin, Start, dbVars
  <1> QED
    BY <1>1, <1>2, <1>3 DEF DashboardNext, dashVars, tabVars, WorkerStep

\* A page that calls the day's refresh succeeded or exhausted is right for the
\* rest of that day, whatever ran between its reads and since.
THEOREM SpentStaysSpent == DashboardSpec => []SpentIsSpent
  <1>1. TypeOK /\ DashboardTypeOK /\ StampsRecorded /\ SeenInv => SpentIsSpent
    <2> SUFFICES ASSUME TypeOK, DashboardTypeOK, StampsRecorded, SeenInv,
                        tab.step = "shown", SpentView
                 PROVE  /\ manual[tab.puuid][tab.day].stamp # 0
                        /\ tab.day = today => ~ManualFree(tab.puuid)
                        /\ tab.view = "succeeded" =>
                             manual[tab.puuid][tab.day].status = "succeeded"
      BY DEF SpentIsSpent, SpentView
    <2>1. /\ tab.puuid \in Accounts /\ tab.day \in Days
          /\ manual[tab.puuid][tab.day].stamp # 0
          /\ tab.view = "succeeded" =>
               manual[tab.puuid][tab.day].status = "succeeded"
      BY DEF SeenInv, DashboardTypeOK, Tab
    <2>2. manual[tab.puuid][tab.day].status
             \notin {"none", "claimed", "retryable_failed"}
      BY <2>1 DEF StampsRecorded
    <2> QED
      BY <2>1, <2>2 DEF ManualFree
  <1>2. DashboardInit => RequestsStamped /\ SeenInv
    BY DEF DashboardInit, Init, DatabaseInit, NoManual, RequestsStamped,
           SeenInv, SpentView
  <1>3. TypeOK /\ DashboardTypeOK /\ StampsRecorded /\ RequestsStamped
        /\ SeenInv /\ [DashboardNext]_dashVars
        => (RequestsStamped /\ SeenInv)'
    BY NextSeen, NextRequests, DashboardStep
  <1>4. DashboardSpec => []StampsRecorded
    <2>1. AttemptInv => StampsRecorded
      BY DEF AttemptInv
    <2> QED
      BY <2>1, WorkerUnderDashboard, AttemptInvariant, PTL
  <1> QED
    BY <1>1, <1>2, <1>3, <1>4, DashboardTypeCorrect, PTL DEF DashboardSpec

-----------------------------------------------------------------------------
(* A session found dead stays dead.                                         *)

\* A run that Riot refused is about to say so, was hit by a fault, or has left
\* a session that cannot be used again.
DeadInv ==
    \A r \in Runs : ctl[r].result = "DEAD" =>
       /\ pc[r] # "idle"
       /\ pc[r] = "lifecycle" \/ faults[r] > 0 \/ ~Usable(C(r), E(r))

LEMMA NeverIdle ==
  ASSUME TypeOK, NEW r \in Runs, Proceed(r) \/ Crash(r)
  PROVE  pc'[r] # "idle"
  <1>1. CASE Acquire(r) \/ MarkStorefrontAttempt(r) \/ GetStore(r)
    <2>1. OnError(r) # "idle"
      BY LaterSteps DEF Later, Unclaimed
    <2> QED
      BY <1>1, <2>1 DEF Acquire, MarkStorefrontAttempt, GetStore, Reply,
                        Answer, Goto, TypeOK
  <1>2. CASE ~(Acquire(r) \/ MarkStorefrontAttempt(r) \/ GetStore(r))
    <2>1. PICK x \in Later : Goto(r, x)
      BY <1>2, AnsweredNext, RepliedNext DEF Answer, Proceed
    <2> QED
      BY <2>1 DEF Goto, Later, Unclaimed, TypeOK
  <1> QED
    BY <1>1, <1>2

\* Only the answer to a reauthentication sets the session's result.
LEMMA ResultUnchanged ==
  ASSUME TypeOK, NEW r \in Runs, Proceed(r) \/ Crash(r), ~RefreshFails(r)
  PROVE  ctl'[r].result = ctl[r].result
  <1>1. ctl \in [Runs -> Control] /\ ctl[r] \in Control
    BY DEF TypeOK
  <1>2. ASSUME UNCHANGED ctl PROVE ctl'[r].result = ctl[r].result
    BY <1>2
  <1>3. CASE Acquire(r) \/ FailAmbiguous(r) \/ Close(r) \/ CallFails(r)
    <2>1. UNCHANGED ctl \/ \E v : ctl' = [ctl EXCEPT ![r].held = v]
      <3>1. CASE Acquire(r) \/ FailAmbiguous(r) \/ Close(r)
        BY <3>1 DEF Acquire, FailAmbiguous, Close
      <3>2. CASE CallFails(r)
        <4>1. ctl' = [ctl EXCEPT ![r].held =
                        IF At(r, "failAmbiguous") THEN FALSE ELSE ctl[r].held]
          BY <3>2 DEF CallFails
        <4> QED
          BY <4>1
      <3> QED
        BY <1>3, <3>1, <3>2
    <2> QED
      BY <1>1, <2>1 DEF Control
  <1>4. CASE Healthy(r) \/ StoreRejected(r) \/ Lifecycle(r)
    <2>1. \/ UNCHANGED ctl
          \/ \E v : ctl' = [ctl EXCEPT ![r].healthy = v]
          \/ \E v : ctl' = [ctl EXCEPT ![r].handled = v]
          \/ \E v : ctl' = [ctl EXCEPT ![r].terminal = v]
      BY <1>4 DEF Healthy, StoreRejected, Lifecycle
    <2> QED
      BY <1>1, <2>1 DEF Control
  <1>5. CASE \/ Record(r) \/ RecordReplayed(r) \/ RecordRefused(r)
             \/ Enrich(r) \/ EnrichRefused(r) \/ RecordCallFails(r)
    <2>1. \/ ctl' = [ctl EXCEPT ![r].tries = 1]
          \/ ctl' = [ctl EXCEPT ![r] = [@ EXCEPT !.held = FALSE, !.tries = 0]]
      BY <1>5 DEF Record, RecordReplayed, RecordRefused, Enrich,
                  EnrichRefused, RecordCallFails
    <2>2. CASE ctl' = [ctl EXCEPT ![r].tries = 1]
      BY <1>1, <2>2 DEF Control
    <2>3. CASE ctl' = [ctl EXCEPT ![r] = [@ EXCEPT !.held = FALSE, !.tries = 0]]
      BY <1>1, <2>3 DEF Control
    <2> QED
      BY <2>1, <2>2, <2>3
  <1> QED
    BY <1>2, <1>3, <1>4, <1>5
       DEF Proceed, Crash, AcquireRefused, TakeDaily, TakeManual, ClaimRefused,
           Load, LoadMissing, Renew, RenewRefused, Refresh, Persist,
           PersistRefused, Prepare, MarkStorefrontAttempt, MarkRefused,
           GetStore, StoreReceived, StoreAmbiguous, LifecycleStale, FailRetry,
           CloseRefused, SendExpiry, Release, HealthyStale, CanonicalizeFails,
           Extras, ResolvePuuid, PipelineFails

\* The write that follows a dead session marks it, unless it is over already
\* or the call fails.
LEMMA DeadIsMarked ==
  ASSUME TypeOK, NEW r \in Runs, Proceed(r) \/ Crash(r), At(r, "lifecycle"),
         ctl[r].result = "DEAD"
  PROVE  faults'[r] > 0 \/ ~Usable(C(r), E(r))'
  <1>1. C(r)' = C(r) /\ E(r)' = E(r)
    BY RunMoves DEF C, E
  <1>2. CASE Fault(r)
    <2>1. faults[r] \in 0..MaxFaults
      BY DEF TypeOK
    <2> QED
      BY <1>2, <2>1, TriggersAssumption DEF Fault, TypeOK
  <1>3. CASE ~Fault(r)
    <2>1. Lifecycle(r) \/ LifecycleStale(r)
      BY <1>3 DEF At, Proceed, Crash, Acquire, AcquireRefused, TakeDaily,
                  TakeManual, ClaimRefused, Load, LoadMissing, Renew,
                  RenewRefused, Refresh, RefreshFails, Persist,
                  PersistRefused, Prepare, MarkStorefrontAttempt, MarkRefused,
                  GetStore, StoreReceived, StoreRejected, StoreAmbiguous,
                  FailRetry, FailAmbiguous, Close, CloseRefused, SendExpiry,
                  Release, Healthy, HealthyStale, CanonicalizeFails, Record,
                  RecordReplayed, RecordRefused, Extras, ResolvePuuid, Enrich,
                  PipelineFails, EnrichRefused, CallFails, RecordCallFails
    <2>2. CASE LifecycleStale(r)
      BY <1>1, <2>2
         DEF LifecycleStale, Answer, dbVars, Usable, Current, Live
    <2>3. CASE Lifecycle(r)
      <3>1. C(r) \in Connections /\ conn[C(r)] \in ConnectionRow
        BY RunTypes, RowTypes DEF TypeOK
      <3>2. \A f : CheckedRow(conn[C(r)], f, "DEAD").auth = "REAUTH_REQUIRED"
        BY <3>1 DEF CheckedRow, ConnectionRow, NextAuth, Terminal
      <3>3. conn' = [conn EXCEPT ![C(r)] =
                       CheckedRow(conn[C(r)], job[r].failures, "DEAD")]
        BY <2>3 DEF Lifecycle, ApplyLifecycle
      <3>4. conn'[C(r)].auth = "REAUTH_REQUIRED"
        BY <3>1, <3>2, <3>3 DEF TypeOK, DatabaseTypeOK
      <3> QED
        BY <1>1, <3>4 DEF Usable
    <2> QED
      BY <2>1, <2>2, <2>3
  <1> QED
    BY <1>2, <1>3

\* What was true of a run that does not move stays true.
LEMMA DeadKept ==
  ASSUME TypeOK, RunsOnRows, OverForGood, NEW r \in Runs, pc[r] # "idle",
         job'[r] = job[r], faults'[r] = faults[r],
         faults[r] > 0 \/ ~Usable(C(r), E(r))
  PROVE  faults'[r] > 0 \/ ~Usable(C(r), E(r))'
  <1>1. C(r) \in Connections /\ E(r) \in Nat /\ C(r)' = C(r) /\ E(r)' = E(r)
    BY RunTypes DEF C, E
  <1>2. conn[C(r)].state # "absent" /\ E(r) <= conn[C(r)].epoch
    BY DEF RunsOnRows
  <1>3. \A c \in Connections, e \in Nat :
           conn[c].state # "absent" /\ e <= conn[c].epoch /\ ~Usable(c, e)
           => ~(/\ conn'[c].state = "live" /\ conn'[c].epoch = e
                /\ conn'[c].auth # "REAUTH_REQUIRED")
    BY DEF OverForGood, Usable, Current, Live
  <1> QED
    BY <1>1, <1>2, <1>3 DEF Usable, Current, Live

LEMMA NextDead ==
  TypeOK /\ RunsOnRows /\ DeadInv /\ [Next]_vars => DeadInv'
  <1> SUFFICES ASSUME TypeOK, RunsOnRows, DeadInv, [Next]_vars,
                      NEW r \in Runs, ctl'[r].result = "DEAD"
               PROVE  /\ pc'[r] # "idle"
                      /\ \/ pc'[r] = "lifecycle" \/ faults'[r] > 0
                         \/ ~Usable(C(r), E(r))'
    BY DEF DeadInv
  <1>1. OverForGood
    BY NextType, NextOver
  <1>2. ASSUME LocalKept(r)
        PROVE  /\ pc'[r] # "idle"
               /\ \/ pc'[r] = "lifecycle" \/ faults'[r] > 0
                  \/ ~Usable(C(r), E(r))'
    <2>1. /\ pc'[r] # "idle" /\ pc'[r] = pc[r]
          /\ pc[r] = "lifecycle" \/ faults[r] > 0 \/ ~Usable(C(r), E(r))
      BY <1>2 DEF LocalKept, DeadInv
    <2> QED
      BY <1>1, <1>2, <2>1, DeadKept DEF LocalKept
  <1>3. ASSUME Proceed(r) \/ Crash(r)
        PROVE  \/ pc'[r] = "lifecycle" \/ faults'[r] > 0
               \/ ~Usable(C(r), E(r))'
    <2>1. CASE RefreshFails(r)
      BY <2>1 DEF RefreshFails, Answer, Goto, TypeOK
    <2>2. CASE ~RefreshFails(r)
      <3>1. ctl[r].result = "DEAD"
        BY <1>3, <2>2, ResultUnchanged
      <3>2. CASE At(r, "lifecycle")
        BY <1>3, <3>1, <3>2, DeadIsMarked
      <3>3. CASE ~At(r, "lifecycle")
        <4>1. faults[r] > 0 \/ ~Usable(C(r), E(r))
          BY <3>1, <3>3 DEF DeadInv, At
        <4>2. UNCHANGED job /\ pc[r] # "idle"
          BY <1>3, RunMoves
        <4>3. CASE UNCHANGED faults
          BY <1>1, <4>1, <4>2, <4>3, DeadKept
        <4>4. CASE Fault(r)
          <5>1. faults[r] \in 0..MaxFaults
            BY DEF TypeOK
          <5> QED
            BY <4>4, <5>1, TriggersAssumption DEF Fault, TypeOK
        <4> QED
          BY <1>3, <4>3, <4>4, FaultMoves
      <3> QED
        BY <3>2, <3>3
    <2> QED
      BY <2>1, <2>2
  <1>4. ASSUME NEW s \in Runs, Proceed(s) \/ Crash(s)
        PROVE  /\ pc'[r] # "idle"
               /\ \/ pc'[r] = "lifecycle" \/ faults'[r] > 0
                  \/ ~Usable(C(r), E(r))'
    <2>1. CASE s = r
      BY <1>3, <1>4, <2>1, NeverIdle
    <2>2. CASE s # r
      BY <1>2, <1>4, <2>2, LocalMoves
    <2> QED
      BY <2>1, <2>2
  <1>5. ASSUME NEW s \in Runs, NEW c \in Connections, NEW t \in Triggers,
               Start(s, c, t)
        PROVE  LocalKept(r)
    <2>1. /\ UNCHANGED <<claim, attempt, ctl, faults, uncertain>> /\ pc[s] = "idle"
          /\ r # s => pc'[r] = pc[r] /\ job'[r] = job[r]
      BY <1>5 DEF Start, At, Goto, TypeOK
    <2>2. r # s
      BY <2>1 DEF DeadInv
    <2> QED
      BY <2>1, <2>2 DEF LocalKept
  <1>6. UNCHANGED workerVars => LocalKept(r)
    BY DEF workerVars, LocalKept
  <1> QED
    BY <1>2, <1>4, <1>5, <1>6 DEF Next, vars

-----------------------------------------------------------------------------
(* A check that succeeded has its storefront stored.                        *)

\* The steps after the record.
AfterSteps == {"extras", "puuid", "enrich", "enrichExtras"}

\* The steps with Riot's answer in hand.
Heard == {"healthy", "record"}

\* The storefront of the run, or a later one, is stored for its session, and a
\* manual run's allowance reads succeeded.
Recorded(r) ==
    /\ attempt[r] # 0
    /\ IsManual(r) => manual[A(r)][D(r)].status = "succeeded"
    /\ Current(C(r), E(r)) => shop[C(r)][D(r)].stamp >= attempt[r]

\* A reason that counts as checked is fixed after Riot's answer, and a run only
\* gets past the record, or ends with such a reason, with its shop recorded.
ReportInv ==
    \A r \in Runs :
       /\ report[r] \in Checked => pc[r] \in {"record"} \cup AfterSteps \cup Ended
       /\ pc[r] \in Heard => attempt[r] # 0
       /\ \/ pc[r] \in AfterSteps
          \/ pc[r] = "done" /\ report[r] \in Checked
          => Recorded(r)

\* Where a run goes from the record, and how it gets past it.
LEMMA RecordPath ==
  ASSUME TypeOK, NEW r \in Runs, Proceed(r) \/ Crash(r)
  PROVE  /\ pc[r] \notin Ended
         /\ pc'[r] \in Heard => pc[r] \in Heard \cup {"awaiting"}
         /\ pc'[r] \in AfterSteps =>
               pc[r] \in AfterSteps \/ Record(r) \/ RecordReplayed(r)
         /\ pc[r] \in AfterSteps => pc'[r] \in AfterSteps \cup Ended
         /\ pc[r] = "healthy" => pc'[r] \in {"record", "crashed"}
         /\ pc[r] = "record" =>
               pc'[r] \in {"extras", "record", "close", "crashed"}
  <1>1. ASSUME NEW next, Goto(r, next) PROVE pc'[r] = next
    BY <1>1 DEF Goto, TypeOK
  <1>2. CASE \/ Acquire(r) \/ AcquireRefused(r) \/ TakeDaily(r)
             \/ TakeManual(r) \/ ClaimRefused(r) \/ Load(r) \/ LoadMissing(r)
             \/ Renew(r) \/ RenewRefused(r) \/ Refresh(r) \/ RefreshFails(r)
             \/ Persist(r) \/ PersistRefused(r) \/ Prepare(r)
             \/ MarkStorefrontAttempt(r) \/ MarkRefused(r) \/ GetStore(r)
             \/ StoreRejected(r) \/ StoreAmbiguous(r)
    <2>1. pc[r] \in {"acquire", "claim", "load", "renew", "refresh",
                      "persist", "prepare", "mark", "fetch", "awaiting"}
      BY <1>2
         DEF Acquire, AcquireRefused, TakeDaily, TakeManual, ClaimRefused,
             Load, LoadMissing, Renew, RenewRefused, Refresh, RefreshFails,
             Persist, PersistRefused, Prepare, MarkStorefrontAttempt,
             MarkRefused, GetStore, StoreRejected, StoreAmbiguous, At
    <2>2. OnError(r) \notin AfterSteps \cup Heard
      BY <2>1 DEF OnError, AfterSteps, Heard
    <2>3. \E next : Goto(r, next) /\ next \notin AfterSteps \cup Heard
      <3>1. \A next \in {"claim", "load", "renew", "refresh", "persist",
                         "prepare", "mark", "fetch", "awaiting",
                         "lifecycle", "release", "failRetry", "done"} :
               next \notin AfterSteps \cup Heard
        BY DEF AfterSteps, Heard
      <3> QED
        BY <1>2, <2>2, <3>1
           DEF Acquire, AcquireRefused, TakeDaily, TakeManual, ClaimRefused,
               Load, LoadMissing, Renew, RenewRefused, Refresh, RefreshFails,
               Persist, PersistRefused, Prepare, MarkStorefrontAttempt,
               MarkRefused, GetStore, StoreRejected, StoreAmbiguous, Reply, Answer
    <2>4. pc'[r] \notin AfterSteps \cup Heard
      BY <1>1, <2>3
    <2> QED
      BY <2>1, <2>4 DEF Ended, AfterSteps, Heard
  <1>3. CASE \/ Lifecycle(r) \/ LifecycleStale(r) \/ FailRetry(r)
             \/ FailAmbiguous(r) \/ Close(r) \/ CloseRefused(r)
             \/ SendExpiry(r) \/ Release(r)
    <2>1. /\ pc[r] \in {"lifecycle", "failRetry", "failAmbiguous", "close",
                         "expire", "release"}
          /\ \E next : Goto(r, next) /\ next \notin AfterSteps \cup Heard
      BY <1>3
         DEF Lifecycle, LifecycleStale, FailRetry, FailAmbiguous, Close,
             CloseRefused, SendExpiry, Release, Reply, Answer, OnError, At,
             AfterSteps, Heard, AfterFailure, Finalize, Finally
    <2>2. pc'[r] \notin AfterSteps \cup Heard
      BY <1>1, <2>1
    <2> QED
      BY <2>1, <2>2 DEF Ended, AfterSteps, Heard
  <1>4. CASE \/ Healthy(r) \/ HealthyStale(r) \/ CanonicalizeFails(r)
             \/ RecordRefused(r)
    <2>1. \/ pc[r] = "healthy" /\ Goto(r, "record")
          \/ pc[r] = "record" /\ (Goto(r, "record") \/ Goto(r, "close"))
      BY <1>4 DEF Healthy, HealthyStale, CanonicalizeFails, RecordRefused,
                  Answer, OnError, OnRecordError, At
    <2> QED
      BY <1>1, <2>1 DEF Ended, AfterSteps, Heard
  <1>5. CASE Record(r) \/ RecordReplayed(r)
    <2>1. /\ pc[r] = "record"
          /\ Goto(r, "extras") \/ Goto(r, "record") \/ Goto(r, "close")
      BY <1>5 DEF Record, RecordReplayed, Answer, OnRecordError, At
    <2> QED
      BY <1>1, <1>5, <2>1 DEF Ended, AfterSteps, Heard
  <1>6. CASE \/ Extras(r) \/ ResolvePuuid(r) \/ Enrich(r) \/ PipelineFails(r)
             \/ EnrichRefused(r)
    <2>1. /\ pc[r] \in AfterSteps
          /\ \E next : Goto(r, next) /\ next \in AfterSteps \cup Ended
      BY <1>6
         DEF Extras, ResolvePuuid, Enrich, PipelineFails, EnrichRefused,
             Answer, OnRecordError, AfterRecord, AfterIdentity, At,
             AfterSteps, Ended
    <2>2. pc'[r] \in AfterSteps \cup Ended
      BY <1>1, <2>1
    <2> QED
      BY <2>1, <2>2 DEF Ended, AfterSteps, Heard
  <1>7. CASE CallFails(r)
    <2>1. /\ pc[r] \in CallSteps /\ pc'[r] = OnError(r)
      BY <1>1, <1>7 DEF CallFails
    <2>2. /\ OnError(r) \in AfterSteps => pc[r] \in AfterSteps
          /\ pc[r] \in AfterSteps => OnError(r) \in AfterSteps \cup Ended
          /\ pc[r] = "healthy" => OnError(r) = "record"
          /\ OnError(r) \in Heard => pc[r] \in Heard
      BY <2>1
         DEF CallSteps, OnError, AfterSteps, Heard, Ended, AfterRecord,
             AfterIdentity, Finalize, AfterFailure, Finally
    <2> QED
      BY <2>1, <2>2 DEF CallSteps, Heard, Ended
  <1>8. CASE RecordCallFails(r)
    <2>1. \/ pc[r] = "record" /\ (Goto(r, "record") \/ Goto(r, "close"))
          \/ pc[r] = "enrich" /\ (Goto(r, "enrich") \/ Goto(r, "done"))
      BY <1>8 DEF RecordCallFails, OnRecordError, At
    <2> QED
      BY <1>1, <2>1 DEF Ended, AfterSteps, Heard
  <1>9. CASE Crash(r)
    <2>1. pc'[r] = "crashed" /\ pc[r] \notin Ended
      BY <1>1, <1>9 DEF Crash
    <2> QED
      BY <2>1 DEF Ended, AfterSteps, Heard
  <1>10. CASE StoreReceived(r)
    <2>1. pc[r] = "awaiting" /\ pc'[r] = "healthy"
      BY <1>1, <1>10 DEF StoreReceived, Answer, At
    <2> QED
      BY <2>1 DEF Ended, AfterSteps, Heard
  <1> QED
    BY <1>2, <1>3, <1>4, <1>5, <1>6, <1>7, <1>8, <1>9, <1>10 DEF Proceed

\* Past the mark a run keeps its claim and its attempt.
LEMMA ClaimIsFixed ==
  ASSUME NEW r \in Runs, Proceed(r) \/ Crash(r),
         pc[r] \notin {"claim", "mark"}
  PROVE  UNCHANGED <<claim, attempt>>
  BY DEF Proceed, Crash, local, At, Acquire, AcquireRefused, TakeDaily,
         TakeManual, ClaimRefused, Load, LoadMissing, Renew, RenewRefused,
         Refresh, RefreshFails, Persist, PersistRefused, Prepare,
         MarkStorefrontAttempt, MarkRefused, GetStore, StoreReceived,
         StoreRejected, StoreAmbiguous, Lifecycle, LifecycleStale, FailRetry,
         FailAmbiguous, Close, CloseRefused, SendExpiry, Release, Healthy,
         HealthyStale, CanonicalizeFails, Record, RecordReplayed,
         RecordRefused, Extras, ResolvePuuid, Enrich, PipelineFails,
         EnrichRefused, CallFails, RecordCallFails

LEMMA RecordIsStored ==
  ASSUME TypeOK, StoredShops, NEW r \in Runs, attempt[r] # 0,
         Record(r) \/ RecordReplayed(r)
  PROVE  Recorded(r)'
  <1> DEFINE m == manual[A(r)][D(r)]
             row == [m EXCEPT !.status = "succeeded"]
  <1>1. /\ C(r)' = C(r) /\ E(r)' = E(r) /\ D(r)' = D(r) /\ A(r)' = A(r)
        /\ IsManual(r)' = IsManual(r) /\ attempt' = attempt
    BY DEF Record, RecordReplayed, local, C, E, D, A, IsManual
  <1>2. /\ A(r) \in Accounts /\ D(r) \in Days /\ C(r) \in Connections
        /\ attempt[r] \in Nat /\ m \in ManualRow
    BY RunTypes, RowTypes DEF TypeOK
  <1>3. CASE RecordReplayed(r)
    <2>1. /\ UNCHANGED <<manual, shop>>
          /\ shop[C(r)][D(r)].stamp = attempt[r]
          /\ IsManual(r) => m.status = "succeeded"
      BY <1>3 DEF RecordReplayed, Replayable, ReplayableShop, Completed,
                  Answer, dbVars
    <2>2. shop'[C(r)][D(r)].stamp >= attempt[r]
      BY <1>2, <2>1
    <2> QED
      BY <1>1, <2>1, <2>2 DEF Recorded
  <1>4. CASE Record(r)
    <2>1. RecordCall(r)
      BY <1>4 DEF Record, RecordEffect, RecordCall
    <2>2. shop'[C(r)][D(r)].stamp = attempt[r]
      BY <2>1, RecordShops
    <2>3. shop'[C(r)][D(r)].stamp >= attempt[r]
      BY <1>2, <2>2
    <2>4. IsManual(r) => manual'[A(r)][D(r)].status = "succeeded"
      <3>1. IsManual(r) => manual' = [manual EXCEPT ![A(r)][D(r)] = row]
        BY <1>4 DEF Record, RecordEffect, RecordManual
      <3>2. row.status = "succeeded"
        BY <1>2 DEF ManualRow
      <3> HIDE DEF row
      <3> QED
        BY <1>2, <3>1, <3>2 DEF TypeOK, DatabaseTypeOK
    <2> QED
      BY <1>1, <2>3, <2>4 DEF Recorded
  <1> QED
    BY <1>3, <1>4

\* What is recorded stays recorded: no success is undone, no storefront is
\* replaced by an earlier one, and no row returns to an earlier session.
LEMMA RecordedKept ==
  ASSUME TypeOK, TypeOK', RunStamps, RunsOnRows, StampsKept, ShopKept,
         RowsKept, NEW r \in Runs, pc[r] # "idle", Recorded(r),
         job'[r] = job[r], claim'[r] = claim[r], attempt'[r] = attempt[r]
  PROVE  Recorded(r)'
  <1>1. /\ C(r)' = C(r) /\ E(r)' = E(r) /\ D(r)' = D(r) /\ A(r)' = A(r)
        /\ IsManual(r)' = IsManual(r)
    BY DEF C, E, D, A, IsManual
  <1>2. /\ A(r) \in Accounts /\ D(r) \in Days /\ C(r) \in Connections
        /\ attempt[r] \in Nat /\ E(r) \in Nat
    BY RunTypes DEF TypeOK
  <1>3. IsManual(r) => manual'[A(r)][D(r)].status = "succeeded"
    <2>1. IsManual(r) => manual[A(r)][D(r)].stamp # 0
      BY DEF RunStamps, RowStamp, Recorded
    <2> QED
      BY <1>2, <2>1 DEF Recorded, StampsKept
  <1>4. ASSUME conn'[C(r)].state = "live", conn'[C(r)].epoch = E(r)
        PROVE  shop'[C(r)][D(r)].stamp >= attempt[r]
    <2>1. conn[C(r)].state # "absent" /\ E(r) <= conn[C(r)].epoch
      BY DEF RunsOnRows
    <2>2. /\ conn'[C(r)].epoch >= conn[C(r)].epoch
          /\ conn[C(r)].state = "live"
      BY <1>2, <1>4, <2>1 DEF RowsKept
    <2>3. conn[C(r)].epoch \in Nat
      BY <1>2 DEF TypeOK, DatabaseTypeOK, ConnectionRow
    <2>4. Current(C(r), E(r))
      BY <1>2, <1>4, <2>1, <2>2, <2>3 DEF Current, Live
    <2>5. shop[C(r)][D(r)].stamp >= attempt[r]
      BY <2>4 DEF Recorded
    <2>6. shop'[C(r)][D(r)].stamp >= shop[C(r)][D(r)].stamp
      BY <1>2, <1>4 DEF ShopKept
    <2>7. shop[C(r)][D(r)].stamp \in Nat /\ shop'[C(r)][D(r)].stamp \in Nat
      <3>1. shop[C(r)][D(r)] \in ShopRow /\ shop'[C(r)][D(r)] \in ShopRow
        BY <1>2 DEF TypeOK, DatabaseTypeOK
      <3> QED
        BY <3>1 DEF ShopRow
    <2> QED
      BY <1>2, <2>5, <2>6, <2>7
  <1> QED
    BY <1>1, <1>3, <1>4 DEF Recorded, Current, Live

\* ReportInv for one run.
ReportOf(r) ==
    /\ report[r] \in Checked => pc[r] \in {"record"} \cup AfterSteps \cup Ended
    /\ pc[r] \in Heard => attempt[r] # 0
    /\ \/ pc[r] \in AfterSteps
       \/ pc[r] = "done" /\ report[r] \in Checked
       => Recorded(r)

LEMMA ReportRuns == ReportInv <=> \A r \in Runs : ReportOf(r)
  BY DEF ReportInv, ReportOf

\* Which steps fix a reason that counts as checked.
LEMMA CheckedReasons ==
  ASSUME DashboardTypeOK, NEW r \in Runs, report' = Reported(r)
  PROVE  /\ report'[r] \in Checked =>
               report[r] \in Checked \/ pc[r] \in {"healthy", "enrich", "enrichExtras"}
         /\ pc[r] = "record" /\ pc'[r] = "close" => report'[r] \notin Checked
         /\ \A s \in Runs \ {r} : report'[s] = report[s]
  <1>1. /\ report'[r] = IF Decides(r) THEN ReasonOf(r) ELSE report[r]
        /\ \A s \in Runs \ {r} : report'[s] = report[s]
    BY DEF Reported, DashboardTypeOK
  <1>2. ReasonOf(r) \in Checked =>
           report[r] \in Checked \/ pc[r] \in {"healthy", "enrich", "enrichExtras"}
    BY DEF ReasonOf, Checked, At
  <1>3. pc[r] = "record" => ReasonOf(r) = "storefront"
    BY DEF ReasonOf, At
  <1>4. pc[r] = "record" /\ pc'[r] = "close" => Decides(r)
    BY DEF Decides
  <1>5. "storefront" \notin Checked
    BY DEF Checked
  <1> QED
    BY <1>1, <1>2, <1>3, <1>4, <1>5

\* What the stored rows do on any step.
RowsAdvance == StampsKept /\ ShopKept /\ RowsKept

LEMMA OtherReport ==
  ASSUME TypeOK, TypeOK', RunStamps, RunsOnRows, RowsAdvance, NEW r \in Runs,
         ReportOf(r), LocalKept(r), report'[r] = report[r]
  PROVE  ReportOf(r)'
  <1>1. Recorded(r) /\ pc[r] # "idle" => Recorded(r)'
    BY RecordedKept DEF RowsAdvance, LocalKept
  <1>2. "idle" \notin AfterSteps
    BY DEF AfterSteps
  <1> QED
    BY <1>1, <1>2 DEF ReportOf, LocalKept

LEMMA OwnReport ==
  ASSUME TypeOK, TypeOK', DashboardTypeOK, RunStamps, RunsOnRows, Outcomes,
         StoredShops, RowsAdvance, NEW r \in Runs, ReportOf(r), WorkerStep(r)
  PROVE  ReportOf(r)'
  <1>1. /\ Proceed(r) /\ UNCHANGED job
        /\ pc[r] \notin Ended \cup {"idle"}
    BY RunMoves, RecordPath DEF WorkerStep
  <1>2. /\ report'[r] \in Checked =>
              report[r] \in Checked
              \/ pc[r] \in {"healthy", "enrich", "enrichExtras"}
        /\ pc[r] = "record" /\ pc'[r] = "close" => report'[r] \notin Checked
    BY CheckedReasons DEF WorkerStep
  <1>3. report'[r] \in Checked => pc[r] \in {"healthy", "record"} \cup AfterSteps
    BY <1>1, <1>2 DEF ReportOf, AfterSteps
  <1>4. report'[r] \in Checked => pc'[r] \in {"record"} \cup AfterSteps \cup Ended
    BY <1>1, <1>2, <1>3, RecordPath DEF AfterSteps, Ended
  <1>5. pc'[r] \in Heard => attempt'[r] # 0
    <2>1. pc'[r] \in Heard => attempt[r] # 0 /\ pc[r] \notin {"claim", "mark"}
      BY <1>1, RecordPath DEF ReportOf, Outcomes, Heard
    <2> QED
      BY <1>1, <2>1, ClaimIsFixed
  <1>6. pc[r] \in AfterSteps => Recorded(r)'
    <2>1. pc[r] \in AfterSteps => pc[r] \notin {"claim", "mark"}
      BY DEF AfterSteps
    <2>2. pc[r] \in AfterSteps => UNCHANGED <<claim, attempt>>
      BY <1>1, <2>1, ClaimIsFixed
    <2> QED
      BY <1>1, <2>2, RecordedKept DEF ReportOf, RowsAdvance
  <1>7. Record(r) \/ RecordReplayed(r) => Recorded(r)'
    <2>1. Record(r) \/ RecordReplayed(r) => attempt[r] # 0
      BY DEF Record, RecordReplayed, At, ReportOf, Heard
    <2> QED
      BY <2>1, RecordIsStored
  <1>8. pc'[r] \in AfterSteps => Recorded(r)'
    BY <1>1, <1>6, <1>7, RecordPath
  <1>9. pc'[r] = "done" /\ report'[r] \in Checked => Recorded(r)'
    <2>1. pc[r] \in {"healthy", "record"} => pc'[r] # "done"
      BY <1>1, RecordPath
    <2> QED
      BY <1>3, <1>6, <2>1
  <1> QED
    BY <1>4, <1>5, <1>8, <1>9 DEF ReportOf

LEMMA BeginReport ==
  ASSUME TypeOK, TypeOK', DashboardTypeOK, RunStamps, RunsOnRows, RowsAdvance,
         ReportInv, NEW r \in Runs, NEW c \in Connections, NEW t,
         Begin(r, c, t)
  PROVE  ReportInv'
  <1>1. /\ pc[r] = "idle" /\ pc'[r] \in {"done", "acquire"}
        /\ \A s \in Runs \ {r} : pc'[s] = pc[s] /\ job'[s] = job[s]
        /\ UNCHANGED <<claim, attempt, ctl, faults, uncertain>>
    BY DEF Begin, Start, At, Goto, TypeOK
  <1>2. report[r] \notin Checked
    BY <1>1 DEF ReportInv, AfterSteps, Ended
  <1>3. report'[r] \notin Checked /\ \A s \in Runs \ {r} : report'[s] = report[s]
    BY <1>1, <1>2, CheckedReasons DEF Begin
  <1>4. ReportOf(r)'
    BY <1>1, <1>3 DEF ReportOf, Heard, AfterSteps
  <1>5. ASSUME NEW s \in Runs \ {r} PROVE ReportOf(s)'
    <2>1. LocalKept(s)
      BY <1>1 DEF LocalKept
    <2> QED
      BY <1>3, <2>1, ReportRuns, OtherReport
  <1>6. \A s \in Runs : ReportOf(s)'
    BY <1>4, <1>5
  <1> QED
    BY <1>6 DEF ReportInv, ReportOf

LEMMA NextReport ==
  ASSUME TypeOK, DashboardTypeOK, AttemptInv, FenceInv, StoredShops,
         ReportInv, [DashboardNext]_dashVars
  PROVE  ReportInv'
  <1>1. /\ RunStamps /\ StampsRecorded /\ RunsOnRows /\ Outcomes /\ LeaseShape
    BY DEF AttemptInv, FenceInv
  <1>2. [Next]_vars /\ TypeOK'
    BY DashboardStep, NextType
  <1>3. RowsAdvance
    BY <1>1, <1>2, NextStamps, NextShops, NextFence
       DEF RowsAdvance, StampsSafe, ShopSafe, FenceSafe
  <1>4. \A r \in Runs : ReportOf(r)
    BY ReportRuns
  <1>5. ASSUME \A r \in Runs : ReportOf(r)' PROVE ReportInv'
    BY <1>5 DEF ReportInv, ReportOf
  <1>6. ASSUME UNCHANGED <<workerVars, report>> PROVE ReportInv'
    <2>1. \A r \in Runs : LocalKept(r) /\ report'[r] = report[r]
      BY <1>6 DEF workerVars, LocalKept
    <2> QED
      BY <1>1, <1>2, <1>3, <1>4, <1>5, <2>1, OtherReport
  <1>7. ASSUME NEW r \in Runs, WorkerStep(r) PROVE ReportInv'
    <2>1. ReportOf(r)'
      BY <1>1, <1>2, <1>3, <1>4, <1>7, OwnReport
    <2>2. ASSUME NEW s \in Runs \ {r} PROVE ReportOf(s)'
      <3>1. LocalKept(s) /\ report'[s] = report[s]
        BY <1>7, LocalMoves, CheckedReasons DEF WorkerStep
      <3> QED
        BY <1>1, <1>2, <1>3, <1>4, <3>1, OtherReport
    <2> QED
      BY <1>5, <2>1, <2>2
  <1>8. ASSUME NEW r \in Runs, Crash(r), UNCHANGED report PROVE ReportInv'
    <2>1. pc'[r] = "crashed"
      BY <1>8 DEF Crash, Goto, TypeOK
    <2>2. ReportOf(r)'
      BY <2>1 DEF ReportOf, Heard, AfterSteps, Ended
    <2>3. ASSUME NEW s \in Runs \ {r} PROVE ReportOf(s)'
      <3>1. LocalKept(s) /\ report'[s] = report[s]
        BY <1>8, LocalMoves
      <3> QED
        BY <1>1, <1>2, <1>3, <1>4, <3>1, OtherReport
    <2> QED
      BY <1>5, <2>2, <2>3
  <1>9. ASSUME NEW r \in Runs, NEW c \in Connections, NEW t, Begin(r, c, t)
        PROVE  ReportInv'
    BY <1>1, <1>2, <1>3, <1>9, BeginReport
  <1>10. ASSUME NEW r \in Runs, StartManual(r) PROVE ReportInv'
    BY <1>9, <1>10, SelectedAssumption DEF StartManual
  <1> QED
    BY <1>6, <1>7, <1>8, <1>9, <1>10 DEF DashboardNext, dashVars, tabVars, vars

-----------------------------------------------------------------------------
(* What the button says.                                                    *)

\* The run behind a message has ended and is not touched any more.
MessageInv ==
    /\ tab.step = "acting" =>
         tab.run \in Runs /\ pc[tab.run] # "idle" /\ IsManual(tab.run)
    /\ tab.message = "updated" =>
         /\ tab.run \in Runs /\ pc[tab.run] = "done"
         /\ report[tab.run] \in Checked /\ IsManual(tab.run)
    /\ tab.message = "reconnect" =>
         /\ tab.run \in Runs /\ pc[tab.run] = "done"
         /\ ctl[tab.run].result = "DEAD"

\* What a step leaves of a run that the tab waits for, or has heard from.
LEMMA RunsStay ==
  ASSUME TypeOK, DashboardTypeOK, [DashboardNext]_dashVars, NEW r \in Runs
  PROVE  /\ pc[r] # "idle" => pc'[r] # "idle" /\ job'[r] = job[r]
         /\ pc[r] = "done" => /\ pc'[r] = "done" /\ report'[r] = report[r]
                              /\ ctl'[r] = ctl[r]
  <1>1. ASSUME NEW s \in Runs, Proceed(s) \/ Crash(s)
        PROVE  /\ pc[r] # "idle" => pc'[r] # "idle" /\ job'[r] = job[r]
               /\ pc[r] = "done" => r # s /\ pc'[r] = "done" /\ ctl'[r] = ctl[r]
    <2>1. CASE s = r
      BY <1>1, <2>1, NeverIdle, RunMoves, RecordPath DEF Ended
    <2>2. CASE s # r
      BY <1>1, <2>2, LocalMoves DEF LocalKept
    <2> QED
      BY <2>1, <2>2
  <1>2. ASSUME NEW s \in Runs, WorkerStep(s)
        PROVE  r # s => report'[r] = report[r]
    BY <1>2, CheckedReasons DEF WorkerStep
  <1>3. ASSUME NEW s \in Runs, NEW c, NEW t, Begin(s, c, t)
        PROVE  pc[r] # "idle" => /\ pc'[r] = pc[r] /\ job'[r] = job[r]
                                 /\ report'[r] = report[r] /\ ctl'[r] = ctl[r]
    <2>1. /\ pc[s] = "idle" /\ UNCHANGED ctl
          /\ \A x \in Runs \ {s} : pc'[x] = pc[x] /\ job'[x] = job[x]
      BY <1>3 DEF Begin, Start, At, Goto, TypeOK
    <2>2. \A x \in Runs \ {s} : report'[x] = report[x]
      BY <1>3, CheckedReasons DEF Begin
    <2> QED
      BY <2>1, <2>2
  <1>4. ASSUME UNCHANGED <<workerVars, report>>
        PROVE  /\ pc'[r] = pc[r] /\ job'[r] = job[r]
               /\ report'[r] = report[r] /\ ctl'[r] = ctl[r]
    BY <1>4 DEF workerVars
  <1>5. CASE \E s \in Runs : WorkerStep(s)
    BY <1>1, <1>2, <1>5 DEF WorkerStep
  <1>6. CASE \E s \in Runs : Crash(s) /\ UNCHANGED tabVars
    BY <1>1, <1>6 DEF tabVars
  <1>7. CASE \E s \in Runs : StartManual(s)
    BY <1>3, <1>7 DEF StartManual
  <1>8. CASE \E s \in Runs, c \in Connections, t \in Triggers : Begin(s, c, t)
    BY <1>3, <1>8
  <1>9. CASE UNCHANGED <<workerVars, report>>
    BY <1>4, <1>9
  <1> QED
    BY <1>5, <1>6, <1>7, <1>8, <1>9 DEF DashboardNext, dashVars, tabVars, vars

LEMMA MessageStays ==
  ASSUME TypeOK, DashboardTypeOK, [DashboardNext]_dashVars, MessageInv,
         tab'.message \in {tab.message, "none", "notConnected", "failed"},
         \/ tab'.message \notin {"updated", "reconnect"}
         \/ tab'.run = tab.run,
         tab'.step = "acting" => tab.step = "acting" /\ tab'.run = tab.run
  PROVE  MessageInv'
  <1>1. \A r \in Runs :
           /\ pc[r] # "idle" => pc'[r] # "idle" /\ job'[r] = job[r]
           /\ pc[r] = "done" => /\ pc'[r] = "done" /\ report'[r] = report[r]
                                /\ ctl'[r] = ctl[r]
    BY RunsStay
  <1>2. tab.run' = tab'.run
    OBVIOUS
  <1> QED
    BY <1>1, <1>2 DEF MessageInv, IsManual

LEMMA NextMessage ==
  ASSUME TypeOK, DashboardTypeOK, MessageInv, [DashboardNext]_dashVars
  PROVE  MessageInv'
  <1>1. tab \in Tab
    BY DEF DashboardTypeOK
  <1>2. CASE UNCHANGED tab
    BY <1>2, MessageStays
  <1>3. CASE \/ ReadAccounts \/ ReadStoreDay \/ ReadIdentity \/ ReadManual
             \/ Reload
    <2>1. tab'.message = tab.message /\ tab'.run = tab.run /\ tab'.step # "acting"
      BY <1>1, <1>3 DEF ReadAccounts, ReadStoreDay, ReadIdentity, ReadManual,
                        Reload, Tab
    <2> QED
      BY <2>1, MessageStays
  <1>4. CASE CheckOwnership \/ StartNothing
    <2>1. /\ tab'.message \in {tab.message, "notConnected", "failed"}
          /\ tab'.run = tab.run /\ tab'.step # "acting"
      BY <1>1, <1>4 DEF CheckOwnership, StartNothing, Finished, Tab
    <2> QED
      BY <2>1, MessageStays
  <1>5. ASSUME NEW r \in Runs, Press(r) PROVE MessageInv'
    <2>1. tab'.message = "none" /\ tab'.step # "acting"
      BY <1>1, <1>5 DEF Press, Tab
    <2> QED
      BY <2>1, MessageStays
  <1>6. ASSUME Answered, UNCHANGED <<vars, report>> PROVE MessageInv'
    <2> DEFINE r == tab.run
               message == IF pc[r] = "done" THEN MessageOf(r) ELSE "failed"
    <2>1. /\ r \in Runs /\ IsManual(r)
          /\ tab'.step = "accounts" /\ tab'.run = r /\ tab'.message = message
      BY <1>1, <1>6 DEF Answered, Finished, MessageInv, Tab
    <2>2. /\ message = "updated" => pc[r] = "done" /\ report[r] \in Checked
          /\ message = "reconnect" => pc[r] = "done" /\ ctl[r].result = "DEAD"
      BY DEF MessageOf
    <2>3. UNCHANGED <<pc, job, report, ctl>>
      BY <1>6 DEF vars, workerVars
    <2> HIDE DEF message, r
    <2>4. IsManual(r)' <=> IsManual(r)
      <3>1. r' = r
        BY <2>1 DEF r
      <3> QED
        BY <2>3, <3>1 DEF IsManual
    <2> QED
      BY <2>1, <2>2, <2>3, <2>4 DEF MessageInv, IsManual
  <1>7. ASSUME NEW r \in Runs, StartManual(r) PROVE MessageInv'
    <2>1. /\ tab'.step = "acting" /\ tab'.run = r
          /\ tab'.message = tab.message /\ tab.run = r
      BY <1>1, <1>7 DEF StartManual, Tab
    <2>2. /\ pc[r] = "idle" /\ pc'[r] \in {"done", "acquire"}
          /\ job'[r].trigger = "manual"
      BY <1>7 DEF StartManual, Begin, Start, At, Goto, TypeOK
    <2>3. tab.message \notin {"updated", "reconnect"}
      BY <2>1, <2>2 DEF MessageInv
    <2> QED
      BY <2>1, <2>2, <2>3 DEF MessageInv, IsManual
  <1> QED
    BY <1>2, <1>3, <1>4, <1>5, <1>6, <1>7
       DEF DashboardNext, TabStep, dashVars, tabVars, WorkerStep

\* Everything the two messages rest on.
SayInv == RunsOnRows /\ DeadInv /\ ReportInv /\ MessageInv

LEMMA SaysWhatIs ==
  ASSUME TypeOK, DashboardTypeOK, SayInv
  PROVE  MessageIsTrue
  <1> DEFINE r == tab.run
  <1>1. ASSUME tab.message = "updated"
        PROVE  /\ manual[A(r)][D(r)].status = "succeeded"
               /\ Current(C(r), E(r)) => shop[C(r)][D(r)].stamp >= attempt[r]
    <2>1. /\ r \in Runs /\ pc[r] = "done" /\ report[r] \in Checked
          /\ IsManual(r)
      BY <1>1 DEF SayInv, MessageInv
    <2> HIDE DEF r
    <2> QED
      BY <2>1 DEF SayInv, ReportInv, Recorded
  <1>2. ASSUME tab.message = "reconnect", faults[r] = 0, Current(C(r), E(r))
        PROVE  conn[C(r)].auth = "REAUTH_REQUIRED"
    <2>1. /\ r \in Runs /\ pc[r] = "done" /\ ctl[r].result = "DEAD"
      BY <1>2 DEF SayInv, MessageInv
    <2> HIDE DEF r
    <2>2. ~Usable(C(r), E(r))
      BY <1>2, <2>1 DEF SayInv, DeadInv
    <2> QED
      BY <1>2, <2>2 DEF Usable
  <1> QED
    BY <1>1, <1>2 DEF MessageIsTrue, UpdatedIsStored, ReconnectIsNeeded

LEMMA InitSays == DashboardInit => DeadInv /\ ReportInv /\ MessageInv
  <1> SUFFICES ASSUME DashboardInit PROVE DeadInv /\ ReportInv /\ MessageInv
    OBVIOUS
  <1>1. \A r \in Runs : /\ pc[r] = "idle" /\ report[r] = "none"
                        /\ ctl[r].result = "TRANSIENT"
    BY DEF DashboardInit, Init, NewControl
  <1>2. tab.step = "accounts" /\ tab.message = "none"
    BY DEF DashboardInit
  <1> QED
    BY <1>1, <1>2 DEF DeadInv, ReportInv, MessageInv, Checked, Heard,
                      AfterSteps

\* "Updated just now" is only said of a storefront that is stored and of an
\* allowance that reads succeeded; a reconnect is only asked for a session that
\* is marked dead.
THEOREM MessagesAreTrue == DashboardSpec => []MessageIsTrue
  <1>1. DashboardSpec => [](TypeOK /\ AttemptInv /\ FenceInv /\ StoredShops)
    BY WorkerUnderDashboard, AttemptInvariant, FenceInvariant,
       StoredShopsInvariant, PTL
  <1>2. FenceInv => RunsOnRows
    BY DEF FenceInv
  <1>3. /\ TypeOK /\ DashboardTypeOK /\ AttemptInv /\ FenceInv /\ StoredShops
        /\ DeadInv /\ ReportInv /\ MessageInv /\ [DashboardNext]_dashVars
        => (DeadInv /\ ReportInv /\ MessageInv)'
    BY <1>2, NextDead, NextReport, NextMessage, DashboardStep
  <1>4. /\ TypeOK /\ DashboardTypeOK /\ FenceInv
        /\ DeadInv /\ ReportInv /\ MessageInv
        => MessageIsTrue
    BY <1>2, SaysWhatIs DEF SayInv
  <1> QED
    BY <1>1, <1>3, <1>4, InitSays, DashboardTypeCorrect, PTL DEF DashboardSpec
=============================================================================
