# VAL Checker: TLA+ models of the storefront refresh, the ways to connect, and the mail

VAL Checker stores a Riot session for each account a user connects and asks
Riot for that account's daily storefront. Riot tolerates few such requests, so
the program allows one automatic request per connection and UTC store day and
one manual request per Riot account (PUUID) and store day, never two at a time
for one session, and gives the allowance up rather than ask twice when it does
not know what became of a request. All of it has to hold between cron, manual
and operator triggers that run as independent serverless calls over one
Postgres database, with timeouts, crashes, lost responses, reconnects and
disconnects in between. Around that core there are four ways to connect an
account (a temporary browser in the cloud, a username with an MFA code, a
browser extension, a desktop app), each a race of its own; an email per watched
skin that must not be sent twice; a dashboard that reads all of it in separate
queries; and a catalog that is filled while checks and pages use it. This
directory models them, checks them with TLC and proves their main promises with
TLAPS.

Contents: 1 the system, 2 plan, 3 modules and how they correspond to the code,
4 what the runs check, 5 bounds, 6 fairness, 7 what is proved, 8 disagreements
between the code and its documents, 9 what is left out.

## 1. The system

### Components

| Component | State it keeps | Operations | What makes it correct | Model |
|---|---|---|---|---|
| Storefront worker (`src/lib/worker/storefront-worker.ts`) | locals of `runAccount`: lease, claim, `checkedAt`, jar, `rotationLeaseHeld`, `attemptStarted`, `healthy` | lease, claim, load, renew, reauthenticate, persist, prepare, mark, fetch, then the success or the failure path and `finally` | one request per allowance; one at a time; no lease left behind; a success is stored | `StorefrontWorker` |
| Repository and refresh tables (`storefront-repository.ts`, migrations `20260817065234`, `20260821101544`) | `riot_connections` with the rotation lease, `riot_daily_runs`, `riot_manual_refreshes`, `shop_checks` | claim/renew/release lease, claim/mark daily and manual, fail, close, record, enrich | an attempted lease is fenced; a spent allowance stays spent; a newer storefront is never replaced by an older one | `StorefrontDatabase` |
| Session store (`riot/session-store.ts`) | the encrypted jar, `connection_epoch` | `persistRotated`, `save`, `load`, delete | an old worker never touches a reconnected session; the jar never goes backwards | `StorefrontDatabase`, `CredentialConnect` |
| Session lifecycle (`riot/session-lifecycle.ts`) | `auth_status`, `consecutive_failures` | `decideSessionLifecycle`, `applyLifecycle` | a dead session stays dead until a reconnect, is announced once, and the third failure in a row ends it | `StorefrontDatabase` |
| Triggers (`app/api/cron`, `worker/on-demand-check.ts`) | none | start a run | none but the worker's | `Start` in `StorefrontWorker` |
| Riot client (`riot/client.ts`) | access token, entitlements, PUUID of one run | `refreshSession`, `prepareStorefront`, `getStore` | at most one storefront request per call, outcome classified as completed or ambiguous | its outcomes, in `StorefrontWorker` |
| Dashboard status (`storefront/dashboard-status.ts`, `dashboard/` refresh button) | what a tab has read and shows | the page's queries, `manualAvailability`, press, answer, reload | what is offered is what the database would grant; what is reported happened | `DashboardStatus` |
| Dashboard actions (`app/dashboard/riot-actions.ts`) | none | connect, reconnect, MFA, disconnect, mint a token | a disconnect mints no allowance | `Connect`, `Reconnect`, `Disconnect`; `CredentialConnect` |
| Storefront email (`notifications/resend-delivery.ts`, the worker's plan) | `notifications` | plan, reserve, send, mark accepted | at most one email per user, skin and shop check; none planned is forgotten | `NotificationDelivery` over `SingleDelivery` |
| Owner notification (`notifications/account-created.ts`) | an outbox row per account | claim, send, mark, around the sign-in callback | one notification, and no sign-in fails for it | `OwnerNotice` over `SingleDelivery` |
| Connection service (`riot/connection-service.ts`) and pending MFA (`pending-auth-store.ts`) | one `riot_pending_auth` row per user | credential connect, code, pasted jar; save, load, clear, purge | what was chosen on the first screen is what the code step saves; a connection never changes its Riot account | `CredentialConnect` |
| Capture tokens (`desktop/capture-token.ts`), browser extension (`browser-extension/`) | `desktop_capture_tokens`; a job table in `storage.session` | mint, consume; start, callback, tab removed, alarm | a token saves one session; jobs end; the panel says connected only of its own request | `ExtensionConnect` |
| Desktop capture app (`desktop/`) | one capture promise per window, one shared partition | launch, redirect events, close, timeout, clear, post | one outcome per capture; a posted jar held a session | `DesktopCapture` |
| Cloud connect (`riot/cloud-connect-controller.ts`, `cloud-connection-store.ts`) | `riot_cloud_connection_sessions` | create, status, capture, cancel, expire | one consumption, which is final; every session settles; the browser is gone when the row says so | `CloudConnect` |
| Cloud browser (`cloud-browser/`) | browser sessions in memory | create, status, capture, destroy, expire | no session outlives its deadline | `CloudConnect`, without streaming and input |
| Storefront algorithms (`storefront/`) | `shop_checks` payloads | snapshot, hash, canonicalise, match, price | one rotation has one hash; enrichment changes nothing but skins | `StorefrontSnapshot`, `StorefrontCatalog` |
| Catalog (`catalog/`) | skins, levels, tiers, weapons, chromas | sync, resolve, read | a partly filled catalog never fails a page, what is resolved is shown | `StorefrontCatalog` |
| Watchlist (`watchlist/`, `skin-card.tsx`) | `watchlist` rows, optimistic cards | toggle, roll back, paged loads | a card at rest shows its row; a load misses nothing | `Watchlist` |
| Cookie jar, login and session providers, TLS fetch, encryption, UI, scripts | — | — | — | not modelled, section 9 |

### How they interact

A trigger calls `run()`, which lists connections and then calls `runAccount`
for each. `runAccount` talks to Postgres only through single calls: a
service-role function that locks its rows and runs in one transaction, or a
single guarded `UPDATE`. Nothing else is shared: no lock is held between two
calls, so between any two of them other runs, midnight, a connect flow or a
crash of the process may intervene. What holds the calls of one run together
are tokens: the connection's epoch (replaced by every reconnect), the rotation
lease token (the shared lease on the session), the claim token of a manual row,
and the attempt stamp `storefront_attempted_at`, which the mark writes into the
allowance's row and into the lease in one transaction. An unattempted lease is
recoverable after five minutes; an attempted one is *fenced*, and only the
run's own close or record, the next store day, a reconnect or a disconnect
removes it.

Once a storefront is stored the lease is gone, and delivery begins: from here
on overlapping runs are kept apart by the reservations in `notifications` alone.
The dashboard takes no part in any of this; it reads the same rows in four
queries and shows what was true when each was read. The ways to connect end in
one `save` of the connection row; before it, each has a state of its own that
several requests, listeners or windows race on: the control row and the browser
of the cloud login, the pending challenge, the capture token and the extension's
job table, the shared Electron partition.

### What is hard

The full list, with the line where each one bites and the properties that
would catch it, is `hazards` in `PROJECT.json`. The ones the models are built
around: a slow worker whose lease was taken over while it still talks to Riot;
a crash or lost response on either side of the mark; a record that committed
without an answer and is replayed after a newer trigger; midnight between
claim, mark and record; a reconnect or disconnect under a running worker; two
workers that both rotated the session or both found it dead; state read in a
snapshot and written back much later (`consecutive_failures`, the `shop_checks`
id, the extension's job table, a cloud poll's answer); an email reserved and
then lost to a crash, or accepted and not recorded; a challenge replaced while
its code is typed; a token spent before the session it is for is saved; a
capture settled by two events at once; a page whose four queries straddle a
run; a catalog half filled when a check asks it.

## 2. Plan

Done, in this order:

1. `StorefrontDatabase`, the rows and their operations; `StorefrontWorker`,
   `runAccount` over them; `StorefrontAllowance`, what the refresh promises about
   Riot in four lines of state machine, and the refinement from the worker to it;
   `StorefrontProofs` on what a run may ask of Riot, what it leaves behind, and
   what the dashboard makes of it.
2. `CloudConnect`: `create`, `status` with its capture, and `cancel` as
   overlapping requests, with expiry, the browser service's own sweep and faults.
3. `NotificationDelivery` and `OwnerNotice`, which both implement the abstract
   `SingleDelivery`; `NotificationDeliveryProofs`.
4. `CredentialConnect`, `ExtensionConnect`, `DesktopCapture`: the other ways to
   connect; `CredentialConnectProofs`, `ExtensionConnectProofs`.
5. `DashboardStatus`, which extends `StorefrontWorker`: the composition of the
   tab with the worker and its tables.
6. `StorefrontSnapshot` (pure), `StorefrontCatalog` and `Watchlist` over it;
   `CatalogProofs`, `WatchlistProofs`.
7. `MCFlows` and `MCCatalog`, which run the independent components together;
   `FlowsProofs` and `CatalogFlowsProofs`, which carry the components' theorems
   over to them. `FlowsProofs` also holds the theorems about `CloudConnect`,
   `DesktopCapture` and `OwnerNotice`, of which `MCFlows` has one instance each.

Every invariant that a run checks now has a theorem. What a next step would be:
the refinement of `Watchlist` into a set of rows per account, and the bundle and
night market as records of a second write.

## 3. Modules and the code

### StorefrontDatabase

One variable per table, one operator per function or statement:

| TLA+ | Code |
|---|---|
| `conn` | `riot_connections`: existence, `connection_epoch`, `auth_status`, `consecutive_failures`, `puuid`, the jar |
| `lease` | its `rotation_lease_*` columns: token, claimed at, store day, attempted at |
| `daily`, `manual`, `shop` | `riot_daily_runs`, `riot_manual_refreshes`, `shop_checks`, each by its unique key |
| `ClaimRotation`, `RenewRotation`, `ReleaseRotation` | `claim_`, `renew_`, `release_riot_session_rotation` |
| `ClaimDaily`, `MarkDaily` | `claim_riot_daily_run` (as replaced by `20260821101544`), `mark_riot_storefront_attempt` |
| `ClaimManual`, `MarkManual`, `FailManualRetryable`, `FailManualFinal` | `claim_`, `mark_`, `fail_riot_manual_refresh` |
| `CloseDaily`, `CloseManual` | `close_riot_storefront_attempt` |
| `RecordDaily`, `RecordManual`, `ReplayableShop`, `EnrichShop` | `record_storefront_refresh`: first write, replay, enrichment |
| `WriteExtras`, `PersistRotated`, `ApplyLifecycle`, `PersistPuuid` | the single statements of the repository and the session store |
| `Connect`, `Reconnect`, `Disconnect` | `save` without and with an id, `disconnectRiotSession` |
| `Tick`, `Midnight` | the passing of five minutes, and of a UTC day |

Each function takes its row locks before it decides anything, so it is one
atomic step; the guard operator (`RotationClaimable`, `DailyMarkable`, ...)
collects its conditions, and its negation is the refusal the worker sees.

Abstractions:

- A token that a fresh `gen_random_uuid()` supplies is the run that asked for
  it, since one `runAccount` call asks for each at most once. Epochs count up
  from 1 instead of being random: the code only compares them for equality.
- `storefront_attempted_at` is a counter (`lastMark`). Two marks are never
  given one stamp; in the code they could share a millisecond only on different
  rows, because a second mark of one session needs a close and a claim between.
- The clock: `now` moves in steps of more than five minutes, so "older than
  five minutes" is `at < now`, and a run is fast as long as no `Tick`
  intervenes. `Midnight` moves the store day on its own, so that a day may
  change within or after any number of ticks.
- A jar is the number of the issue at Riot. A storefront in `shop_checks` is
  the stamp of the attempt it came from, with the attempts that enriched it and
  that wrote its bundle and night market.
- `auth_status` keeps `CONNECTED` and `REAUTH_REQUIRED`, and `TRANSIENT` stands
  for `RIOT_UNAVAILABLE`, `RATE_LIMITED` and `NETWORK_BLOCKED`, between which
  no guard distinguishes.
- `conn[c].account` (whose jar the row holds), `conn[c].streak` (failing checks
  in a row) and `peak` (most accounts held at once today) are not columns. They
  appear in no guard of the code's steps and exist for the properties and for
  the PUUID that Riot answers with.

### StorefrontWorker

A run `r` is one iteration of the loop in `run()`: the row as `listConnections`
read it (`job`), then one awaited call per action, `pc[r]` naming the call about
to be made. `claim`, `attempt`, `hand` and `ctl` are its local variables. A run
that comes earlier in the same loop is just another run that had ended. Every
call has up to four outcomes, each an action or a disjunct:

- it takes effect and is answered (`Reply`, first disjunct);
- it is refused (`...Refused`, `...Stale`, `...Missing`), when its guard fails;
- it takes effect and the response is lost (`Reply`, second disjunct);
- it fails without effect (`CallFails`, `RecordCallFails`).

`OnError` says where a throw of each call leads, which is the shape of the
nested `try` blocks; `Finally` is the release in `finally`, `Finalize` the
choice of `failRefresh` variant, `OnRecordError` the single replay in
`persistStorefrontRefresh`. `Crash` ends a run between any two calls. Riot's
answers are nondeterministic: `Refresh`/`RefreshFails` (dead or transient),
`Prepare`, `StoreReceived`/`StoreRejected`/`StoreAmbiguous`. `sent` records the
requests that left, `uncertain` those whose fetch was aborted, `noticed` the
expiry emails. Delivery of storefront emails is a module of its own
(`NotificationDelivery`); the only row of these tables it could write is a
`shop_checks` row that the preceding record has already inserted (`on conflict
do nothing`).

### StorefrontAllowance

Three variables: `spent` allowances, `granted` pairs of requester and
allowance, `sent` pairs. An allowance is spent once, granting the right to one
request or, when the spender never learns of it, to none; only a granted
request is sent. `Abstract` in `StorefrontWorker` is the refinement mapping: an
allowance is spent when its row has a stamp, granted to the run that holds the
stamp as its `checkedAt`.

### CloudConnect

| TLA+ | Code |
|---|---|
| `row` | the `riot_cloud_connection_sessions` row: `state`, whether `provider_session_id` is set, how often `consumed_at` was written, whether `destroyed_at` is set |
| `browser`, `launch` | the service's `Session` and its entry in `sessions`; a `createBrowserSession` under way |
| `expired` | `expires_at` has passed, for the row and for the browser, which is given the same time |
| `pc`, `seen` | where each request stands; the browser state a status request was answered with |
| `UpdateOwned` | `updateOwned`: the guard, the check constraint of the migration, and the four ways a call ends |
| `Insert` to `Abandon` | `create()` and its catch block |
| `Status` to `Write` | `status()` up to the point where it calls `capture()` |
| `Claim` to `Mark` | `capture()`: try, catch and finally |
| `StartCancel` to `Cancel` | `cancel()` |
| `BrowserUp` to `ServiceRestart` | the service: launch, input, `observe`, the `disconnected` event, the disconnect timer, the sweep, a restart |

A request is one or more awaited calls, and everything else may happen between
two of them. The page polls from a `setInterval` that does not wait for the
previous answer, so several requests are under way together; a slot of
`Requests` that has answered serves the next one. A request learns the
session's id from the answer of `create()`, so none comes before it. A request
that only reads and answers changes nothing and is not a step. `Observe`
answers from the `Session` object that `Poll` found, which may have left the map
meanwhile. `Cookies` includes the provider's check of the jar, `Connect` the
identity resolution and the save: each may refuse at no cost. A fault is a
write lost before or after it took effect, a failed call of the browser
service, a timeout of `createSession`, a crash of a request or of Chromium, a
restart of the service.

### SingleDelivery, NotificationDelivery, OwnerNotice

`SingleDelivery` is the promise of a reservation: a key is claimed once, a
claimed key is mailed at most once, and only a mailed key is recorded; a key may
go away with its account. `NotificationDelivery` and `OwnerNotice` implement it.

| TLA+ | Code |
|---|---|
| `rows`, `alive`, `watched` | `notifications` by shop check and skin; the checks whose connection still exists (rows go with it, `on delete cascade`); the watchlist |
| `LoadSent`, `Plan`, `Names`, `Enrich`, `Recipient` | the delivery phase of `runAccount` between the record and `deliver()`, one awaited call each |
| `Reserve`, `Claimable` | `reserve_storefront_notification`: the insert, or the claim of a row that was reserved and never attempted |
| `Send`, `MarkAccepted` | the provider's call and `markNotificationAccepted` |
| `CallFails`, `ReserveUnanswered`, `SendUnanswered`, `MarkUnanswered`, `Crash` | the throw out of the loop, an answer lost after its effect, the end of the process |
| `report`, `emailsSent` | `notificationStatus`, its reason, and the count of the run log |
| `OwnerNotice`: `Exchange`, `Claim`, `Send`, `Mark`, `Swallowed` | `GET /auth/confirm`, `claim_account_creation_notification`, the email, its mark, and the route's catch |

Runs of `NotificationDelivery` stand for the tail of a worker's run: any number
of them may deliver for one check at once, since the lease is released before.
The user may toggle skins and disconnect at any time.

### CredentialConnect

Requests of one user: `Logins` (username and password), `Codes` (the MFA code)
and `Jars` (a pasted export), each a chain of awaited calls, all of which may
overlap. `pending` is the user's row of `riot_pending_auth`: `Purge` and `Store`
replace it, `Load` reads it with its expiry, `Clear` deletes it by user id, as
the code does. `Resolve` is `resolveIdentity()`, which may answer without an
identity. `Save` is `save()` of the session store: its guard on the bound PUUID
(`SameAccount`), the uniqueness of a PUUID (`Unique`) and the row it writes
(`Saved`). `Fetch` is the storefront request that follows and whose failure is
swallowed. A challenge remembers, as a history, the request its chain began
with; `wrote` is where each request saved.

### ExtensionConnect

| TLA+ | Code |
|---|---|
| `token`, `saved` | `desktop_capture_tokens`; sessions saved with each |
| `panel`, `Click`, `Hears`, `PanelTimeout` | `connectViaExtension()` and `onExtensionMessage()` of the panel, and its timer |
| `MintDelete`, `MintInsert`, `Claimable` | `mintCaptureToken()`, two calls; `consumeCaptureToken()`, one conditional update |
| `jobs`, `alarm`, `tab`, `busy` | the job table, the alarms, Riot's tab, `processingTabs` |
| `Create` to `Navigate` | `startConnect()` |
| `Observe`, `Capture`, `Submit`, `Save` | the callback listener and `POST /api/desktop/connect`, which spends the token before it saves |
| `Removed`, `Fire` | `onRemoved`, `onAlarm` |
| `Drop`, `Disarm`, `Notify`, `CloseTab` | `finishJob()`, called by whichever listener ends a job: the table is written, then the alarm is cleared |
| `StorageFails`, `FireFails` | a call to the browser's storage or alarms that throws: the listener ends there, and a start reports the failure to the page |
| `Restart` | the browser stops the extension's worker: storage, alarms and tabs survive, listeners and `processingTabs` do not |

`snap` is the job table a listener has read and will write back whole.

### DesktopCapture

A capture's `row` is its promise and window: the two redirect events with their
pending cookie reads, the close, the timeout, `Finish` (first come, first
settled), `Clear` of the shared partition `signedIn`, and what the origin does
with the result: `Post` to the token's endpoint or an answer over the loopback
or IPC; `Shutdown` where the launch ends the program. `mode` is how the program
was started, `Starts` which captures that admits.

### DashboardStatus

Extends `StorefrontWorker`: `tab` has read the account list, the store day, the
connection and the manual row one after the other (`ReadAccounts` to
`ReadManual`), shows `Availability` of what it read, and may press. The press is
a real manual run: `CheckOwnership`, `StartManual` (the worker's `Start`),
`Answered` and `MessageOf` translate `refreshRiotStorefront` and the button.
`report` is the reason `runAccount` ends with, `lastLog` the newest automatic
row of `riot_run_logs`, from which the attention panel speaks; `lastCheck` is a
history.

### StorefrontSnapshot, StorefrontCatalog, Watchlist

`StorefrontSnapshot` has no state: what a payload becomes in `canonicalize.ts`,
`schema.ts`, `match.ts` and `pipeline.ts`, as operators over sequences of
offers. Identifiers and currencies are numbers so that they can be sorted; a
SHA-256 hash of a value is that value; of a skin only its id is kept.
`Array.prototype.sort` is stable: `Sorted` puts each element in the `Place` that
the number of elements ahead of it gives, where of two elements that compare
alike the earlier is ahead. The ids of a shop's skins, which the code keeps
sorted and no reader takes in order, are a set.

`StorefrontCatalog` follows that data: `Mark`, `Answer`, `RecordRaw`,
`RecordExtras`, `Enrich` for a check; `SyncFetch`, `SyncTable`, `SyncWrite` for
the catalog sync, table by table in `WriteOrder` and batch by batch; `ReadChecks`
to `ReadMetadata` for a dashboard page. The time of a check is stamped at the
mark, Riot's countdowns are read at the answer. Riot lists offers, costs and
rewards in any order (`Arrangements`). `Release` is a patch of the game, `Since`
says what came with it.

`Watchlist` has the cards of `skin-card.tsx` with their optimistic state, the
action that writes the row and re-renders the page (`WriteRow`, `Answer`,
`Fresh`), and the paged loads of the worker and the inventory (`LoadPage`,
`LastPage`). A tab's actions are sent one after another, as the framework does.
When the page is left (`ClosePage`), the actions that were not written yet are
dropped or stay in `left`, to be written later with nobody to hear the answer
(`WriteLeft`). The inventory sorts by `created_at` alone, the worker also by id:
the model orders rows totally, as rows inserted one at a time have distinct
times.

### The MC modules

`MCStorefrontWorker`, `MCDashboardStatus`, `MCCloudConnect`,
`MCCredentialConnect` and `MCExtensionConnect` give a component its model
values, symmetry and budgets. `MCFlows` and `MCCatalog` hold several components
that never interact: a behaviour belongs to one of them, its `flow`, and the
others stay idle, so that their states add up and do not multiply. A component
is instantiated as often as it needs constants (`Request` and `Retry` of
`ExtensionConnect`, `OneShop` and `TwoShops` of `NotificationDelivery`, ...),
and a property of `MCFlows` or `MCCatalog` is the component's own property, in
its flow.

Definitions marked `Mutant` in the component modules are defective variants of
the definition that follows them. They are not part of the specification; each
property of a passing run is violated when one of them takes its place
(`mutants` in `PROJECT.json`).

## 4. What the runs check

| Run | Instance | Properties | What it shows |
|---|---|---|---|
| `faults` | 2 runs, 1 row, one tick, a disconnect; a fault in each run, or one fault and a midnight or a reconnect | `TypeOK`, `OneRequestPerAllowance`, `NoConcurrentRequests`, `SuccessIsDurable`, `NoLeaseLeak`, `FenceClearing`, `AllowanceStaysSpent`, `ShopNeverRegresses`, `ImplementsAllowance` | the promises survive every interleaving of two triggers with a takeover, a day change or a reconnect, a disconnect, and crashes, failed calls or lost responses; the worker does nothing to allowances that the abstract allowance does not do |
| `reconnect` | 2 runs, no faults, the first failure is terminal; a tick, a midnight and a reconnect of one row, or two rows of one user for one Riot account | `OneExpiryNotice`, `DailyCapacity`, `ReplacementUntouched`, `JarNeverRegresses` | a worker of the old epoch leaves the replacement alone; jars move forward; the expiry is announced once per session; disconnecting and connecting again mints no automatic check |
| `dashboard` | the tab over 2 runs with one of a tick, a midnight, a reconnect, a fault | `AvailableIsClaimable`, `SpentIsSpent`, `MessageIsTrue` | the read model and the database's claims agree in every reachable state, and neither the page nor the button's message says what is not so |
| `refresh_settles` | the tab over 2 runs, one fault, weak fairness | `PressIsAnswered`, `LeaseLetGo` | a press is always answered and the page read anew; no path through `runAccount` skips the release |
| `flows_races` | eight flows, see section 5 | `FlowTypeOK`, `ConsumedOnce`, `ConsumedIsFinal`, `CaptureAttended`, `DestroyedIsTrue`, `BrowserReleased`, `SignInIsTruthful`, `IdentityImmutable`, `ExtensionIsHonest`, `CaptureIsHonest`, `AtMostOneMail`, `DeliveryCovers` | the races of each way to connect and of each email, with the crashes, lost answers and refusals each can meet |
| `flows_settle` | five flows, one fault, weak fairness | `BrowserEnds`, `SettlesUnlessFaulted`, `CapturesEnd`, `MailsSettle`, `MailIsSingleDelivery`, `NoticeIsSingleDelivery` | everything that is begun ends; both deliveries implement `SingleDelivery` |
| `catalog` | six flows | `StoredShopIsRiots`, `PagesShowTheCatalog`, `CardIsTruth`, `LoadsAreExact` | the data stays Riot's on its way to the page, over syncs, patches, retries and any order of answers; cards and loads are right while the list changes |
| `retry`, `third`, `cloud_spinner`, `credential_account`, `extension_jobs` | small | one each | the disagreements of section 8 |

What the properties say:

- `OneRequestPerAllowance`: of two requests ever sent, no two used the same
  (connection, day) automatically or the same (PUUID, day) manually.
- `NoConcurrentRequests`: no two requests of one connection, epoch and day are
  in flight together, where an aborted fetch counts as in flight for good.
- `FenceClearing`: an attempted lease goes only by its own run's `close` or
  `record`, a later day, a reconnect or a disconnect.
- `AllowanceStaysSpent`: no step clears or changes a stamp, or undoes a manual
  success.
- `ShopNeverRegresses`: `shop_checks` moves to later attempts only, through
  first writes, replays and enrichment.
- `SuccessIsDurable`: a manual row reads `succeeded` only if its storefront, or
  a later one of the day, is stored.
- `NoLeaseLeak`: a run that ended without a fault holds no lease, except the
  fenced one of an ambiguous request.
- `ReplacementUntouched`, `JarNeverRegresses`, `OneExpiryNotice`: a reconnected
  session is safe from its predecessor's workers; of two workers on one session
  the older jar never wins and one email is sent.
- `DailyCapacity`: automatic runs of a user's day never outnumber the accounts
  held at once that day.
- `ImplementsAllowance`: the worker refines `StorefrontAllowance`.
- `ConsumedOnce`, `ConsumedIsFinal`: `consumed_at` is written at most once, and
  the row stays connected from then on, although most writes of the controller
  ask for no state. Two things make it so: the last write of `capture()` asks
  for `validating_session`, and the check constraint refuses any other state
  for a consumed row.
- `CaptureAttended`: without faults a row in `capturing_session` or
  `validating_session` has a request that will settle it.
- `DestroyedIsTrue`, `BrowserReleased`: without faults `destroyed_at` is true,
  and expiry, cancellation, success and failure all leave no browser behind.
- `BrowserEnds`: whatever fails, the sweep ends every browser.
- `SettlesUnlessFaulted`: a polled session reaches a terminal state and no stale
  write takes it out of it for good.
- `AvailableIsClaimable`: the dashboard offers the manual refresh exactly when
  the two claims behind the button would be granted.
- `SpentIsSpent`: a page that calls the day's refresh succeeded or exhausted is
  right for the rest of the day, however its reads interleaved with runs.
- `MessageIsTrue`: "updated" only after that run's storefront, or a later one,
  is stored; "reconnect" only for a session that is dead.
- `PressIsAnswered`: a pressed button leaves its pending state.
- `SignInIsTruthful`: a session is saved where the first screen of its chain
  aimed it, and "connected" is answered exactly when it was saved.
- `IdentityImmutable`: a connection never changes the Riot account it is bound
  to, whichever requests race.
- `ExtensionIsHonest`: a token saves one session, a job left in storage has
  somebody to end it, requests of one panel leave one live token, and the panel
  says connected of its own request only. The second holds of one request and the
  third of one panel: with two, `TransientStateRemoved` and `OneLiveToken` fail
  (section 8).
- `CaptureIsHonest`: a desktop capture settles once and posts only a jar read
  from a partition with a session.
- `AtMostOneMail`, `DeliveryCovers`: a skin of a shop is mailed once at most;
  without faults a reserved email is in somebody's hands, and a run that reports
  success left nothing of its plan unclaimed.
- `MailIsSingleDelivery`, `NoticeIsSingleDelivery`: the refinements.
- `CapturesEnd`, `MailsSettle`: the panel and a desktop capture come to an end
  by themselves; a planned email is mailed, gone with its account or lost to a
  fault, and so is the owner's notice.
- `StoredShopIsRiots`: one rotation has one hash whatever order Riot answers in;
  a stored row, enriched or not, describes the shop it was hashed from; no
  stored expiry is later than the end Riot counts down to.
- `PagesShowTheCatalog`: a sync fails only on a request or on a patch between
  its two requests; gaps never fail a page; what the catalog resolved is shown;
  a closed night market is not.
- `CardIsTruth`: a card at rest shows its row, unless nothing told it of a
  change (another tab, a page that was left, a lost answer, a card mounted while
  its action was under way).
- `LoadsAreExact`: a paged load misses at most as many of the skins watched when
  it began as rows were removed while it ran, and an email is planned only for a
  skin watched on that very account. Reading by offset cannot promise more: a
  removal before the offset moves the next row, which stays watched, past it.

## 5. Bounds

`Runs` bounds the calls of `runAccount`, `MaxTick` the five-minute steps,
`MaxDay` the midnights, `MaxEpoch` the connects and reconnects of one row,
`MaxFaults` the faults of one run. Two runs are what the properties speak
about: each relates two requests, two leases or a run and a row, and a third
run enters only as "someone who changed the row meanwhile", which the proofs
cover for any number. One tick makes the first run's lease and claims stale for
the second, the only comparison with the clock there is; one midnight separates
two store days, the only comparison of days; one reconnect gives an old and a
new epoch. One fault per run puts a crash or a lost response at any point of
each, including both sides of the mark. The threshold of three consecutive
failures is reached by `third` with three runs; `reconnect` lowers it to one so
that the terminal transition meets the reconnect.

Budgets keep the disturbances from multiplying: `FaultsAndTime` (`faults`)
allows one of a midnight, a reconnect and a fault in the second run, beside the
tick, the disconnect and the first run's fault; `TimeOrAccounts` (`reconnect`)
connects a second account only while the clock stands still; `OneDisturbance`
(`dashboard`) allows one of a tick, a midnight, a reconnect and a run with a
fault, under the tab's own steps; `FairPress` (`refresh_settles`) one run with a
fault, the clock standing still. It takes faults away only, never the plain
answer of a call, so the fair steps stay possible, and gives the button's press
to one of the two runs. The theorems need none of these budgets.

`Requests` bounds the cloud requests that overlap, `MaxFaults` there counts all
faults of a behaviour. Three requests are what a second claim takes: one whose
answer is stale, one that captures and one that captures again. The history
variables `claims`, `mails`, `saved`, `settles` and the count in `row.consumed`
stop at two, which is where "once" is refuted.

The flows of `MCFlows`:

| Flow | Instance |
|---|---|
| `cloud` | `CloudConnect` with 3 requests and 2 faults; 2 and 1 in `flows_settle` |
| `challenge`, `twoLogins` | a login, two codes and a pasted jar with one fault; two logins and a code without: a chain of challenges, and a challenge replaced by another chain. Two Riot accounts, a reconnect of `Main` or a new row |
| `request`, `retry` | one request of one panel with 2 faults; two in turn without faults, where no token expires and at most three listeners are at work at once (`FewListeners`) |
| `desktop` | two captures, started in any mode, one partition that could not be cleared |
| `owner` | three callbacks of one user, 2 faults |
| `oneShop`, `twoShops` | two runs over one check with two skins, over two checks with one skin |

The flows of `MCCatalog`: `shops` (checks and retries over two days of two
ticks, twin offers that share an id, every form of the night market, one
fault), `patches` (two syncs, one patch, one page load, rows written one at a
time), `pages` (a page opened late over an empty catalog), `cards` (two tabs
with two cards, three toggles, one fault), `loads` and `accounts` (paged loads
with pages of one row while rows are toggled). In `loads` the worker and the
inventory do not load at once (`OneLoads`): neither writes anything the other
reads.

In all runs an instance too small for its property would show as a mutant that
survives.

`CHECK_DEADLOCK FALSE` is set everywhere: with finitely many runs, requests,
ticks and days, or once a session is settled, the system really comes to rest,
and whether something can get stuck is what the liveness properties, `NoLeaseLeak`
and `CaptureAttended` ask. Symmetry is used in safety configurations only, where
no definition tells the symmetric values apart; in `MCFlows` the members of each
pair of values are swapped in two groups, a subgroup of the full symmetry. The
runs with liveness properties use no symmetry.

## 6. Fairness

`Proceed(r)`, the next step of a run, is fair: a process that has not crashed
takes its next step, and an awaited call returns or fails. The code justifies it
by `AbortSignal.timeout` (15 seconds) on the requests to Riot. A database call
has no timeout of its own: one that never returns ends with the serverless
instance at its time limit (`maxDuration` of the cron route), which is the
`Crash` action. Crashes have no fairness, like the triggers, the clock and the
users. `LeaseLetGo` therefore excuses a run with a fault: its lease is left to
the five-minute recovery or, fenced, to the next day, as the code intends.
`DashboardFairness` adds the tab: its queries are answered, an action it sent is
started by the server, and an action whose run ended or died is answered (the
framework rejects a call whose connection is gone). Nobody has to press.

`FairSpec` of `CloudConnect` has weak fairness of the creation, of each request
slot's next step, of the launch, of the sweep and of time. A call of the browser
service has a timeout of 15 seconds, a launch one of 30, the sweep is on a
one-second interval. That a slot takes up a new poll is the page's interval: it
polls every four seconds until it sees a terminal state, so
`SettlesUnlessFaulted` speaks of a page that stays open. A session whose page
was closed keeps its last state in the database; its browser ends by the sweep
all the same (`BrowserEnds` needs no poll). Nobody has to log in, cancel or
leave.

The other flows: a panel's mint is answered and its timer runs
(`EXTENSION_REQUEST_TIMEOUT_MS`), while the extension owes nothing. The timer
belongs to an effect of the panel: its fairness takes it that no re-render
clears it while the request is pending. A desktop
capture's five-minute timer and the steps after it are taken, while the user
owes nothing; a sign-in callback that was received is handled; a run's planning
and delivering calls are answered or throw. Fault steps are never fair. Each is
weak fairness of the component's own `FairSpec`, in its flow.

## 7. What is proved

The theorems hold for all values of the constants that satisfy the assumptions
named in the modules:

- `StorefrontDatabase` and `StorefrontWorker`: `NoRun` is no run, `NoAccount` no
  account, finitely many connections, each with one owner, natural bounds;
  `DashboardStatus`: the account the tab has selected is a connection, and the
  button's trigger is one of the triggers.
- `CloudConnect`: `Creator` is not one of `Requests`.
- `Watchlist` (`ConstantsFit`, which its theorems name and `MCCatalog` assumes
  of its three instances): finitely many skins, a page has at least one row.
- `StorefrontCatalog` (`ConstantsFit`): a day has a tick and a batch a row, the
  catalog is finite, a level's skin and a skin's tier are in it, no skin comes in
  an earlier release than its tier, and the offers of a rotation are what the
  schema accepts (`RiotOffer`): a price per currency and at least one reward.
  Nothing is assumed of the order, of ids being distinct, or of the catalog
  knowing the offered levels.

All other bounds are natural numbers. The theorems of `CredentialConnect`,
`ExtensionConnect`, `DesktopCapture` and `OwnerNotice` name what they need as
hypotheses: for the types that the bound on faults is natural; for
`AnswersAreTrue` that `Null` is neither a request nor `Main`; for
`KeepsItsIdentity` that `Main` is not one of the requests, after which new rows
are named; for `OnePanelOneToken` and `OneRequestIsAttended` that there is one
panel, or one request, without which section 8 shows them false. `MailsAreSingle`
leaves the flow `oneShop` out, as its run does. Distinct model values satisfy all
of them.

| Module | Theorem | Statement |
|---|---|---|
| `StorefrontProofs` | `TypeCorrect` | `Spec => []TypeOK` |
| | `AttemptInvariant` | `Spec => [](TypeOK /\ AttemptInv)` |
| | `OneRequest` | `Spec => []OneRequestPerAllowance` |
| | `SpentForGood` | `Spec => AllowanceStaysSpent` |
| | `Refinement` | `Spec => ImplementsAllowance` |
| | `AllowancePaysOnce` | the abstract specification implies `[]OncePerAllowance` |
| | `LeaseShapeInvariant` | no attempted lease without a token |
| | `FenceClears` | `Spec => FenceClearing` |
| | `FenceInvariant` | `Spec => [](TypeOK /\ FenceInv)` |
| | `NoConcurrency` | `Spec => []NoConcurrentRequests` |
| | `Untouched` | `Spec => ReplacementUntouched` |
| | `StoredShopsInvariant` | `Spec => [](TypeOK /\ StoredShops)` |
| | `ShopOnlyAdvances` | `Spec => ShopNeverRegresses` |
| | `SuccessLasts` | `Spec => []SuccessIsDurable` |
| | `CapacityHolds` | `Spec => []DailyCapacity` |
| | `JarOnlyAdvances` | `Spec => JarNeverRegresses` |
| | `OneNotice` | `Spec => []OneExpiryNotice` |
| | `NoLeak` | `Spec => []NoLeaseLeak` |
| | `WorkerUnderDashboard` | `DashboardSpec => Spec` |
| | `DashboardTypeCorrect` | `DashboardSpec => [](TypeOK /\ DashboardTypeOK)` |
| | `OfferIsGranted` | `DashboardSpec => []AvailableIsClaimable` |
| | `SpentStaysSpent` | `DashboardSpec => []SpentIsSpent` |
| | `MessagesAreTrue` | `DashboardSpec => []MessageIsTrue` |
| `FlowsProofs`, of `CloudConnect` | `TypeCorrect` | `Spec => []TypeOK` |
| | `Once`, `Final` | `Spec => []ConsumedOnce`, `Spec => ConsumedIsFinal` |
| | `Attended` | `Spec => []CaptureAttended` |
| | `Destroyed`, `Released` | `Spec => []DestroyedIsTrue`, `Spec => []BrowserReleased` |
| of `DesktopCapture` | `CaptureTypeCorrect` | `Desktop!Spec => []Desktop!TypeOK` |
| | `CapturesSettleOnce` | `Desktop!Spec => []Desktop!OneOutcome` |
| | `PostsAreSignedIn` | `Desktop!Spec => []Desktop!PostedIsSignedIn` |
| of `OwnerNotice` | `NoticeTypeCorrect` | `Owner!Spec => []Owner!TypeOK` |
| | `NoticeIsSingle` | `Owner!Spec => Owner!ImplementsSingleDelivery` |
| of `MCFlows` | `FlowsTypeCorrect` | `FlowsSpec => []FlowTypeOK` |
| | `SignInsAreTruthful` | `FlowsSpec => []SignInIsTruthful` |
| | `ConnectionsKeepTheirIdentity` | `FlowsSpec => IdentityImmutable` |
| | `CapturesAreHonest`, `ExtensionsAreHonest` | `FlowsSpec => []CaptureIsHonest`, `FlowsSpec => []ExtensionIsHonest` |
| | `MailsAtMostOnce`, `DeliveriesCover` | `FlowsSpec => []AtMostOneMail`, `FlowsSpec => []DeliveryCovers` |
| | `NoticesAreSingle`, `MailsAreSingle` | `FlowsSpec => NoticeIsSingleDelivery`, `FlowsSpec => MailIsSingleDelivery` |
| `NotificationDeliveryProofs` | `DeliveryTypeCorrect` | `Spec => []TypeOK` |
| | `MailOnce` | `Spec => []AtMostOneMail` |
| | `NothingIsLost` | `Spec => []NoSilentLoss` |
| | `CoversPlan` | `Spec => []SuccessCoversPlan` |
| | `DeliveryIsSingle` | `Spec => ImplementsSingleDelivery` |
| `ExtensionConnectProofs` | `ConnectTypeCorrect` | `Spec => []TypeOK` |
| | `ConnectInvariant` | `Spec => []ConnectInv` |
| | `SavesOnce` | `Spec => []TokenOnce` |
| | `ConnectedMeansSaved` | `Spec => []ConnectedIsSaved` |
| | `OnePanelOneToken` | with one panel, `Spec => []OneLiveToken` |
| | `OneRequestIsAttended` | with one request, `Spec => []TransientStateRemoved` |
| `CredentialConnectProofs` | `CredentialTypeCorrect` | `Spec => []TypeOK` |
| | `SavesWhereChosen` | `Spec => []SavedWhereChosen` |
| | `AnswersAreTrue` | `Spec => []AnswerIsTruth` |
| | `KeepsItsIdentity` | `Spec => IdentityImmutable` |
| `WatchlistProofs` | `WatchTypeCorrect` | `Spec => []WatchTypeOK` |
| | `CardsAreTrue` | `Spec => []CardIsTruth` |
| | `LoadsAreComplete` | `Spec => []LoadMissesNothing` |
| | `PlansAreWatched` | `Spec => []PlannedIsWatched` |
| `CatalogProofs` | `SyncsComplete` | `Spec => []SyncCompletes` |
| | `OneHash` | `Spec => []SameRotationSameHash` |
| | `EnrichmentAddsSkins` | `Spec => []EnrichedIsTheSnapshot` |
| | `ExpiriesAreNotLate` | `Spec => []ExpiryIsNotLate` |
| | `GapsNeverFail` | `Spec => []GapsDoNotFailThePage` |
| | `ResolvedSkinsShow` | `Spec => []ResolvedIsShown` |
| | `ShownMarketsRun` | `Spec => []MarketShownIsRunning` |
| | `CatalogTypeCorrect` | `Spec => []CatalogTypeOK` |
| `CatalogFlowsProofs`, of `MCCatalog` | `StoredShopsAreRiots` | `FlowsSpec => []StoredShopIsRiots` |
| | `PagesAreTrue` | `FlowsSpec => []PagesShowTheCatalog` |
| | `CardsShowTheRows` | `FlowsSpec => []CardIsTruth` |
| | `LoadsMissNothing` | `FlowsSpec => []LoadsAreExact` |

Every safety property that a passing run checks is in this table.

The arguments:

- **Types.** `StorefrontProofs` begins with one lemma per operation of the
  tables and one per group of the worker's actions; they are what every later
  proof about the worker and the dashboard rests on.
- **One request.** `OneRequestPerAllowance` is not inductive: nothing in it
  connects a run that is about to fetch with the row that lets it. `AttemptInv`
  does: a run that has or may send a request holds the very stamp of its
  allowance's row (`RunStamps`), no two runs hold one stamp
  (`AttemptsDistinct`), stamps are bounded by `lastMark` and rows that can be
  claimed have none (`StampsRecorded`). The last two make the mark's fresh
  stamp differ from every older one; the first survives because no operation
  changes a stamp once it is set, which is the lemma `NextStamps` and, as an
  action property, `SpentForGood`.
- **Refinement.** The mark maps to `Spend` (with a grant if the response
  arrives), `GetStore` to `Send`, every other step leaves stamps, attempts and
  sent requests alone and stutters. `AttemptInv` supplies that the allowance is
  not spent before and that a grant precedes the request.
- **The fence.** `FenceHeld` says that while a request of today may be in
  flight on a current session, that session's lease carries the run's token,
  today's date and an attempt. For it to be inductive the settled and the
  uncertain outcomes have to be separated along the failure path (`Outcomes`:
  a run that closes its attempt is not one whose fetch was aborted), a run's
  row must exist at its epoch or a later one (`RunsOnRows`), and a lease
  without a token carries no attempt (`LeaseShape`). Then a second mark on the
  same session and day is impossible: it needs an unattempted lease.
- **What a run leaves behind.** The worker has some thirty actions but makes
  twelve kinds of database calls: `DatabaseCall`, and the lemma `RunCalls` that
  every step of a run makes one of them, so the proofs below split on calls. Each
  property has a small invariant of its own:
  - `ReplacementUntouched` needs none but the types: every call compares the
    epoch (`StaleCall`).
  - `StoredShops`: no stored shop is ahead of the attempt its lease carries for
    that day. Without it a record by the lease's holder could go back.
  - `DurableSuccesses`: a manual row belongs to a connection that exists or
    existed. Without it a row could be read as a success of a connection that is
    inserted later.
  - `CapacityInv`: besides the rows of today, the accounts held now do not exceed
    the most held at once today, and no row of a later day exists. The claim's
    guard compares the two counts, a reconnect moves one of them.
  - `JarInv`: a run about to write its jar with the lease in hand does not hold
    an older one than the row, because its jar is the last that was issued under
    that lease.
  - `NoticeInv`: a run knows of a dead session only from its own write, after
    which the session is unusable for good, so no two runs know it of one
    session.
  - `LeaseInHand`: a run that met no fault, and whose token is on a lease, is at
    a step that has a release, a close or a record ahead of it, and the row that
    this step looks for is in the state it looks for (`Closable`, `FreshRows`).
    `NoLeaseLeak` speaks only of a run that ended; why the lease went is in the
    rows of its allowance. It takes `AttemptInv` and `FenceInv` with it.
- **The dashboard.** `WorkerUnderDashboard` makes every theorem of the worker one
  of the composition: pressing the button is the start of a run. That an offer is
  granted compares the read model with the functions of the database state by
  state, given that no lease is of a day to come (`LeaseDays`). What a tab has read may be old: `SeenInv` keeps of it
  what no later write can take back, since stamps stay (`SpentForGood`) and so do
  successes. A message is about a run that has ended: `ReportInv` says that a run
  past its record, or ended with a reason that counts as checked, has its shop
  recorded and its allowance succeeded, and `DeadInv` that a run Riot refused is
  about to say so, met a fault, or has left a session that is unusable for good.
  Both are followed through every step of the run, because the reason a run
  reports is fixed steps before the run ends.
- **The sign-in.** A request starts a chain, takes over a stored challenge, or
  walks on (`Ways`). `SavedWhereChosen` follows from `ChainInv`: what a request
  holds, and what the stored challenge holds, is what the request that opened the
  chain chose, and that request chooses no more (`Stable`). That a step leads
  only onwards is what keeps a request from saving twice (`SavedBy`) and
  gives `KeepsIdentity`: the row a request would insert is there only after it
  has saved (`OwnRowInv`), so a save either inserts or passed `SameAccount`.
- **The owner's notice.** `NoticeInv` (one holder, whose row is claimed, and who
  has mailed exactly when it is about to mark) makes each step of a callback a
  claim, a message, a record, or none of them (`Effects`).
- **Consumption.** `ConsumedInv` (a consumed row is connected) is inductive with
  the lemma `ConsumedStep`: a step leaves `consumed` alone and is permitted by
  the check constraint, or is the write that asked for `validating_session`,
  which a connected row is not.
- **The capture.** `CaptureAttended` is inductive by itself once consumption is
  known: `CaptureOutcome` says that a request leaves a row being captured only
  by settling it, or because it was not the one capturing.
- **The browser.** `DestroyedIsTrue` does not say why a request may write
  `destroyed_at`. `RequestInv` does (it has destroyed the browser, or was told
  it is gone), and a browser that is gone does not come back because the only
  launch belongs to a creation that no request precedes (`CreationInv`).
  `ReleaseInv` adds that a settled row whose browser is still there has a
  capture in its finally block.
- **The mail.** Every step of a run does one of four things to reservations:
  nothing, `Claims`, `Accepts` or `Records`; a disconnect deletes rows. One lemma
  per class replaces one per action. `ReservationInv` (a row that can be claimed
  was never mailed, a claimed one has one holder, which has not mailed it before
  its mark) is inductive together with `OneInHand`, that a run holds one email at
  a time. `CoverInv` (what a run has dealt with is claimed, and a run that ended
  well has nothing left to do) gives `SuccessCoversPlan`; the count of faults
  enters only `NoSilentLoss`.
- **The refinement of the mail.** A claim maps to a claim, an accepted call to a
  message, a mark to a record. What needs proof is the account deleted under a
  delivery: its key stays claimed in the abstraction until its holder is through,
  so that a message sent after the deletion is still a step of `SingleDelivery`.
- **The token.** `TokenOnce` says nothing of the listener between the spent
  token and the save. `SaveInv` does: an unspent token has saved nothing, a
  token whose session is being saved is spent and has saved nothing yet, and a
  listener on its way to report success has seen it saved. A restart or a lost
  answer may let the post save after its listener is gone, which is why the
  invariant speaks of the cell that is overwritten in the same step. `PanelInv`
  keeps a minting panel's request its own, so that no insert revives a spent
  token. With one panel at most one token is live, and none while
  that panel is about to insert one (`OneLive`); with one request a stored job
  has its alarm, or a listener about to set it or to drop the job
  (`AttendedInv`).
- **The desktop.** `CaptureInv` says of each step of a capture whether it has
  settled, and that what it read and has not yet posted came from a partition
  with a session.
- **The cards.** `CardIsTruth` excuses a card whose action is under way and says
  nothing of what the page was given. `CardKnown` follows both: until an action is
  saved, row and page are the opposite of what it wants, afterwards the row is
  what it wants, and a card that is still there waits for exactly this action. A
  card that was told of nothing is excused by the history `dirty`, as in the
  property.
- **The loads.** `LoadComplete` counts what has `Slipped`: a skin that was there
  at the start, is not read, and is gone or stands before the offset. Pages make
  the set smaller. A row that is added is last for the worker and moves all others
  back for the inventory, so nothing slips (`NoneSlips`); a removal leaves one
  place and moves those behind it up, so at most the removed row or the first row
  of the next page slips (`OneSlips`). The invariant is about places in the list
  and not about how many were read.
- **The sort.** `OneHash` rests on `SortForgetsTheOrder`: if a comparison never
  calls two different elements equal, sorting any rearrangement of a list gives
  the same list. Sorting by places makes this a statement about counting: the
  places of a list's elements are all different (`PlacesDiffer`), hence the
  result is a rearrangement in order (`SortRearranges`, `SortedInOrder`), and two
  lists in order with the same elements are equal at the first place at which
  they would differ (`OneOrder`, by the least such place, `LeastNat`).
  `OffersInOrder` shows that ids, prices and rewards together tell any two
  different offers apart, which ids alone do not: twin offers are the mutant.
- **The stored shop.** `RowKnown` is what the properties have in common: a row
  carries the hash of its day's one snapshot, its offers are that snapshot or the
  snapshot with skins, and those skins are in the catalog. `Answered` keeps, for
  the run that is under way, that what Riot's countdowns say from the mark on is
  no later than the real end, since the mark is never after the answer.
- **The sync.** `SyncKnown`: the tables before the one being written hold all the
  rows fetched, and of that one all but those left to do. With the foreign keys
  (`TablesKnown`) a refused row means a skin whose tier the other response does
  not have, hence a patch in between.
- **The page.** `PageKnown`: levels that were read have their skin in the table,
  because the levels are written after the skins and tables only grow
  (`TablesGrow`), so the later query of the page finds it.
- **Flows.** A behaviour of `MCFlows` or `MCCatalog` stays in the flow it starts
  in (`FlowStays`), where it is a behaviour of the component with that flow's
  constants; the component's theorem then holds of it. The constants of the
  instances are shown to fit by the `FlowsAssumption` of each.

The inductive invariants were checked with TLC, on the constants of the runs,
before they were proved.

Two things the proofs changed in the models. Sorting was an operator of the
community modules that chooses some sorted permutation; the model now sorts as
the code does, stably and by counting, and `skins` of a stored shop is a set. The
same states are reached as before. And what the dashboard makes of an
account's rows (`Hold`, `Availability`), and the reason a run ends with
(`ReasonOf`), were written with `CASE` whose guards overlap, and of those TLA+
leaves open which one is taken: TLC takes the first, the provers must allow for
each. `manualAvailability` is a chain of early returns (`dashboard-status.ts`,
lines 42 to 112); the model now has the same chain, and the account's part of it
under a name of its own, `Offered`.

Only model-checked: all liveness properties (`LeaseLetGo`, `PressIsAnswered`,
`BrowserEnds`, `SettlesUnlessFaulted`, `CapturesEnd`, `MailsSettle`), which under
fairness are out of the prover's reach. Of the operators of `StorefrontSnapshot`
those that choose a price or filter a list (`PreferredAmount`, `EmailPrice`, the
night market's offers) are only evaluated by the runs, and the prices of the
night market and the bundle are read by no property; what a fold computes for
every list would need an induction the provers cannot instantiate. The snapshot
of the daily offers needs none, because its sort is defined by places.

## 8. Where the code and its documents disagree

Each of these is a property of a module, stating the sentence that is quoted,
and TLC finds a behaviour of the code that breaks it. The first five are runs of
the project.

- `retry`: README.md line 55 promises that a failure before the fenced request
  can be retried. A classified failure stores a transient `auth_status`, and
  `claim_riot_manual_refresh` requires `CONNECTED`: the manual claim that was
  handed back is unavailable until an automatic check or a reconnect succeeds.
- `third`: SECURITY.md line 140 says the third consecutive failure requires
  reconnection. The new count is computed from the row as listed before the
  lease was acquired and written without comparing, so two runs that listed the
  same row count one failure between them.
- `cloud_spinner`: `docs/cloud-browser-riot-connection.md` line 117 promises a
  retry "rather than an endless spinner". When the answer of a claim is lost or
  the capturing request dies, the row stays in `capturing_session` or
  `validating_session`. These are not among `activeStates`: polls answer the row
  as it is, expiry is not applied and `cancel()` does nothing.
- `credential_account`: `session-store.ts` line 173 says a reconnect "may not
  silently replace an existing row with a different Riot account". The guard is
  added only when the PUUID is known, and `resolveIdentity()` swallows a failed
  lookup: signing in to another account then stores its session under the old
  PUUID.
- `extension_jobs`: `browser-extension/README.md` line 120 says "Transient
  extension state is removed after success, failure, cancellation, or timeout".
  A listener that read the job table before another request finished writes the
  finished job, token included, back after its tab and alarm are gone.

The others are not run; the property stands in the module, and the instance that
shows it is given. Everything not named is as small as it can be, with no faults.

| Property (module) | Instance | What happens |
|---|---|---|
| `ExtrasOfSameAttempt` (`StorefrontWorker`) | 2 runs, 1 row | migration `20260817065234` line 983 says enrichment decorates only the row of its own attempt. Bundle and night market are written by `shop_checks.id` alone, and the daily upsert keeps that id, so a slow run puts them on a newer attempt's storefront |
| `ClaimedOnce` (`CloudConnect`) | 3 requests | SECURITY.md line 35 says the control record "is atomically claimed once". `status()` writes the state it was answered over the row whatever state it is in; a stale poll reopens a claimed session and a third poll claims it again. `ConsumedOnce` still holds; the first capture then fails the session |
| `OneMailPerUserAndSkin` (`NotificationDelivery`) | 2 runs, 2 checks, 1 skin | SECURITY.md line 154 says notifications are reserved "by user, skin, and UTC rotation". The key is the shop check, which belongs to one connection: a skin offered to two accounts of a user is mailed for each |
| `RunLogCountsEmails` (`NotificationDelivery`) | 1 run, 1 check, 2 skins, 1 fault | README.md line 236 says the run log records "how many emails were actually sent". `deliver()` throws at the first failing email and forgets its count |
| `SpentIsDeleted` (`CredentialConnect`) | a login, a code, 2 accounts | `pending-auth-store.ts` line 18 says the pending cookie "is deleted the moment it is spent". It is cleared after the save; a refused save leaves it |
| `InvalidatesItsOwn` (`CredentialConnect`) | 2 logins, a code, 1 account | `connection-service.ts` line 219 says a failed code "invalidates" its challenge. `clear()` deletes by user id, also a challenge another request stored since |
| `OneLiveToken` (`ExtensionConnect`) | 2 panels, 2 requests | `capture-token.ts` line 42 says "at most one live token exists per user at a time". The delete and the insert are two calls; two mints interleave |
| `FailureIsFinal` (`ExtensionConnect`) | 1 panel, 1 request | `riot-connection-panel.tsx` line 394 reports "Riot sign-in wasn't detected". Neither the panel's timer nor the job's alarm stops a submission on its way, which saves the session afterwards |
| `OneLoginWindow` (`DesktopCapture`) | 2 captures | `capture-main.ts` line 271 routes a second launch "rather than opening a competing Riot login window". Its handler opens one, and whichever ends first destroys both |
| `ServeStaysResident` (`DesktopCapture`) | 1 capture | `capture-main.ts` line 321 says "Serve mode stays resident". A deep link delivered to it runs `runCapture(token).finally(shutdown)` |
| `LoginDoesNotLinger` (`DesktopCapture`) | 1 capture | `riot-capture.ts` line 258 clears the partition "so the Riot login does not linger". A close between the sign-in and the cookie read settles without clearing |
| `QuietWhenHealthy` (`DashboardStatus`) | the tab over 2 runs | `store-attention-panel.tsx` lines 60 to 64 say it renders nothing while today's store is present and healthy. It shows the newest automatic run's reason; a later good manual run does not change that |
| `UncertainUntilReset` (`DashboardStatus`) | the tab over 2 runs | `dashboard-status.ts` line 96 says of an attempted lease that the manual refresh "returns after the next UTC reset or reconnect". A run that merely waits for Riot holds one too, and clears it the same day |
| `OneRequestPerRotation` (`StorefrontCatalog`) | as flow `shops` | `docs/roadmap.md` line 91 says "one storefront request per connected account per UTC rotation". A check marked just before 00:00 UTC and answered after it reads the new day's rotation, which the new day's own check asks for again |
| `OtherItemsAreNotSkins` (`StorefrontCatalog`) | as flow `pages`, over an empty catalog | `daily-shop.ts` line 43 says the count is of "items that are not weapon skins". Skins whose level the catalog does not know are counted too |
| `OnlyPointsAreShown` (`StorefrontCatalog`) | a rotation with an offer that lists a currency below `VP` beside it | `pipeline.ts` line 48 says currencies other than Valorant Points "are promotional and are not shown". The dashboard shows the first cost by currency id, and the email falls back to it |
| `BonusNeverFailsTheCheck` (`StorefrontCatalog`) | as flow `shops` | `schema.ts` lines 153 to 156 say a wrong guess about the night market must "not fail the daily check". `BonusStore: null` fails the parse of the whole payload |
| `FailedMeansUnsaved` (`Watchlist`) | 1 tab, 1 card, 1 toggle, 1 fault | `skin-card.tsx` line 126 says "That change did not save." for every rejected action, also when the row was written and the answer was lost |

Two constants differ as well, which no property depends on: the same document
speaks of expiry after eight minutes (`RIOT_CLOUD_CONNECTION_TTL_MS` is fifteen)
and of a disconnect grace of 30 seconds (`VIEWER_DISCONNECT_GRACE_MS` is three
minutes).

## 9. What is left out

Not modelled, and why:

- Cookie jar (`riot/cookie-jar.ts`): a pure algorithm on one value inside one
  request; the models use its outcome only, and put the jars in the order Riot
  issued them. What Riot accepts after a rotation whose write was lost is Riot's
  to decide and not in the source (`reauth-persistence.ts` line 29).
- Login and session providers, TLS fetch: sequences of calls to Riot within one
  request, without state of their own; their outcomes are inputs here.
- Session encryption, configuration, scripts, generated types, preview data:
  encodings and tables without behaviour.
- User interface: rendering and animation (`hero-frames`, `skin-morph-renderer`,
  `motion`), which are a large part of the code by lines. What of the UI keeps
  state that others read is modelled: the refresh button, the extension panel and
  the watch cards.
- Of the cloud login: screencast, input forwarding, viewer tokens, the MFA and
  CAPTCHA diagnostics, `failure_code`, `includeStream`, the feature flag, and
  more than one session at a time (sessions share no row and no browser).
- Of the mail: the rendered text, and the provider's own idempotency key, which
  could only remove a duplicate the reservation already excludes.
- Of the desktop app: navigation filtering and the loopback server's headers; of
  the extension: cookie formatting and permissions other than their refusal.
- Of the catalog: `skin-detail.ts` and `showcase.ts`, which only read; of the
  storefront: display texts, images and the account's name.
- Row-level security, request authentication and consent: conditions on who may
  call, constant during a run.
- Postgres itself: a function that locks its rows first is taken as atomic, and
  a single `UPDATE` as atomic with its conditions.

Components that do not interact are checked side by side (`MCFlows`,
`MCCatalog`), not in one product; what connects them is one save of the
connection row or one stored storefront, which each models as the other needs it.
