-------------------------- MODULE StorefrontCatalog ---------------------------
(***************************************************************************)
(* The storefront's data, from Riot to the dashboard: a check asks Riot    *)
(* for a shop, stores it raw and then enriched with skins of the catalog;  *)
(* the catalog is filled table by table from valorant-api while checks and *)
(* page loads use it; the dashboard reads checks, levels, skins and names  *)
(* in separate queries.                                                    *)
(*                                                                         *)
(* Who may run a check and when is StorefrontWorker's subject: here one    *)
(* check runs at a time, and an account has one automatic and one manual   *)
(* check a day.                                                            *)
(***************************************************************************)
EXTENDS StorefrontSnapshot

CONSTANTS
    Connections,
    DayLength, MaxNow,  \* ticks in a day; the last instant (a bound)
    Rotation,           \* Rotation[c][d]: Riot's offers of day d, as a sequence
    BundleItems,        \* the featured bundle, the same for every account
    Market,             \* the night market's offers
    MarketEnd, BundleEnd,
    Shapes,             \* the forms BonusStore takes while the market runs
    Skins, Tiers, SkinOf, TierOf,   \* valorant-api: SkinOf[level], TierOf[skin]
    Since,              \* the release a skin or tier came with
    PageLoads,          \* whether somebody opens the dashboard
    MaxRelease, BatchSize, MaxSyncs, MaxFaults

\* The schema of a daily offer: a price per currency, at least one reward.
RiotOffer(o) ==
    /\ o \in [id : Nat, costs : Seq([currency : Nat, amount : Nat]),
              rewards : Seq([level : Nat, quantity : Nat, skinType : BOOLEAN])]
    /\ o.rewards # <<>>
    /\ \A i, j \in DOMAIN o.costs : o.costs[i].currency = o.costs[j].currency => i = j

\* What is assumed of the clock, of Riot and of valorant-api.
ConstantsFit ==
    /\ DayLength \in Nat \ {0} /\ MaxNow \in Nat /\ BatchSize \in Nat \ {0}
    /\ MarketEnd \in Nat /\ BundleEnd \in Nat
    /\ MaxRelease \in Nat /\ MaxSyncs \in Nat /\ MaxFaults \in Nat
    /\ IsFiniteSet(Skins) /\ IsFiniteSet(Tiers) /\ IsFiniteSet(DOMAIN SkinOf)
    /\ \A s \in Skins : TierOf[s] \in Tiers /\ Since[s] \in Nat
    /\ \A x \in Tiers : Since[x] \in Nat
    /\ \A l \in DOMAIN SkinOf : SkinOf[l] \in Skins
    /\ \A s \in Skins : Since[TierOf[s]] <= Since[s]
    /\ \A c \in Connections, d \in 0..(MaxNow \div DayLength) :
          /\ Rotation[c][d] \in Seq(Range(Rotation[c][d]))
          /\ \A i \in DOMAIN Rotation[c][d] : RiotOffer(Rotation[c][d][i])

ASSUME CatalogAssumption == ConstantsFit

VARIABLES
    now, release,   \* the clock; what valorant-api serves
    tables,         \* the catalog's tables
    sync,           \* the catalog sync
    shop,           \* shop[c][d]: shop_checks
    run,            \* the check that is running
    taken,          \* the (account, kind, day) checks already marked
    page,           \* a dashboard page load
    faults,
    hashes, asked   \* history: hashes recorded, automatic requests answered, per rotation

vars == <<now, release, tables, sync, shop, run, taken, page, faults, hashes, asked>>

Day(t) == t \div DayLength
Days == 0..Day(MaxNow)
Levels == DOMAIN SkinOf
TableNames == {"content_tiers", "weapons", "skins", "skin_levels", "skin_chromas"}

NoShop == [checkedAt |-> -1]
IdleRun == [step |-> "idle"]
IdlePage == [step |-> "idle"]

Init ==
    /\ now = 0 /\ release = 0 /\ faults = 0 /\ taken = {}
    /\ tables = [t \in TableNames |-> {}]
    /\ sync = [step |-> "idle", runs |-> 0, weapons |-> -1, tiers |-> -1,
               table |-> 1, todo |-> {}]
    /\ shop = [c \in Connections |-> [d \in Days |-> NoShop]]
    /\ run = IdleRun /\ page = IdlePage
    /\ hashes = [c \in Connections |-> [d \in Days |-> {}]]
    /\ asked = [c \in Connections |-> [d \in Days |-> 0]]

Fault == faults < MaxFaults /\ faults' = faults + 1

Tick ==
    /\ now < MaxNow /\ now' = now + 1
    /\ UNCHANGED <<release, tables, sync, shop, run, taken, page, faults, hashes, asked>>

\* valorant-api serves a new patch.
Release ==
    /\ release < MaxRelease /\ release' = release + 1
    /\ UNCHANGED <<now, tables, sync, shop, run, taken, page, faults, hashes, asked>>

-----------------------------------------------------------------------------
(* The catalog sync. *)

\* Mutant: levels before the skins they belong to.
WriteOrderLevelsFirst ==
    <<"content_tiers", "weapons", "skin_levels", "skins", "skin_chromas">>

WriteOrder ==
    <<"content_tiers", "weapons", "skins", "skin_levels", "skin_chromas">>

\* The rows the two responses of releases w and t are flattened into.
Rows(table, w, t) ==
    CASE table = "content_tiers" -> {x \in Tiers : Since[x] <= t}
      [] table = "weapons"       -> {"weapon"}
      [] table = "skin_levels"   -> {l \in Levels : Since[SkinOf[l]] <= w}
      [] OTHER                   -> {s \in Skins : Since[s] <= w}

\* The foreign keys of the tables.
References(table, row) ==
    CASE table = "skins" ->
            "weapon" \in tables["weapons"] /\ TierOf[row] \in tables["content_tiers"]
      [] table = "skin_levels"  -> SkinOf[row] \in tables["skins"]
      [] table = "skin_chromas" -> row \in tables["skins"]
      [] OTHER -> TRUE

SyncStart ==
    /\ sync.step \in {"idle", "done", "failed"} /\ sync.runs < MaxSyncs
    /\ sync' = [step |-> "fetching", runs |-> sync.runs + 1, weapons |-> -1,
                tiers |-> -1, table |-> 1, todo |-> {}]
    /\ UNCHANGED <<now, release, tables, shop, run, taken, page, faults, hashes, asked>>

\* The two responses of Promise.all.
SyncFetch(part) ==
    /\ sync.step = "fetching" /\ sync[part] = -1
    /\ \/ sync' = [sync EXCEPT ![part] = release] /\ UNCHANGED faults
       \/ sync' = [sync EXCEPT !.step = "failed"] /\ Fault
    /\ UNCHANGED <<now, release, tables, shop, run, taken, page, hashes, asked>>

SyncTable ==
    /\ sync.step = "fetching" /\ sync.weapons # -1 /\ sync.tiers # -1
    /\ sync' = [sync EXCEPT !.step = "writing",
                  !.todo = Rows(WriteOrder[1], sync.weapons, sync.tiers)]
    /\ UNCHANGED <<now, release, tables, shop, run, taken, page, faults, hashes, asked>>

\* At most BATCH_SIZE rows, and fewer only in the last.
Batches(rows) ==
    {b \in SUBSET rows : b # {} /\ (Cardinality(b) = BatchSize \/ b = rows)
                         /\ Cardinality(b) <= BatchSize}

\* One upsert: the whole batch or nothing.
SyncWrite ==
    /\ sync.step = "writing"
    /\ LET table == WriteOrder[sync.table]
       IN \E b \in Batches(sync.todo) :
             \/ /\ \A row \in b : References(table, row)
                /\ tables' = [tables EXCEPT ![table] = @ \cup b]
                /\ sync' = [sync EXCEPT !.todo = @ \ b]
                /\ UNCHANGED faults
             \/ /\ \E row \in b : ~References(table, row)
                /\ sync' = [sync EXCEPT !.step = "failed"]
                /\ UNCHANGED <<tables, faults>>
             \/ /\ sync' = [sync EXCEPT !.step = "failed"]
                /\ UNCHANGED tables /\ Fault
    /\ UNCHANGED <<now, release, shop, run, taken, page, hashes, asked>>

SyncNext ==
    /\ sync.step = "writing" /\ Batches(sync.todo) = {}
    /\ sync' = IF sync.table = Len(WriteOrder)
               THEN [sync EXCEPT !.step = "done"]
               ELSE [sync EXCEPT !.table = @ + 1,
                       !.todo = Rows(WriteOrder[sync.table + 1],
                                     sync.weapons, sync.tiers)]
    /\ UNCHANGED <<now, release, tables, shop, run, taken, page, faults, hashes, asked>>

-----------------------------------------------------------------------------
(* Riot's answer. *)

Rearranged(seq) ==
    {[i \in DOMAIN seq |-> seq[p[i]]] : p \in Bijection(DOMAIN seq, DOMAIN seq)}

OfferForms(o) ==
    {[id |-> o.id, costs |-> k, rewards |-> r] :
       k \in Rearranged(o.costs), r \in Rearranged(o.rewards)}

Arrangements(offers) ==
    {s \in [DOMAIN offers -> UNION {OfferForms(offers[i]) : i \in DOMAIN offers}] :
       \E p \in Bijection(DOMAIN offers, DOMAIN offers) :
          \A i \in DOMAIN offers : s[i] \in OfferForms(offers[p[i]])}

\* The shop of account c at this instant: one rotation, in any order.
Payload(c, offers, bonus) ==
    [offers |-> offers,
     remaining |-> (Day(now) + 1) * DayLength - now,
     bundle |-> [asset |-> 1, items |-> BundleItems,
                 outer |-> BundleEnd - now, inner |-> BundleEnd - now,
                 cost |-> <<[currency |-> VP, amount |-> 9]>>],
     bonus |-> bonus,
     market |-> [remaining |-> MarketEnd - now, offers |-> Market]]

BonusNow == IF now < MarketEnd THEN Shapes ELSE {"absent"}

-----------------------------------------------------------------------------
(* The check. *)

\* The claim and the mark: the attempt's time is the check's time.
Mark(c, kind) ==
    /\ run.step = "idle" /\ <<c, kind, Day(now)>> \notin taken
    /\ taken' = taken \cup {<<c, kind, Day(now)>>}
    /\ run' = [step |-> "marked", c |-> c, kind |-> kind, checkedAt |-> now]
    /\ UNCHANGED <<now, release, tables, sync, shop, page, faults, hashes, asked>>

\* client.getStore.
Answer ==
    /\ run.step = "marked"
    /\ \/ /\ \E offers \in Arrangements(Rotation[run.c][Day(now)]), bonus \in BonusNow :
                run' = [step |-> "answered", c |-> run.c, kind |-> run.kind,
                        checkedAt |-> run.checkedAt, of |-> Day(now),
                        payload |-> Payload(run.c, offers, bonus)]
          /\ asked' = IF run.kind = "cron"
                      THEN [asked EXCEPT ![run.c][Day(now)] = @ + 1] ELSE asked
          /\ UNCHANGED faults
       \/ run' = IdleRun /\ Fault /\ UNCHANGED asked
    /\ UNCHANGED <<now, release, tables, sync, shop, taken, page, hashes>>

\* record_storefront_refresh keeps the two columns it does not know.
Stored(old, snap, of) ==
    [checkedAt |-> snap.checkedAt, offers |-> snap.offers, skins |-> snap.skins,
     hash |-> snap.hash, expires |-> snap.expires, of |-> of,
     bundle |-> IF old = NoShop THEN {} ELSE old.bundle,
     market |-> IF old = NoShop THEN {} ELSE old.market]

\* Mutant: the check's time is the time of the write.
CheckTimeOfWrite == now

CheckTime == run.checkedAt

Write(snap, next) ==
    LET c == run.c d == Day(run.checkedAt)
    IN  \/ /\ shop' = [shop EXCEPT ![c][d] = Stored(shop[c][d], snap, run.of)]
           /\ hashes' = [hashes EXCEPT ![c][run.of] = @ \cup {snap.hash}]
           /\ run' = [run EXCEPT !.step = next] /\ UNCHANGED faults
        \/ run' = IdleRun /\ Fault /\ UNCHANGED <<shop, hashes>>

\* prepareStorefront and the raw row; a payload that does not parse ends the
\* check, its attempt spent.
RecordRaw ==
    /\ run.step = "answered"
    /\ \/ Parses(run.payload) /\ Write(RefreshSnapshot(run.payload, CheckTime), "raw")
       \/ /\ ~Parses(run.payload) /\ run' = IdleRun
          /\ UNCHANGED <<shop, hashes, faults>>
    /\ UNCHANGED <<now, release, tables, sync, taken, page, asked>>

\* recordStorefrontExtras never fails the check.
RecordExtras ==
    /\ run.step \in {"raw", "enriched"}
    /\ LET c == run.c
           d == Day(run.checkedAt)
       IN \/ /\ shop' = [shop EXCEPT ![c][d] = [shop[c][d] EXCEPT
                    !.bundle = {Bundle(run.payload, CheckTime)},
                    !.market = NightMarket(run.payload, CheckTime)]]
             /\ UNCHANGED faults
          \/ Fault /\ UNCHANGED shop
    /\ run' = IF run.step = "raw" THEN [run EXCEPT !.step = "stored"] ELSE IdleRun
    /\ UNCHANGED <<now, release, tables, sync, taken, page, hashes, asked>>

\* The pipeline: every level of the offers must resolve, or the row stays raw.
Enrich ==
    /\ run.step = "stored"
    /\ \/ /\ OfferLevels(run.payload) \subseteq tables["skin_levels"]
          /\ Write(Canonical(run.payload, SkinOf, CheckTime), "enriched")
       \/ /\ ~(OfferLevels(run.payload) \subseteq tables["skin_levels"])
          /\ run' = IdleRun /\ UNCHANGED <<shop, hashes, faults>>
    /\ UNCHANGED <<now, release, tables, sync, taken, page, asked>>

-----------------------------------------------------------------------------
(* The dashboard's page load. *)

Newest(c) ==
    LET stored == {d \in Days : shop[c][d] # NoShop}
    IN  IF stored = {} THEN NoShop ELSE shop[c][Max(stored)]

\* The accounts and the newest check of each.
ReadChecks ==
    /\ PageLoads /\ page.step = "idle"
    /\ \/ /\ page' = [step |-> "levels", at |-> now,
                      checks |-> [c \in Connections |-> Newest(c)]]
          /\ UNCHANGED faults
       \/ page' = [step |-> "failed"] /\ Fault
    /\ UNCHANGED <<now, release, tables, sync, shop, run, taken, hashes, asked>>

Checked(p) == {p.checks[c] : c \in Connections} \ {NoShop}

SkinItems(b) == SelectSeq(b.items, LAMBDA i : i.skinType)

\* The level ids of the stored bundles and night markets.
ExtraLevels(p) ==
    UNION {UNION {{SkinItems(b)[i].id : i \in DOMAIN SkinItems(b)} : b \in k.bundle}
           \cup UNION {UNION {m.offers[i].levels : i \in DOMAIN m.offers} : m \in k.market} :
           k \in Checked(p)}

WithLevels(levels) ==
    [step |-> "skins", at |-> page.at, checks |-> page.checks, levels |-> levels]

\* Mutant: the strict resolver.
ReadLevelsStrict ==
    /\ page.step = "levels"
    /\ page' = IF ExtraLevels(page) \subseteq tables["skin_levels"]
               THEN WithLevels(ExtraLevels(page)) ELSE [step |-> "failed"]
    /\ UNCHANGED <<now, release, tables, sync, shop, run, taken, faults, hashes, asked>>

\* Best effort: what the catalog knows, and nothing at all on an error.
ReadLevels ==
    /\ page.step = "levels"
    /\ \/ /\ page' = WithLevels(ExtraLevels(page) \cap tables["skin_levels"])
          /\ UNCHANGED faults
       \/ page' = WithLevels({}) /\ Fault
    /\ UNCHANGED <<now, release, tables, sync, shop, run, taken, hashes, asked>>

\* Mutant: only the daily offers' skins are read.
WantedSkinsOfOffers(p) == UNION {k.skins : k \in Checked(p)}

WantedSkins(p) ==
    {SkinOf[l] : l \in p.levels} \cup UNION {k.skins : k \in Checked(p)}

\* The skins, then their weapon and tier names.
ReadSkins ==
    /\ page.step = "skins"
    /\ \/ /\ page' = [step |-> "names", at |-> page.at, checks |-> page.checks,
                      levels |-> page.levels,
                      skins |-> WantedSkins(page) \cap tables["skins"]]
          /\ UNCHANGED faults
       \/ page' = [step |-> "failed"] /\ Fault
    /\ UNCHANGED <<now, release, tables, sync, shop, run, taken, hashes, asked>>

\* The names of their weapons and tiers.
ReadNames ==
    /\ page.step = "names"
    /\ \/ /\ page' = [step |-> "metadata", at |-> page.at, checks |-> page.checks,
                      levels |-> page.levels, skins |-> page.skins,
                      tiers |-> {TierOf[s] : s \in page.skins} \cap tables["content_tiers"]]
          /\ UNCHANGED faults
       \/ page' = [step |-> "failed"] /\ Fault
    /\ UNCHANGED <<now, release, tables, sync, shop, run, taken, hashes, asked>>

\* The bundle's name and art from valorant-api, or none on any failure.
ReadMetadata ==
    /\ page.step = "metadata"
    /\ \E titled \in BOOLEAN :
          page' = [step |-> "shown", at |-> page.at, checks |-> page.checks,
                   levels |-> page.levels, skins |-> page.skins, tiers |-> page.tiers,
                   titled |-> titled]
    /\ UNCHANGED <<now, release, tables, sync, shop, run, taken, faults, hashes, asked>>

Leave ==
    /\ page.step \in {"shown", "failed"} /\ page' = IdlePage
    /\ UNCHANGED <<now, release, tables, sync, shop, run, taken, faults, hashes, asked>>

\* A tile has its skin's name once its first reward is resolved.
TileNamed(p, o) == Head(o.rewards).skin \in p.skins

\* The bundle's items that get a tile; the others are counted.
BundleTiles(p, b) == SelectSeq(b.items, LAMBDA i : i.id \in p.levels)

OtherItemCount(p, b) ==
    Len(b.items) - Len(SelectSeq(BundleTiles(p, b),
                                 LAMBDA i : SkinOf[i.id] \in p.skins))

\* Mutant: the column is trusted.
MarketShownStored(p, k) == {m \in k.market : m.offers # <<>>}

MarketShown(p, k) == {m \in k.market : m.expires > p.at /\ m.offers # <<>>}

-----------------------------------------------------------------------------

Next ==
    \/ Tick \/ Release
    \/ SyncStart \/ SyncFetch("weapons") \/ SyncFetch("tiers")
    \/ SyncTable \/ SyncWrite \/ SyncNext
    \/ \E c \in Connections, kind \in {"cron", "manual"} : Mark(c, kind)
    \/ Answer \/ RecordRaw \/ RecordExtras \/ Enrich
    \/ ReadChecks \/ ReadLevels \/ ReadSkins \/ ReadNames
    \/ ReadMetadata \/ Leave

Spec == Init /\ [][Next]_vars

-----------------------------------------------------------------------------
(* Properties. *)

Steps == {"idle", "fetching", "writing", "done", "failed", "marked", "answered",
          "raw", "stored", "enriched", "levels", "skins", "names", "metadata", "shown"}

\* Every component has the type its code gives it.
CatalogTypeOK ==
    /\ now \in 0..MaxNow /\ release \in 0..MaxRelease /\ faults \in 0..MaxFaults
    /\ tables["skins"] \subseteq Skins /\ tables["content_tiers"] \subseteq Tiers
    /\ tables["skin_levels"] \subseteq Levels /\ tables["skin_chromas"] \subseteq Skins
    /\ {sync.step, run.step, page.step} \subseteq Steps
    /\ \A c \in Connections, d \in Days :
          shop[c][d] # NoShop =>
             /\ shop[c][d].checkedAt \in 0..MaxNow
             /\ shop[c][d].of \in Days
             /\ shop[c][d].skins \subseteq Skins
             /\ \A i \in DOMAIN shop[c][d].offers :
                   \A j \in DOMAIN shop[c][d].offers[i].rewards :
                      shop[c][d].offers[i].rewards[j].skin \in Skins \cup {NoSkin}

HasShop(c, d) == shop[c][d] # NoShop

\* One rotation has one hash: whatever order Riot lists offers, prices and
\* rewards in, and however late in the rotation a check or its retry runs.
SameRotationSameHash ==
    \A c \in Connections, d \in Days : Cardinality(hashes[c][d]) <= 1

WithoutSkins(o) ==
    [o EXCEPT !.rewards = [j \in DOMAIN o.rewards |-> [o.rewards[j] EXCEPT !.skin = NoSkin]]]

\* A row, raw or enriched, describes the shop it was hashed from: enrichment
\* adds skins and moves, drops or reprices nothing.
EnrichedIsTheSnapshot ==
    \A c \in Connections, d \in Days :
       HasShop(c, d) =>
          shop[c][d].hash =
             <<[i \in DOMAIN shop[c][d].offers |-> WithoutSkins(shop[c][d].offers[i])]>>

\* No stored expiry is later than the end Riot counts down to, although the
\* countdown is read after the time it is added to.
ExpiryIsNotLate ==
    \A c \in Connections, d \in Days :
       HasShop(c, d) =>
          /\ shop[c][d].expires <= (shop[c][d].of + 1) * DayLength
          /\ \A b \in shop[c][d].bundle : b.expires <= BundleEnd
          /\ \A m \in shop[c][d].market : m.expires <= MarketEnd

\* A page opened after Riot closed the night market does not show it, however
\* old the newest stored check is.
MarketShownIsRunning ==
    page.step = "shown" =>
       \A k \in Checked(page) : MarketShown(page, k) # {} => page.at < MarketEnd

\* Gaps of a partly synced catalog never fail a page: only a failed query does.
GapsDoNotFailThePage == page.step = "failed" => faults > 0

\* What the catalog resolved is shown: levels are read before skins, and are
\* written after them, so a resolved level always finds its skin.
ResolvedIsShown ==
    page.step = "shown" =>
       /\ \A l \in page.levels : SkinOf[l] \in page.skins
       /\ \A k \in Checked(page), i \in 1..9 :
             i \in DOMAIN k.offers /\ k.skins # {} => TileNamed(page, k.offers[i])
       /\ \A s \in page.skins : TierOf[s] \in page.tiers

\* A sync fails only on a failed request or on a patch that came out between
\* its two requests; one that ends has written every row it fetched.
SyncCompletes ==
    /\ sync.step = "failed" => faults > 0 \/ sync.tiers < sync.weapons
    /\ sync.step = "done" =>
         \A t \in TableNames : Rows(t, sync.weapons, sync.tiers) \subseteq tables[t]

\* "one storefront request per connected account per UTC rotation", of the
\* automatic checks.
OneRequestPerRotation ==
    \A c \in Connections, d \in Days : asked[c][d] <= 1

\* "Items that are not weapon skins, e.g. buddies, sprays, and cards."
OtherItemsAreNotSkins ==
    page.step = "shown" =>
       \A k \in Checked(page) : \A b \in k.bundle :
          OtherItemCount(page, b) = Len(b.items) - Len(SkinItems(b))

\* "Valorant Points. Other currencies are promotional and are not shown."
OnlyPointsAreShown ==
    \A c \in Connections, d \in Days :
       HasShop(c, d) => \A i \in DOMAIN shop[c][d].offers :
          LET o == shop[c][d].offers[i]
          IN  \A price \in {TilePrice(o)} \cup
                    {EmailPrice(shop[c][d], o.rewards[1].skin) : x \in shop[c][d].skins} :
                 \E k \in Range(o.costs) : k.currency = VP /\ k.amount = price

\* "a wrong guess here must degrade to 'no night market shown', not fail the
\* daily check": an answer whose daily offers are valid is parsed.
BonusNeverFailsTheCheck == run.step = "answered" => Parses(run.payload)
=============================================================================
