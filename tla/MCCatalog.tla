------------------------------ MODULE MCCatalog -------------------------------
(* Small instances, for one run of TLC, of the storefront's data and of the *)
(* watchlist.  As in MCFlows a behaviour belongs to one flow and the other  *)
(* component stays idle.                                                    *)
EXTENDS StorefrontCatalog

CONSTANTS account, other, lower, upper, phone, laptop, Flows, Null

VARIABLES flow, rows, tab, requests, left, sent, load, dirty

catalog == <<now, release, tables, sync, shop, run, taken, page, hashes, asked>>
watch == <<rows, tab, requests, left, sent, load, dirty>>
all == <<flow, catalog, watch, faults>>

Cost(k, a) == [currency |-> k, amount |-> a]
Reward(l) == [level |-> l, quantity |-> 1, skinType |-> TRUE]
Offer(id, costs, rewards) == [id |-> id, costs |-> costs, rewards |-> rewards]

\* Two offers that share an id and differ in price, one of them with two
\* currencies and two rewards; VP is currency 2.
TwinOffers == <<Offer(1, <<Cost(2, 5), Cost(3, 7)>>, <<Reward(11), Reward(12)>>),
                Offer(1, <<Cost(2, 4)>>, <<Reward(21)>>)>>
PlainOffers == <<Offer(1, <<Cost(2, 5)>>, <<Reward(11)>>),
                 Offer(2, <<Cost(2, 4)>>, <<Reward(21)>>)>>

TwinRotation == [c \in {account} |-> [d \in 0..9 |->
                   IF d = 0 THEN TwinOffers ELSE PlainOffers]]
PlainRotation == [c \in {account} |-> [d \in 0..9 |-> PlainOffers]]

\* The skin level 21, which comes with the second release, and a spray.
SmallBundle == <<[id |-> 21, skinType |-> TRUE], [id |-> 90, skinType |-> FALSE]>>
SmallMarket == <<[id |-> 5, discounted |-> <<Cost(2, 3)>>, rewards |-> <<Reward(11)>>]>>

LevelSkin == [l \in {11, 12, 21} |-> IF l = 21 THEN 2 ELSE 1]
SkinTier == [s \in {1, 2} |-> IF s = 1 THEN lower ELSE upper]
FirstSeen == [x \in {1, 2, lower, upper} |-> IF x \in {1, lower} THEN 0 ELSE 1]
AllSeen == [x \in {1, 2, lower, upper} |-> 0]

\* Two syncs, a patch and a page load beside a check; and pages that are opened
\* late after a check, over a catalog that was never filled.  The module's own
\* constants are for checks and retries over two days.
Patches == INSTANCE CatalogProofs
    WITH Since <- FirstSeen, PageLoads <- TRUE, MaxNow <- 1, MaxRelease <- 1,
         Rotation <- PlainRotation, Shapes <- {"market"}, BatchSize <- 1,
         MaxSyncs <- 2, MaxFaults <- 0
Pages == INSTANCE CatalogProofs
    WITH Since <- FirstSeen, PageLoads <- TRUE, MarketEnd <- 2,
         Rotation <- PlainRotation, Shapes <- {"absent", "market"},
         BatchSize <- 1, MaxSyncs <- 0, MaxFaults <- 0

\* Two tabs with two cards each; the paged loads of one account of three rows;
\* and one load while a tab changes another account.
Cards == INSTANCE WatchlistProofs
    WITH Tabs <- {phone, laptop}, Connections <- {account}, Skins <- {1, 2},
         ShopSkins <- {1, 2}, Loaders <- {}, PageSize <- 1, MaxWrites <- 3,
         MaxFaults <- 1
Loads == INSTANCE WatchlistProofs
    WITH Tabs <- {phone}, Connections <- {account}, Skins <- {1, 2, 3},
         ShopSkins <- {1, 2}, Loaders <- {"worker", "inventory"}, PageSize <- 1,
         MaxWrites <- 2, MaxFaults <- 0
TwoAccounts == INSTANCE WatchlistProofs
    WITH Tabs <- {phone}, Connections <- {account, other}, Skins <- {1, 2},
         ShopSkins <- {1, 2}, Loaders <- {"worker"}, PageSize <- 1,
         MaxWrites <- 2, MaxFaults <- 0

ASSUME FlowsAssumption ==
    /\ Patches!ConstantsFit /\ Pages!ConstantsFit
    /\ Cards!ConstantsFit /\ Loads!ConstantsFit /\ TwoAccounts!ConstantsFit

NoCatalog == /\ now = Null /\ release = Null /\ tables = Null /\ sync = Null
             /\ shop = Null /\ run = Null /\ taken = Null /\ page = Null
             /\ hashes = Null /\ asked = Null
NoWatch == /\ rows = Null /\ tab = Null /\ requests = Null /\ left = Null
           /\ sent = Null /\ load = Null /\ dirty = Null

FlowsInit ==
    /\ flow \in Flows
    /\ faults = 0
    /\ CASE flow = "shops" -> Init
         [] flow = "patches" -> Patches!Init
         [] flow = "pages" -> Pages!Init
         [] OTHER -> NoCatalog
    /\ CASE flow = "cards" -> Cards!Init
         [] flow = "loads" -> Loads!Init
         [] flow = "accounts" -> TwoAccounts!Init
         [] OTHER -> NoWatch

InCatalog(f, A) == flow = f /\ A /\ UNCHANGED <<flow, watch>>
InWatch(f, A) == flow = f /\ A /\ UNCHANGED <<flow, catalog>>

\* The two readers never see each other: their loads need not overlap.
OneLoads == load["worker"].step # "page" \/ load["inventory"].step # "page"

FlowsNext ==
    \/ InCatalog("shops", Next)
    \/ InCatalog("patches", Patches!Next) \/ InCatalog("pages", Pages!Next)
    \/ InWatch("cards", Cards!Next) \/ InWatch("loads", Loads!Next /\ OneLoads')
    \/ InWatch("accounts", TwoAccounts!Next)

FlowsSpec == FlowsInit /\ [][FlowsNext]_all

-----------------------------------------------------------------------------
(* The components' properties, each in the flow it belongs to.              *)

\* The tables are well typed and what is stored is Riot's shop: one rotation has
\* one hash, whatever order and time Riot answers in, enrichment adds skins and
\* moves, drops or reprices nothing, and no stored expiry is later than the end
\* Riot counts down to.
StoredShopIsRiots ==
    flow = "shops" => /\ CatalogTypeOK
                      /\ SameRotationSameHash /\ EnrichedIsTheSnapshot /\ ExpiryIsNotLate

\* A sync fails only on a request, or on a patch between its two requests; the
\* gaps it leaves never fail a page, what it resolved is shown, and a page
\* opened after Riot closed the night market does not show it.
PagesShowTheCatalog ==
    /\ flow = "patches" => /\ Patches!SyncCompletes
                           /\ Patches!GapsDoNotFailThePage
                           /\ Patches!ResolvedIsShown
    /\ flow = "pages" => Pages!MarketShownIsRunning

\* A card at rest shows its row, and no row is stored twice.
CardIsTruth == flow = "cards" => Cards!WatchTypeOK /\ Cards!CardIsTruth

\* A load misses at most as many of the skins watched when it began as rows were
\* removed while it ran, and an email is planned only for a skin watched on this
\* very account.
LoadsAreExact == /\ flow = "loads" => Loads!LoadMissesNothing
                 /\ flow = "accounts" => TwoAccounts!PlannedIsWatched

Symmetry == Permutations({phone, laptop})
=============================================================================
