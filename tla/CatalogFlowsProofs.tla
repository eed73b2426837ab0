-------------------------- MODULE CatalogFlowsProofs --------------------------
(***************************************************************************)
(* The instances of MCCatalog: a behaviour stays in the flow it starts in, *)
(* and there it is a behaviour of that flow's component, whose theorems    *)
(* hold of it.                                                             *)
(***************************************************************************)
EXTENDS MCCatalog, CatalogProofs

InFlow(f) == flow = f

LEMMA FlowStays ==
    ASSUME [FlowsNext]_all, NEW f
    PROVE  InFlow(f)' <=> InFlow(f)
BY DEF FlowsNext, InCatalog, InWatch, all, InFlow

LEMMA ShopsFlow ==
    /\ FlowsSpec => []InFlow("shops") \/ []~InFlow("shops")
    /\ FlowsSpec /\ InFlow("shops") => Spec
<1>1. InFlow("shops") /\ [FlowsNext]_all => InFlow("shops")'
    BY FlowStays
<1>2. ~InFlow("shops") /\ [FlowsNext]_all => ~InFlow("shops")'
    BY FlowStays
<1>3. FlowsInit /\ InFlow("shops") => Init
    BY DEF FlowsInit, InFlow
<1>4. InFlow("shops") /\ [FlowsNext]_all => [Next]_vars
    BY DEF FlowsNext, InCatalog, InWatch, all, catalog, InFlow, vars
<1> QED
    BY <1>1, <1>2, <1>3, <1>4, PTL DEF FlowsSpec, Spec

LEMMA PatchesFlow ==
    /\ FlowsSpec => []InFlow("patches") \/ []~InFlow("patches")
    /\ FlowsSpec /\ InFlow("patches") => Patches!Spec
<1>1. InFlow("patches") /\ [FlowsNext]_all => InFlow("patches")'
    BY FlowStays
<1>2. ~InFlow("patches") /\ [FlowsNext]_all => ~InFlow("patches")'
    BY FlowStays
<1>3. FlowsInit /\ InFlow("patches") => Patches!Init
    BY DEF FlowsInit, InFlow
<1>4. InFlow("patches") /\ [FlowsNext]_all => [Patches!Next]_(Patches!vars)
    BY DEF FlowsNext, InCatalog, InWatch, all, catalog, InFlow, Patches!vars
<1> QED
    BY <1>1, <1>2, <1>3, <1>4, PTL DEF FlowsSpec, Patches!Spec

LEMMA PagesFlow ==
    /\ FlowsSpec => []InFlow("pages") \/ []~InFlow("pages")
    /\ FlowsSpec /\ InFlow("pages") => Pages!Spec
<1>1. InFlow("pages") /\ [FlowsNext]_all => InFlow("pages")'
    BY FlowStays
<1>2. ~InFlow("pages") /\ [FlowsNext]_all => ~InFlow("pages")'
    BY FlowStays
<1>3. FlowsInit /\ InFlow("pages") => Pages!Init
    BY DEF FlowsInit, InFlow
<1>4. InFlow("pages") /\ [FlowsNext]_all => [Pages!Next]_(Pages!vars)
    BY DEF FlowsNext, InCatalog, InWatch, all, catalog, InFlow, Pages!vars
<1> QED
    BY <1>1, <1>2, <1>3, <1>4, PTL DEF FlowsSpec, Pages!Spec

LEMMA CardsFlow ==
    /\ FlowsSpec => []InFlow("cards") \/ []~InFlow("cards")
    /\ FlowsSpec /\ InFlow("cards") => Cards!Spec
<1>1. InFlow("cards") /\ [FlowsNext]_all => InFlow("cards")'
    BY FlowStays
<1>2. ~InFlow("cards") /\ [FlowsNext]_all => ~InFlow("cards")'
    BY FlowStays
<1>3. FlowsInit /\ InFlow("cards") => Cards!Init
    BY DEF FlowsInit, InFlow
<1>4. InFlow("cards") /\ [FlowsNext]_all => [Cards!Next]_(Cards!vars)
    BY DEF FlowsNext, InCatalog, InWatch, all, watch, InFlow, Cards!vars
<1> QED
    BY <1>1, <1>2, <1>3, <1>4, PTL DEF FlowsSpec, Cards!Spec

LEMMA LoadsFlow ==
    /\ FlowsSpec => []InFlow("loads") \/ []~InFlow("loads")
    /\ FlowsSpec /\ InFlow("loads") => Loads!Spec
<1>1. InFlow("loads") /\ [FlowsNext]_all => InFlow("loads")'
    BY FlowStays
<1>2. ~InFlow("loads") /\ [FlowsNext]_all => ~InFlow("loads")'
    BY FlowStays
<1>3. FlowsInit /\ InFlow("loads") => Loads!Init
    BY DEF FlowsInit, InFlow
<1>4. InFlow("loads") /\ [FlowsNext]_all => [Loads!Next]_(Loads!vars)
    BY DEF FlowsNext, InCatalog, InWatch, all, watch, InFlow, Loads!vars
<1> QED
    BY <1>1, <1>2, <1>3, <1>4, PTL DEF FlowsSpec, Loads!Spec

LEMMA AccountsFlow ==
    /\ FlowsSpec => []InFlow("accounts") \/ []~InFlow("accounts")
    /\ FlowsSpec /\ InFlow("accounts") => TwoAccounts!Spec
<1>1. InFlow("accounts") /\ [FlowsNext]_all => InFlow("accounts")'
    BY FlowStays
<1>2. ~InFlow("accounts") /\ [FlowsNext]_all => ~InFlow("accounts")'
    BY FlowStays
<1>3. FlowsInit /\ InFlow("accounts") => TwoAccounts!Init
    BY DEF FlowsInit, InFlow
<1>4. InFlow("accounts") /\ [FlowsNext]_all => [TwoAccounts!Next]_(TwoAccounts!vars)
    BY DEF FlowsNext, InCatalog, InWatch, all, watch, InFlow, TwoAccounts!vars
<1> QED
    BY <1>1, <1>2, <1>3, <1>4, PTL DEF FlowsSpec, TwoAccounts!Spec

\* In the tabs of one login a card at rest shows the row its last toggle wrote,
\* whatever toggles of other tabs, failures and remounts came before.
THEOREM CardsShowTheRows == FlowsSpec => []CardIsTruth
<1>1. /\ Cards!Spec => []Cards!WatchTypeOK
      /\ Cards!Spec => []Cards!CardIsTruth
    BY FlowsAssumption, Cards!WatchTypeCorrect, Cards!CardsAreTrue
<1>2. ASSUME InFlow("cards") => Cards!WatchTypeOK /\ Cards!CardIsTruth
      PROVE  CardIsTruth
    BY <1>2 DEF CardIsTruth, InFlow
<1> QED
    BY <1>1, <1>2, CardsFlow, PTL

\* The two paged readers miss at most as many of the rows that were there when
\* they began as are deleted meanwhile, and what the worker plans was watched on
\* that account.
THEOREM LoadsMissNothing == FlowsSpec => []LoadsAreExact
<1>1. Loads!Spec => []Loads!LoadMissesNothing
    BY FlowsAssumption, Loads!LoadsAreComplete
<1>2. TwoAccounts!Spec => []TwoAccounts!PlannedIsWatched
    BY FlowsAssumption, TwoAccounts!PlansAreWatched
<1>3. ASSUME InFlow("loads") => Loads!LoadMissesNothing,
             InFlow("accounts") => TwoAccounts!PlannedIsWatched
      PROVE  LoadsAreExact
    BY <1>3 DEF LoadsAreExact, InFlow
<1> QED
    BY <1>1, <1>2, <1>3, LoadsFlow, AccountsFlow, PTL

\* What a check stores is Riot's shop of one rotation: however the answer is
\* ordered and however late it comes, one hash, no offer changed by enrichment
\* and no expiry after Riot's.
THEOREM StoredShopsAreRiots == FlowsSpec => []StoredShopIsRiots
<1>1. ASSUME InFlow("shops") => /\ CatalogTypeOK /\ SameRotationSameHash
                                /\ EnrichedIsTheSnapshot /\ ExpiryIsNotLate
      PROVE  StoredShopIsRiots
    BY <1>1 DEF StoredShopIsRiots, InFlow
<1> QED
    BY <1>1, ShopsFlow, CatalogTypeCorrect, OneHash, EnrichmentAddsSkins, ExpiriesAreNotLate, PTL

\* Beside patches, syncs and gaps: a sync that ends is complete, a page fails
\* only on a query, what the catalog resolved is on it, and a night market that
\* Riot closed is not.
THEOREM PagesAreTrue == FlowsSpec => []PagesShowTheCatalog
<1>1. /\ Patches!Spec => []Patches!SyncCompletes
      /\ Patches!Spec => []Patches!GapsDoNotFailThePage
      /\ Patches!Spec => []Patches!ResolvedIsShown
    BY FlowsAssumption, Patches!SyncsComplete, Patches!GapsNeverFail, Patches!ResolvedSkinsShow
<1>2. Pages!Spec => []Pages!MarketShownIsRunning
    BY FlowsAssumption, Pages!ShownMarketsRun
<1>3. ASSUME /\ InFlow("patches") => /\ Patches!SyncCompletes /\ Patches!GapsDoNotFailThePage
                                      /\ Patches!ResolvedIsShown
             /\ InFlow("pages") => Pages!MarketShownIsRunning
      PROVE  PagesShowTheCatalog
    BY <1>3 DEF PagesShowTheCatalog, InFlow
<1> QED
    BY <1>1, <1>2, <1>3, PatchesFlow, PagesFlow, PTL
=============================================================================
