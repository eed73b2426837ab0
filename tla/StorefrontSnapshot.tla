-------------------------- MODULE StorefrontSnapshot --------------------------
(***************************************************************************)
(* The pure part of the storefront pipeline: what a schema-valid payload   *)
(* of Riot becomes before it is stored, hashed, matched with a watchlist   *)
(* and priced (canonicalize.ts, schema.ts, match.ts, pipeline.ts).         *)
(*                                                                         *)
(* Identifiers and currencies are naturals, so that they can be sorted.    *)
(* A cost list keeps the order in which the payload lists the currencies;  *)
(* the skins of a shop, which nobody reads in order, are a set.            *)
(***************************************************************************)
EXTENDS Integers, Sequences, FiniteSets, SequencesExt

CONSTANTS
    VP,             \* VP_CURRENCY_UUID
    NoSkin, NoPrice \* null

\* The four states of BonusStore: Riot sends it only while a night market runs.
BonusKinds == {"absent", "null", "malformed", "market"}

-----------------------------------------------------------------------------
(* Sorting. *)

\* Array.prototype.sort, which is stable.  Of two positions the first goes ahead
\* if its element compares as smaller or, when neither does, if it is earlier;
\* an element's place is the number of those up to it.
Positions(seq, Before(_, _)) ==
    {q \in (DOMAIN seq) \X (DOMAIN seq) : Before(seq[q[1]], seq[q[2]])}

Ahead(before, i, j) == <<i, j>> \in before \/ (<<j, i>> \notin before /\ i < j)

Place(D, before, i) == Cardinality({j \in D : j = i \/ Ahead(before, j, i)})

Sorted(seq, before) ==
    [k \in DOMAIN seq |-> seq[CHOOSE i \in DOMAIN seq : Place(DOMAIN seq, before, i) = k]]

SortBy(seq, Before(_, _)) == Sorted(seq, Positions(seq, Before))

\* JSON.stringify of an offer orders offers that share an id; any order that
\* tells different offers apart does.
PairBefore(p, q) == p[1] < q[1] \/ (p[1] = q[1] /\ p[2] < q[2])

KeyBefore(s, t) ==
    \E i \in 1..Len(t) :
       /\ i - 1 <= Len(s) /\ \A j \in 1..(i - 1) : s[j] = t[j]
       /\ i > Len(s) \/ PairBefore(s[i], t[i])

CostKey(o) == [i \in DOMAIN o.costs |-> <<o.costs[i].currency, o.costs[i].amount>>]
RewardKey(o) == [i \in DOMAIN o.rewards |-> <<o.rewards[i].level, o.rewards[i].quantity>>]

CostBefore(a, b) == a.currency < b.currency

RewardBefore(a, b) ==
    a.level < b.level \/ (a.level = b.level /\ a.quantity < b.quantity)

\* Bundle items and market offers are sorted by their ids alone.
OfferBeforeById(a, b) == a.id < b.id

OfferBefore(a, b) ==
    \/ a.id < b.id
    \/ a.id = b.id /\ KeyBefore(CostKey(a), CostKey(b))
    \/ a.id = b.id /\ CostKey(a) = CostKey(b) /\ KeyBefore(RewardKey(a), RewardKey(b))

-----------------------------------------------------------------------------
(* The snapshot. *)

\* One offer: the catalog-independent part of what Riot sends, in order.
SnapshotOffer(o) ==
    [id |-> o.id, costs |-> SortBy(o.costs, CostBefore),
     rewards |-> SortBy([j \in DOMAIN o.rewards |->
                           [level |-> o.rewards[j].level, quantity |-> o.rewards[j].quantity,
                            skin |-> NoSkin]], RewardBefore)]

SnapshotOffers(payload) ==
    SortBy([i \in DOMAIN payload.offers |-> SnapshotOffer(payload.offers[i])], OfferBefore)

\* Valorant Points if the price lists them, else the first currency listed.
PreferredAmount(costs) ==
    LET vp == SelectSeq(costs, LAMBDA k : k.currency = VP)
    IN  IF vp # <<>> THEN Head(vp).amount
        ELSE IF costs # <<>> THEN Head(costs).amount ELSE NoPrice

\* The whole payload is refused when a modelled part does not fit; a present
\* BonusStore is taken whatever its shape, except null.
Parses(payload) == payload.bonus # "null"

\* parseNightMarketPayload and createNightMarketSnapshot: out of band, and no
\* market at all rather than a failed check.
NightMarket(payload, checkedAt) ==
    IF payload.bonus = "market"
    THEN {[expires |-> checkedAt + payload.market.remaining,
           offers |-> SortBy([i \in DOMAIN payload.market.offers |->
                        LET b == payload.market.offers[i]
                            lv == SelectSeq(b.rewards, LAMBDA r : r.skinType)
                        IN  [id |-> b.id, price |-> PreferredAmount(b.discounted),
                             levels |-> IF lv = <<>> THEN {} ELSE {Head(lv).level}]],
                        OfferBeforeById)]}
    ELSE {}

Bundle(payload, checkedAt) ==
    LET b == payload.bundle
    IN  [asset |-> b.asset,
         expires |-> checkedAt + (IF b.outer # 0 THEN b.outer ELSE b.inner),
         items |-> SortBy(b.items, OfferBeforeById),
         total |-> PreferredAmount(b.cost)]

\* createStorefrontRefreshSnapshot. SHA-256 over the offers is the offers.
RefreshSnapshot(payload, checkedAt) ==
    LET offers == SnapshotOffers(payload)
    IN  [checkedAt |-> checkedAt, offers |-> offers, skins |-> {},
         hash |-> <<offers>>,
         expires |-> checkedAt + payload.remaining,
         bundle |-> Bundle(payload, checkedAt),
         market |-> NightMarket(payload, checkedAt)]

OfferLevels(payload) ==
    UNION {{payload.offers[i].rewards[j].level :
              j \in DOMAIN payload.offers[i].rewards} :
           i \in DOMAIN payload.offers}

\* An offer with the skins its levels resolve to.
WithSkins(o, skinOf) ==
    [id |-> o.id, costs |-> o.costs,
     rewards |-> [j \in DOMAIN o.rewards |->
                    [level |-> o.rewards[j].level, quantity |-> o.rewards[j].quantity,
                     skin |-> skinOf[o.rewards[j].level]]]]

\* Mutant: the skins are put on Riot's offers and those are stored.
CanonicalUnsorted(payload, skinOf, checkedAt) ==
    [RefreshSnapshot(payload, checkedAt) EXCEPT
       !.offers = [i \in DOMAIN payload.offers |-> WithSkins(payload.offers[i], skinOf)],
       !.skins = {skinOf[l] : l \in OfferLevels(payload)}]

\* canonicalizeStorefront. skinOf is defined on every level of the offers.
Canonical(payload, skinOf, checkedAt) ==
    LET raw == RefreshSnapshot(payload, checkedAt)
    IN  [raw EXCEPT
           !.offers = [i \in DOMAIN raw.offers |-> WithSkins(raw.offers[i], skinOf)],
           !.skins = {skinOf[l] : l \in OfferLevels(payload)}]

-----------------------------------------------------------------------------
(* The readers of a snapshot. *)

OffersOf(shop, skin) ==
    SelectSeq(shop.offers,
              LAMBDA o : \E j \in DOMAIN o.rewards : o.rewards[j].skin = skin)

\* matchStorefrontWatchlist: the skins of the shop that are watched.
Matches(shop, watched) == shop.skins \cap watched

\* The price in the email for a matched skin.
EmailPrice(shop, skin) ==
    LET offers == OffersOf(shop, skin)
    IN  PreferredAmount(FlattenSeq([i \in DOMAIN offers |-> offers[i].costs]))

\* The price on the dashboard's tile for an offer.
TilePrice(offer) ==
    IF offer.costs = <<>> THEN NoPrice ELSE Head(offer.costs).amount
=============================================================================
