------------------------------- MODULE Watchlist ------------------------------
(***************************************************************************)
(* The watchlist of one login: skin cards in browser tabs that toggle      *)
(* their row optimistically and roll back, the server action that writes   *)
(* the row, and the two readers that load an account's rows a page at a    *)
(* time while they change - the worker, which plans the emails, and the    *)
(* inventory.                                                              *)
(*                                                                         *)
(* A tab sends its actions one after another, as the framework does.  One  *)
(* whose page is left is dropped or goes on unheard.                       *)
(***************************************************************************)
EXTENDS StorefrontSnapshot

CONSTANTS
    Tabs, Connections,
    Skins,          \* of the weapon the tabs show
    ShopSkins,      \* the skins of today's shop
    PageSize,
    Loaders,        \* the paged readers at work: "worker", "inventory"
    MaxWrites, MaxFaults    \* bounds: toggles, failures

\* What the constants have to satisfy.
ConstantsFit ==
    /\ IsFiniteSet(Skins)
    /\ PageSize \in Nat \ {0} /\ MaxWrites \in Nat /\ MaxFaults \in Nat

VARIABLES
    rows,       \* rows[c]: the skins watched on account c, oldest first
    tab,        \* the inventory page in each tab
    requests,   \* the actions under way
    left,       \* those whose page has been left
    sent,       \* toggles so far
    load,       \* the two paged loads
    faults,
    dirty       \* history: cards that were told nothing of what changed their row

vars == <<rows, tab, requests, left, sent, load, faults, dirty>>

NoPage == [step |-> "closed"]
IdleLoad == [step |-> "idle"]

Init ==
    /\ rows \in [Connections -> {<<>>, SetToSeq(Skins)}]
    /\ tab = [t \in Tabs |-> NoPage]
    /\ requests = {} /\ left = {} /\ sent = 0 /\ faults = 0
    /\ load = [k \in Loaders |-> IdleLoad]
    /\ dirty = [t \in Tabs |-> {}]

Fault == faults < MaxFaults /\ faults' = faults + 1

-----------------------------------------------------------------------------
(* The page and its cards. *)

\* loadWeaponSkins: the rows that are watched when the query runs.
ReadPage(t, c) ==
    /\ tab[t].step = "closed"
    /\ tab' = [tab EXCEPT ![t] = [step |-> "loading", c |-> c, props |-> Range(rows[c])]]
    /\ dirty' = [dirty EXCEPT ![t] = {}]
    /\ UNCHANGED <<rows, requests, left, sent, load, faults>>

\* A card that is mounted starts from the watched state it is given.
NewCard(s, props) == [on |-> s \in props, pending |-> FALSE, failed |-> FALSE,
                      mounted |-> TRUE, last |-> 0]

ShowPage(t) ==
    /\ tab[t].step = "loading"
    /\ tab' = [tab EXCEPT ![t] =
                 [step |-> "shown", c |-> tab[t].c, props |-> tab[t].props,
                  card |-> [s \in Skins |-> NewCard(s, tab[t].props)]]]
    /\ UNCHANGED <<rows, requests, left, sent, load, faults, dirty>>

Idle(t, s) ==
    tab[t].step = "shown" /\ tab[t].card[s].mounted /\ ~tab[t].card[s].pending

\* toggleWatched, up to its await.
Toggle(t, s) ==
    /\ Idle(t, s) /\ sent < MaxWrites
    /\ sent' = sent + 1
    /\ LET want == ~tab[t].card[s].on
       IN  /\ tab' = [tab EXCEPT ![t].card[s] =
                        [@ EXCEPT !.on = want, !.pending = TRUE, !.failed = FALSE,
                                  !.last = sent + 1]]
           /\ requests' = requests \cup
                {[id |-> sent + 1, t |-> t, c |-> tab[t].c, s |-> s, want |-> want,
                  step |-> "sent"]}
    /\ UNCHANGED <<rows, left, load, faults, dirty>>

\* The search or an edition chip takes the card away ...
Hide(t, s) ==
    /\ tab[t].step = "shown" /\ tab[t].card[s].mounted
    /\ tab' = [tab EXCEPT ![t].card[s].mounted = FALSE]
    /\ UNCHANGED <<rows, requests, left, sent, load, faults, dirty>>

\* ... and shows it again: a new card, which knows nothing of an old request.
Reveal(t, s) ==
    /\ tab[t].step = "shown" /\ ~tab[t].card[s].mounted
    /\ tab' = [tab EXCEPT ![t].card[s] = NewCard(s, tab[t].props)]
    /\ dirty' = IF \E r \in requests : r.t = t /\ r.s = s
                THEN [dirty EXCEPT ![t] = @ \cup {s}] ELSE dirty
    /\ UNCHANGED <<rows, requests, left, sent, load, faults>>

\* The page is left.  Its actions are heard of no more; what is not written yet
\* may still arrive.
ClosePage(t) ==
    /\ tab[t].step = "shown"
    /\ tab' = [tab EXCEPT ![t] = NoPage]
    /\ requests' = {r \in requests : r.t # t}
    /\ \E kept \in SUBSET {r \in requests : r.t = t /\ r.step = "sent"} :
          left' = left \cup kept
    /\ UNCHANGED <<rows, sent, load, faults, dirty>>

-----------------------------------------------------------------------------
(* setSkinWatched. *)

First(r) == \A q \in requests : q.t = r.t => q.id >= r.id

Written(r) ==
    IF r.want
    THEN IF r.s \in Range(rows[r.c]) THEN rows[r.c] ELSE Append(rows[r.c], r.s)
    ELSE RemoveFirst(rows[r.c], r.s)

\* Rows and skins the loads have to know of.
Noticed(r) ==
    [k \in Loaders |->
       IF load[k].step = "page" /\ load[k].c = r.c
       THEN [load[k] EXCEPT
               !.removed = IF ~r.want /\ r.s \in Range(rows[r.c]) THEN @ + 1 ELSE @,
               !.seen = IF r.want THEN @ \cup {r.s} ELSE @]
       ELSE load[k]]

\* The pages of the account that are not told of a write.
Elsewhere(r, told) ==
    [t \in Tabs |-> IF t \notin told /\ tab[t].step # "closed" /\ tab[t].c = r.c
                    THEN dirty[t] \cup {r.s} ELSE dirty[t]]

\* The upsert that ignores duplicates, or the delete; or a failed one.
WriteRow(r) ==
    /\ r.step = "sent" /\ First(r)
    /\ \/ /\ rows' = [rows EXCEPT ![r.c] = Written(r)]
          /\ requests' = (requests \ {r}) \cup {[r EXCEPT !.step = "saved"]}
          /\ load' = Noticed(r) /\ dirty' = Elsewhere(r, {r.t}) /\ UNCHANGED faults
       \/ /\ requests' = (requests \ {r}) \cup {[r EXCEPT !.step = "refused"]}
          /\ Fault /\ UNCHANGED <<rows, load, dirty>>
    /\ UNCHANGED <<tab, left, sent>>

\* An action whose page was left is written, and no page is told.
WriteLeft(r) ==
    /\ rows' = [rows EXCEPT ![r.c] = Written(r)]
    /\ left' = left \ {r}
    /\ load' = Noticed(r) /\ dirty' = Elsewhere(r, {})
    /\ UNCHANGED <<tab, requests, sent, faults>>

IsCardOf(r) ==
    /\ tab[r.t].step = "shown" /\ tab[r.t].card[r.s].mounted
    /\ tab[r.t].card[r.s].last = r.id

\* The rest of toggleWatched: a failure is rolled back and told.
Settled(card, r, ok) ==
    [card EXCEPT !.pending = FALSE, !.failed = ~ok,
                 !.on = IF ok THEN @ ELSE ~r.want]

\* Mutant: the page is not revalidated.
FreshStale(r) == tab[r.t].props

\* revalidatePath: the answer carries the page's new rows.
Fresh(r) == Range(rows[tab[r.t].c])

\* The answer of the action, to the card if it is still the one that asked.
Answer(r) ==
    /\ r.step \in {"saved", "refused"}
    /\ requests' = requests \ {r}
    /\ tab' = [tab EXCEPT
                 ![r.t].props = IF r.step = "saved" THEN Fresh(r) ELSE @,
                 ![r.t].card[r.s] = IF IsCardOf(r) THEN Settled(@, r, r.step = "saved")
                                    ELSE @]
    /\ UNCHANGED <<rows, left, sent, load, faults, dirty>>

\* The answer is lost on the way.
LoseAnswer(r) ==
    /\ r.step = "saved" /\ Fault
    /\ requests' = requests \ {r}
    /\ tab' = [tab EXCEPT ![r.t].card[r.s] =
                 IF IsCardOf(r) THEN Settled(@, r, FALSE) ELSE @]
    /\ dirty' = [dirty EXCEPT ![r.t] = @ \cup {r.s}]
    /\ UNCHANGED <<rows, left, sent, load>>

-----------------------------------------------------------------------------
(* The paged loads. *)

\* Mutant: every account of the login.
RowsOfLogin(k, c) == FlattenSeq(SetToSeq({rows[d] : d \in Connections}))

\* The worker reads oldest first, the inventory newest first; the inventory has
\* no second sort key, but rows inserted one at a time have distinct times.
RowsOf(k, c) == IF k = "worker" THEN rows[c] ELSE Reverse(rows[c])

LoadStart(k, c) ==
    /\ load[k].step \in {"idle", "done"}
    /\ load' = [load EXCEPT ![k] =
                  [step |-> "page", c |-> c, offset |-> 0, got |-> {},
                   from |-> Range(rows[c]), removed |-> 0, seen |-> Range(rows[c])]]
    /\ UNCHANGED <<rows, tab, requests, left, sent, faults, dirty>>

\* Mutant: a full page ends the load.
LastPageFull(page) == Len(page) <= PageSize

LastPage(page) == Len(page) < PageSize

LoadPage(k) ==
    /\ load[k].step = "page"
    /\ \/ LET all == RowsOf(k, load[k].c)
              page == SubSeq(all, load[k].offset + 1,
                             Min({load[k].offset + PageSize, Len(all)}))
          IN  /\ load' = [load EXCEPT ![k] =
                            [load[k] EXCEPT
                               !.got = @ \cup Range(page), !.offset = @ + PageSize,
                               !.step = IF LastPage(page) THEN "done" ELSE "page"]]
              /\ UNCHANGED faults
       \/ load' = [load EXCEPT ![k] = IdleLoad] /\ Fault
    /\ UNCHANGED <<rows, tab, requests, left, sent, dirty>>

\* The emails planned from the worker's load.
Planned == Matches([skins |-> ShopSkins], load["worker"].got)

-----------------------------------------------------------------------------

Next ==
    \/ \E t \in Tabs : ShowPage(t) \/ ClosePage(t)
    \/ \E t \in Tabs, c \in Connections : ReadPage(t, c)
    \/ \E t \in Tabs, s \in Skins : Toggle(t, s) \/ Hide(t, s) \/ Reveal(t, s)
    \/ \E r \in requests : WriteRow(r) \/ Answer(r) \/ LoseAnswer(r)
    \/ \E r \in left : WriteLeft(r)
    \/ \E k \in Loaders : LoadPage(k) \/ \E c \in Connections : LoadStart(k, c)

Spec == Init /\ [][Next]_vars

-----------------------------------------------------------------------------
(* Properties. *)

\* Every component has the type its code gives it; no row is stored twice.
WatchTypeOK ==
    /\ \A c \in Connections :
         /\ Range(rows[c]) \subseteq Skins
         /\ Cardinality(Range(rows[c])) = Len(rows[c])
    /\ sent \in 0..MaxWrites /\ faults \in 0..MaxFaults
    /\ \A t \in Tabs : tab[t].step = "shown" =>
         \A s \in Skins : tab[t].card[s].on \in BOOLEAN
    /\ \A r \in requests : r.step \in {"sent", "saved", "refused"}
    /\ \A r \in left : r.step = "sent"

\* A card at rest shows its row: after saves, refusals and rollbacks, after the
\* search hid and showed it again, and whatever other cards of the page did.
\* Excepted are cards nothing tells of a change: made in another tab or from a
\* page that was left, answered on a lost connection, or under way when the
\* card was mounted anew.
CardIsTruth ==
    \A t \in Tabs, s \in Skins :
       Idle(t, s) /\ s \notin dirty[t] /\ (\A r \in requests : r.t # t \/ r.s # s)
       => tab[t].card[s].on = (s \in Range(rows[tab[t].c]))

\* A load misses at most as many of the skins that were watched when it began
\* as rows were removed while it ran, on however many pages and however many
\* others are added: without removals it misses none.
LoadMissesNothing ==
    \A k \in Loaders :
       load[k].step = "done" =>
          Cardinality(load[k].from \ load[k].got) <= load[k].removed

\* An email is planned only for a skin that was watched on this very account at
\* some moment of the load.
PlannedIsWatched ==
    "worker" \in Loaders /\ load["worker"].step = "done" => Planned \subseteq load["worker"].seen

\* "That change did not save."
FailedMeansUnsaved ==
    \A t \in Tabs, s \in Skins :
       Idle(t, s) /\ tab[t].card[s].failed /\ Cardinality(Tabs) = 1
       => tab[t].card[s].on = (s \in Range(rows[tab[t].c]))
=============================================================================
