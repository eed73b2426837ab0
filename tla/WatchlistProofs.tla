--------------------------- MODULE WatchlistProofs ---------------------------
(***************************************************************************)
(* The watchlist for every set of tabs and accounts, every finite set of   *)
(* skins, every page size, and every number of toggles and failures (the   *)
(* constants that fit, as MCCatalog assumes of its instances): a card at   *)
(* rest shows its row, a load misses at most as many rows as were removed  *)
(* while it ran, and an email is planned only for what was watched.        *)
(***************************************************************************)
EXTENDS Watchlist, FiniteSetTheorems, TLAPS

-----------------------------------------------------------------------------
(* Rows.  A row list has every skin once.                                   *)

RowLists == {l \in Seq(Skins) : \A i, j \in DOMAIN l : l[i] = l[j] => i = j}

\* A finite set has a sequence of its elements, each of them once.
LEMMA SetToSeqLists ==
    ASSUME NEW S, IsFiniteSet(S)
    PROVE  /\ SetToSeq(S) \in Seq(S)
           /\ \A i, j \in DOMAIN SetToSeq(S) : SetToSeq(S)[i] = SetToSeq(S)[j] => i = j
<1> DEFINE n == Cardinality(S)
<1>1. n \in Nat /\ ExistsBijection(1..n, S)
    BY FS_CardinalityType
<1>2. PICK b : b \in Bijection(1..n, S)
    BY <1>1 DEF ExistsBijection
<1>3. b \in [1..n -> S] /\ IsInjective(b)
    BY <1>2 DEF Bijection, Injection, IsInjective
<1>4. SetToSeq(S) \in [1..n -> S] /\ IsInjective(SetToSeq(S))
    BY <1>3 DEF SetToSeq
<1> HIDE DEF n
<1>5. SetToSeq(S) \in Seq(S)
    BY <1>1, <1>4
<1> QED
    BY <1>4, <1>5 DEF IsInjective

LEMMA SomeOrder ==
    ASSUME ConstantsFit
    PROVE  SetToSeq(Skins) \in RowLists /\ <<>> \in RowLists
BY SetToSeqLists DEF ConstantsFit, RowLists

\* The length of a row list is the number of its skins.
LEMMA RowsCounted ==
    ASSUME NEW l \in RowLists
    PROVE  Cardinality(Range(l)) = Len(l) /\ Range(l) \subseteq Skins
<1>1. l \in Seq(Skins) /\ DOMAIN l = 1..Len(l) /\ Len(l) \in Nat
    BY DEF RowLists
<1>2. Range(l) \subseteq Skins
    BY <1>1 DEF Range
<1>3. l \in [1..Len(l) -> Range(l)]
    BY <1>1 DEF Range
<1>4. l \in Bijection(1..Len(l), Range(l))
    BY <1>1, <1>3 DEF Bijection, Injection, Surjection, IsInjective, RowLists, Range
<1>5. ExistsBijection(1..Len(l), Range(l))
    BY <1>4 DEF ExistsBijection
<1> QED
    BY <1>1, <1>2, <1>5, FS_CountingElements

\* A new row is the newest; the others keep their places.
LEMMA RowAdded ==
    ASSUME NEW l \in RowLists, NEW s \in Skins, s \notin Range(l)
    PROVE  /\ Append(l, s) \in RowLists
           /\ Range(Append(l, s)) = Range(l) \cup {s}
           /\ Len(Append(l, s)) = Len(l) + 1
           /\ Append(l, s)[Len(l) + 1] = s
           /\ \A i \in 1..Len(l) : Append(l, s)[i] = l[i]
<1>1. l \in Seq(Skins) /\ DOMAIN l = 1..Len(l) /\ Len(l) \in Nat
    BY DEF RowLists
<1>2. /\ Append(l, s) \in Seq(Skins)
      /\ Len(Append(l, s)) = Len(l) + 1
      /\ DOMAIN Append(l, s) = 1..(Len(l) + 1)
      /\ Append(l, s)[Len(l) + 1] = s
      /\ \A i \in 1..Len(l) : Append(l, s)[i] = l[i]
    BY <1>1
<1>3. \A i \in 1..Len(l) : l[i] # s
    BY <1>1 DEF Range
<1>4. \A i, j \in 1..(Len(l) + 1) : Append(l, s)[i] = Append(l, s)[j] => i = j
    <2> SUFFICES ASSUME NEW i \in 1..(Len(l) + 1), NEW j \in 1..(Len(l) + 1),
                        Append(l, s)[i] = Append(l, s)[j]
                 PROVE  i = j
        OBVIOUS
    <2>1. (i \in 1..Len(l) \/ i = Len(l) + 1) /\ (j \in 1..Len(l) \/ j = Len(l) + 1)
        BY <1>1
    <2>2. \A a, b \in 1..Len(l) : l[a] = l[b] => a = b
        BY <1>1 DEF RowLists
    <2> QED
        BY <1>2, <1>3, <2>1, <2>2
<1>5. Range(Append(l, s)) = Range(l) \cup {s}
    <2>1. 1..(Len(l) + 1) = 1..Len(l) \cup {Len(l) + 1}
        BY <1>1
    <2> QED
        BY <1>1, <1>2, <2>1 DEF Range
<1> QED
    BY <1>2, <1>4, <1>5 DEF RowLists

\* What follows the first k elements of a sequence.
LEMMA RestOfList ==
    ASSUME NEW S, NEW l \in Seq(S), NEW k \in 1..Len(l)
    PROVE  /\ SubSeq(l, k + 1, Len(l)) \in Seq(S)
           /\ Len(SubSeq(l, k + 1, Len(l))) = Len(l) - k
           /\ \A i \in 1..(Len(l) - k) : SubSeq(l, k + 1, Len(l))[i] = l[i + k]
<1>1. SubSeq(l, k + 1, Len(l)) \in Seq(S)
    OBVIOUS
<1>2. Len(SubSeq(l, k + 1, Len(l))) = Len(l) - k
    OBVIOUS
<1>3. ASSUME NEW i \in 1..(Len(l) - k)
      PROVE  SubSeq(l, k + 1, Len(l))[i] = l[i + k]
    <2>1. SubSeq(l, k + 1, Len(l))[i] = l[i + (k + 1) - 1]
        OBVIOUS
    <2>2. i + (k + 1) - 1 = i + k
        OBVIOUS
    <2> QED
        BY <2>1, <2>2
<1> QED
    BY <1>1, <1>2, <1>3

\* Two sequences, one after the other.
LEMMA JoinedLists ==
    ASSUME NEW S, NEW u \in Seq(S), NEW v \in Seq(S), NEW n \in Nat, NEW k \in 1..n,
           Len(u) = k - 1, Len(v) = n - k
    PROVE  /\ u \o v \in Seq(S) /\ Len(u \o v) = n - 1
           /\ \A i \in 1..(k - 1) : (u \o v)[i] = u[i]
           /\ \A i \in k..(n - 1) : (u \o v)[i] = v[i - (k - 1)]
<1>1. Len(u \o v) = Len(u) + Len(v) /\ u \o v \in Seq(S)
    OBVIOUS
<1>2. Len(u) + Len(v) = n - 1
    OBVIOUS
<1>3. \A i \in 1..(Len(u) + Len(v)) :
         (u \o v)[i] = IF i <= Len(u) THEN u[i] ELSE v[i - Len(u)]
    OBVIOUS
<1>4. \A i \in 1..(k - 1) : (u \o v)[i] = u[i]
    BY <1>3
<1>5. \A i \in k..(n - 1) : (u \o v)[i] = v[i - (k - 1)]
    BY <1>3
<1> QED
    BY <1>1, <1>2, <1>4, <1>5

\* Where the rows are after one is removed.
LEMMA PlacesRemoved ==
    ASSUME NEW l \in RowLists, NEW s, NEW k \in 1..Len(l), l[k] = s
    PROVE  /\ RemoveFirst(l, s) \in Seq(Skins)
           /\ Len(RemoveFirst(l, s)) = Len(l) - 1
           /\ \A i \in 1..(Len(l) - 1) :
                 RemoveFirst(l, s)[i] = IF i < k THEN l[i] ELSE l[i + 1]
<1>0. /\ l \in Seq(Skins) /\ DOMAIN l = 1..Len(l) /\ Len(l) \in Nat
      /\ \A a, b \in 1..Len(l) : l[a] = l[b] => a = b
    BY DEF RowLists
<1>1. {i \in 1..Len(l) : l[i] = s} = {k}
    BY <1>0
<1>2. Min({k}) = k
    BY DEF Min
<1>3. RemoveFirst(l, s) = RemoveAt(l, k)
    BY <1>1, <1>2 DEF RemoveFirst, SelectInSeq
<1> DEFINE m == RemoveAt(l, k)
<1>4. /\ m \in Seq(Skins) /\ Len(m) = Len(l) - 1
      /\ \A i \in 1..(Len(l) - 1) : m[i] = IF i < k THEN l[i] ELSE l[i + 1]
    <2> DEFINE u == SubSeq(l, 1, k - 1)
               v == SubSeq(l, k + 1, Len(l))
    <2>1. /\ u \in Seq(Skins) /\ Len(u) = k - 1
          /\ \A i \in 1..(k - 1) : u[i] = l[i]
        BY <1>0
    <2>2. /\ v \in Seq(Skins) /\ Len(v) = Len(l) - k
          /\ \A i \in 1..(Len(l) - k) : v[i] = l[i + k]
        BY <1>0, RestOfList
    <2>3. m = u \o v
        BY DEF RemoveAt
    <2> HIDE DEF u, v, m
    <2>4. /\ m \in Seq(Skins) /\ Len(m) = Len(l) - 1
          /\ \A i \in 1..(k - 1) : m[i] = u[i]
          /\ \A i \in k..(Len(l) - 1) : m[i] = v[i - (k - 1)]
        <3>1. /\ u \o v \in Seq(Skins) /\ Len(u \o v) = Len(l) - 1
              /\ \A i \in 1..(k - 1) : (u \o v)[i] = u[i]
              /\ \A i \in k..(Len(l) - 1) : (u \o v)[i] = v[i - (k - 1)]
            <4>1. /\ u \in Seq(Skins) /\ v \in Seq(Skins) /\ Len(l) \in Nat
                  /\ k \in 1..Len(l) /\ Len(u) = k - 1 /\ Len(v) = Len(l) - k
                BY <1>0, <2>1, <2>2
            <4> QED
                BY <4>1, JoinedLists
        <3> QED
            BY <2>3, <3>1
    <2>5. ASSUME NEW i \in 1..(Len(l) - 1)
          PROVE  m[i] = IF i < k THEN l[i] ELSE l[i + 1]
        <3>1. CASE i < k
            BY <1>0, <2>1, <2>4, <2>5, <3>1
        <3>2. CASE i >= k
            <4>1. i - (k - 1) \in 1..(Len(l) - k) /\ (i - (k - 1)) + k = i + 1
                BY <1>0, <2>5, <3>2
            <4> QED
                BY <1>0, <2>2, <2>4, <2>5, <3>2, <4>1
        <3> QED
            BY <1>0, <2>5, <3>1, <3>2
    <2> QED
        BY <2>4, <2>5
<1> QED
    BY <1>3, <1>4

\* A removed row is gone, and no other is.
LEMMA RowRemoved ==
    ASSUME NEW l \in RowLists, NEW s
    PROVE  /\ RemoveFirst(l, s) \in RowLists
           /\ Range(RemoveFirst(l, s)) = Range(l) \ {s}
<1>1. l \in Seq(Skins) /\ DOMAIN l = 1..Len(l) /\ Len(l) \in Nat
    BY DEF RowLists
<1>2. \A a, b \in 1..Len(l) : l[a] = l[b] => a = b
    BY <1>1 DEF RowLists
<1>3. CASE \A i \in 1..Len(l) : l[i] # s
    <2>1. RemoveFirst(l, s) = l
        BY <1>3 DEF RemoveFirst
    <2> QED
        BY <1>1, <1>3, <2>1 DEF Range
<1>4. ASSUME NEW k \in 1..Len(l), l[k] = s
      PROVE  /\ RemoveFirst(l, s) \in RowLists
             /\ Range(RemoveFirst(l, s)) = Range(l) \ {s}
    <2> DEFINE m == RemoveFirst(l, s)
    <2>4. /\ m \in Seq(Skins) /\ Len(m) = Len(l) - 1
          /\ \A i \in 1..(Len(l) - 1) : m[i] = IF i < k THEN l[i] ELSE l[i + 1]
        BY <1>4, PlacesRemoved
    <2> HIDE DEF m
    <2>5. DOMAIN m = 1..(Len(l) - 1)
        BY <1>1, <2>4
    <2>6. \A i, j \in 1..(Len(l) - 1) : m[i] = m[j] => i = j
        BY <1>1, <1>2, <1>4, <2>4
    <2>7. Range(m) \subseteq Range(l) \ {s}
        BY <1>1, <1>2, <1>4, <2>4, <2>5 DEF Range
    <2>8. ASSUME NEW i \in 1..Len(l), i # k
          PROVE  l[i] \in Range(m)
        <3>1. CASE i < k
            <4>1. i \in 1..(Len(l) - 1) /\ m[i] = l[i]
                BY <1>1, <1>4, <2>4, <3>1
            <4> QED
                BY <2>5, <4>1 DEF Range
        <3>2. CASE i > k
            <4>1. i - 1 \in 1..(Len(l) - 1) /\ m[i - 1] = l[i]
                BY <1>1, <1>4, <2>4, <3>2
            <4> QED
                BY <2>5, <4>1 DEF Range
        <3> QED
            BY <1>4, <2>8, <3>1, <3>2
    <2>9. Range(l) \ {s} \subseteq Range(m)
        BY <1>1, <1>4, <2>8 DEF Range
    <2> QED
        BY <2>4, <2>5, <2>6, <2>7, <2>9 DEF m, RowLists
<1> QED
    BY <1>3, <1>4

-----------------------------------------------------------------------------
(* Types.                                                                   *)

CardStates == [on : BOOLEAN, pending : BOOLEAN, failed : BOOLEAN,
               mounted : BOOLEAN, last : Nat]
Pages == [step : {"closed"}]
         \cup [step : {"loading"}, c : Connections, props : SUBSET Skins]
         \cup [step : {"shown"}, c : Connections, props : SUBSET Skins,
               card : [Skins -> CardStates]]
Requests == [id : Nat, t : Tabs, c : Connections, s : Skins, want : BOOLEAN,
             step : {"sent", "saved", "refused"}]
SentRequests == {r \in Requests : r.step = "sent"}
LoadStates == [step : {"idle"}]
              \cup [step : {"page", "done"}, c : Connections, offset : Nat,
                    got : SUBSET Skins, from : SUBSET Skins, removed : Nat,
                    seen : SUBSET Skins]

Typed ==
    /\ rows \in [Connections -> RowLists]
    /\ tab \in [Tabs -> Pages]
    /\ requests \in SUBSET Requests /\ left \in SUBSET SentRequests
    /\ sent \in 0..MaxWrites /\ faults \in 0..MaxFaults
    /\ load \in [Loaders -> LoadStates]
    /\ dirty \in [Tabs -> SUBSET Skins]

\* The page of a request is there until it is answered.
Attended == \A r \in requests : tab[r.t].step = "shown" /\ tab[r.t].c = r.c

LEMMA InitTyped == ASSUME ConstantsFit PROVE Init => Typed /\ Attended
BY SomeOrder
   DEF ConstantsFit, Init, Typed, Attended, NoPage, IdleLoad, Pages, LoadStates

LEMMA FaultTyped == ASSUME ConstantsFit, Typed, Fault PROVE faults' \in 0..MaxFaults
BY DEF ConstantsFit, Typed, Fault

LEMMA ReadPageTyped ==
    ASSUME Typed, Attended, NEW t \in Tabs, NEW c \in Connections, ReadPage(t, c)
    PROVE  Typed' /\ Attended'
<1>1. Range(rows[c]) \in SUBSET Skins
    BY RowsCounted DEF Typed
<1>2. [step |-> "loading", c |-> c, props |-> Range(rows[c])] \in Pages
    BY <1>1 DEF Pages
<1>3. tab' \in [Tabs -> Pages] /\ dirty' \in [Tabs -> SUBSET Skins]
    BY <1>2 DEF Typed, ReadPage
<1>4. Attended'
    BY DEF Typed, ReadPage, Attended, Requests
<1> QED
    BY <1>3, <1>4 DEF Typed, ReadPage

LEMMA NewCardTyped ==
    ASSUME NEW s, NEW props PROVE NewCard(s, props) \in CardStates
BY DEF NewCard, CardStates

LEMMA ShowPageTyped ==
    ASSUME Typed, Attended, NEW t \in Tabs, ShowPage(t)
    PROVE  Typed' /\ Attended'
<1>1. tab[t].c \in Connections /\ tab[t].props \in SUBSET Skins
    BY DEF Typed, ShowPage, Pages
<1>2. [s \in Skins |-> NewCard(s, tab[t].props)] \in [Skins -> CardStates]
    BY NewCardTyped
<1>3. tab'[t] \in Pages /\ tab' = [tab EXCEPT ![t] = tab'[t]]
    BY <1>1, <1>2 DEF Typed, ShowPage, Pages
<1>4. tab' \in [Tabs -> Pages]
    BY <1>3 DEF Typed
<1>5. Attended'
    BY DEF Typed, ShowPage, Attended, Requests
<1> QED
    BY <1>4, <1>5 DEF Typed, ShowPage

\* A step of one card changes nothing else of its page.
LEMMA CardTyped ==
    ASSUME Typed, NEW t \in Tabs, NEW s \in Skins, NEW card \in CardStates,
           tab[t].step = "shown", tab' = [tab EXCEPT ![t].card[s] = card]
    PROVE  /\ tab' \in [Tabs -> Pages]
           /\ tab'[t].step = "shown" /\ tab'[t].c = tab[t].c
           /\ tab'[t].props = tab[t].props
           /\ tab'[t].card = [tab[t].card EXCEPT ![s] = card]
           /\ \A u \in Tabs \ {t} : tab'[u] = tab[u]
<1> DEFINE p == [tab[t] EXCEPT !.card[s] = card]
<1>1. tab[t] \in [step : {"shown"}, c : Connections, props : SUBSET Skins,
                  card : [Skins -> CardStates]]
    BY DEF Typed, Pages
<1>2. /\ p.step = "shown" /\ p.c = tab[t].c /\ p.props = tab[t].props
      /\ p.card = [tab[t].card EXCEPT ![s] = card]
      /\ p \in [step : {"shown"}, c : Connections, props : SUBSET Skins,
                card : [Skins -> CardStates]]
    BY <1>1
<1>3. tab \in [Tabs -> Pages] /\ tab' = [tab EXCEPT ![t] = p]
    BY DEF Typed
<1> HIDE DEF p
<1>4. p \in Pages
    BY <1>2 DEF Pages
<1>5. tab'[t] = p
    BY ONLY <1>3, t \in Tabs
<1>6. \A u \in Tabs \ {t} : tab'[u] = tab[u]
    BY ONLY <1>3, t \in Tabs
<1>7. tab' \in [Tabs -> Pages]
    BY ONLY <1>3, <1>4, t \in Tabs
<1> QED
    BY <1>2, <1>5, <1>6, <1>7

LEMMA ShownPage ==
    ASSUME Typed, NEW t \in Tabs, tab[t].step = "shown"
    PROVE  /\ tab[t].c \in Connections /\ tab[t].props \in SUBSET Skins
           /\ tab[t].card \in [Skins -> CardStates]
BY DEF Typed, Pages

LEMMA ToggleTyped ==
    ASSUME ConstantsFit, Typed, Attended, NEW t \in Tabs, NEW s \in Skins, Toggle(t, s)
    PROVE  Typed' /\ Attended'
<1>1. tab[t].step = "shown" /\ sent \in 0..MaxWrites /\ sent + 1 \in 0..MaxWrites
    BY DEF ConstantsFit, Toggle, Idle, Typed
<1>2. tab[t].card[s] \in CardStates /\ tab[t].c \in Connections
    BY <1>1, ShownPage
<1> DEFINE want == ~tab[t].card[s].on
           card == [tab[t].card[s] EXCEPT !.on = want, !.pending = TRUE,
                                          !.failed = FALSE, !.last = sent + 1]
           r == [id |-> sent + 1, t |-> t, c |-> tab[t].c, s |-> s, want |-> want,
                 step |-> "sent"]
<1>3. card \in CardStates /\ r \in Requests
    <2>1. want \in BOOLEAN /\ sent + 1 \in Nat
        BY <1>1
    <2> HIDE DEF want
    <2>2. card \in CardStates
        BY <1>2, <2>1 DEF CardStates
    <2>3. r \in Requests
        BY <1>2, <2>1 DEF Requests
    <2> QED
        BY <2>2, <2>3
<1>4. tab' = [tab EXCEPT ![t].card[s] = card] /\ requests' = requests \cup {r}
    BY DEF Toggle
<1>5. r.t = t /\ r.c = tab[t].c
    OBVIOUS
<1> HIDE DEF card, r
<1>6. /\ tab' \in [Tabs -> Pages]
      /\ tab'[t].step = "shown" /\ tab'[t].c = tab[t].c
      /\ \A u \in Tabs \ {t} : tab'[u] = tab[u]
    BY <1>1, <1>3, <1>4, CardTyped
<1>7. Attended'
    BY <1>4, <1>5, <1>6 DEF Typed, Attended, Requests
<1>8. Typed'
    BY <1>1, <1>3, <1>4, <1>6 DEF Typed, Toggle
<1> QED
    BY <1>7, <1>8

LEMMA HideTyped ==
    ASSUME Typed, Attended, NEW t \in Tabs, NEW s \in Skins, Hide(t, s)
    PROVE  Typed' /\ Attended'
<1>1. tab[t].step = "shown"
    BY DEF Hide
<1>2. tab[t].card[s] \in CardStates
    BY <1>1, ShownPage
<1> DEFINE card == [tab[t].card[s] EXCEPT !.mounted = FALSE]
<1>3. card \in CardStates
    BY <1>2 DEF CardStates
<1>4. tab' = [tab EXCEPT ![t].card[s] = card]
    BY DEF Hide
<1> HIDE DEF card
<1>5. /\ tab' \in [Tabs -> Pages]
      /\ tab'[t].step = "shown" /\ tab'[t].c = tab[t].c
      /\ \A u \in Tabs \ {t} : tab'[u] = tab[u]
    BY <1>1, <1>3, <1>4, CardTyped
<1> QED
    BY <1>1, <1>5 DEF Typed, Attended, Requests, Hide

LEMMA RevealTyped ==
    ASSUME Typed, Attended, NEW t \in Tabs, NEW s \in Skins, Reveal(t, s)
    PROVE  Typed' /\ Attended'
<1>1. tab[t].step = "shown" /\ tab' = [tab EXCEPT ![t].card[s] = NewCard(s, tab[t].props)]
    BY DEF Reveal
<1>2. /\ tab' \in [Tabs -> Pages]
      /\ tab'[t].step = "shown" /\ tab'[t].c = tab[t].c
      /\ \A u \in Tabs \ {t} : tab'[u] = tab[u]
    BY <1>1, NewCardTyped, CardTyped
<1>3. dirty' \in [Tabs -> SUBSET Skins]
    BY DEF Typed, Reveal
<1> QED
    BY <1>1, <1>2, <1>3 DEF Typed, Attended, Requests, Reveal

LEMMA ClosePageTyped ==
    ASSUME Typed, Attended, NEW t \in Tabs, ClosePage(t)
    PROVE  Typed' /\ Attended'
<1>1. NoPage \in Pages
    BY DEF NoPage, Pages
<1>2. tab' \in [Tabs -> Pages]
    BY <1>1 DEF Typed, ClosePage
<1>3. Attended'
    BY DEF Typed, Attended, Requests, ClosePage
<1>4. requests' \in SUBSET Requests /\ left' \in SUBSET SentRequests
    BY DEF Typed, ClosePage, SentRequests
<1> QED
    BY <1>2, <1>3, <1>4 DEF Typed, ClosePage

\* What one request writes.
LEMMA WrittenRows ==
    ASSUME Typed, NEW r \in Requests
    PROVE  /\ Written(r) \in RowLists
           /\ Range(Written(r)) = IF r.want THEN Range(rows[r.c]) \cup {r.s}
                                  ELSE Range(rows[r.c]) \ {r.s}
<1>1. rows[r.c] \in RowLists /\ r.s \in Skins /\ r.want \in BOOLEAN
    BY DEF Typed, Requests
<1>2. CASE r.want /\ r.s \in Range(rows[r.c])
    BY <1>1, <1>2 DEF Written
<1>3. CASE r.want /\ r.s \notin Range(rows[r.c])
    BY <1>1, <1>3, RowAdded DEF Written
<1>4. CASE ~r.want
    BY <1>1, <1>4, RowRemoved DEF Written
<1> QED
    BY <1>1, <1>2, <1>3, <1>4

LEMMA NoticedTyped ==
    ASSUME Typed, NEW r \in Requests
    PROVE  Noticed(r) \in [Loaders -> LoadStates]
<1> SUFFICES ASSUME NEW k \in Loaders
             PROVE  Noticed(r)[k] \in LoadStates
    BY DEF Noticed
<1>1. load[k] \in LoadStates /\ r.s \in Skins /\ r.want \in BOOLEAN
    BY DEF Typed, Requests
<1>2. CASE load[k].step = "page" /\ load[k].c = r.c
    <2>1. load[k] \in [step : {"page", "done"}, c : Connections, offset : Nat,
                       got : SUBSET Skins, from : SUBSET Skins, removed : Nat,
                       seen : SUBSET Skins]
        BY <1>1, <1>2 DEF LoadStates
    <2>2. load[k].seen \cup {r.s} \in SUBSET Skins
        BY <1>1, <2>1
    <2> DEFINE removed == IF ~r.want /\ r.s \in Range(rows[r.c])
                          THEN load[k].removed + 1 ELSE load[k].removed
               seen == IF r.want THEN load[k].seen \cup {r.s} ELSE load[k].seen
    <2>3. Noticed(r)[k] = [load[k] EXCEPT !.removed = removed, !.seen = seen]
        BY <1>2 DEF Noticed
    <2>4. removed \in Nat /\ seen \in SUBSET Skins
        BY <2>1, <2>2
    <2> HIDE DEF removed, seen
    <2> QED
        BY <2>1, <2>3, <2>4 DEF LoadStates
<1>3. CASE ~(load[k].step = "page" /\ load[k].c = r.c)
    BY <1>1, <1>3 DEF Noticed
<1> QED
    BY <1>2, <1>3

LEMMA WriteRowTyped ==
    ASSUME ConstantsFit, Typed, Attended, NEW r \in requests, WriteRow(r)
    PROVE  Typed' /\ Attended'
<1>1. r \in Requests /\ r.t \in Tabs /\ r.c \in Connections /\ r.s \in Skins
    BY DEF Typed, Requests
<1>2. /\ [r EXCEPT !.step = "saved"] \in Requests
      /\ [r EXCEPT !.step = "refused"] \in Requests
    BY <1>1 DEF Requests
<1>3. /\ [r EXCEPT !.step = "saved"].t = r.t /\ [r EXCEPT !.step = "saved"].c = r.c
      /\ [r EXCEPT !.step = "refused"].t = r.t /\ [r EXCEPT !.step = "refused"].c = r.c
    BY <1>1 DEF Requests
<1>6. tab' = tab
    BY DEF WriteRow
<1>7. ASSUME NEW q, requests' = (requests \ {r}) \cup {q}, q.t = r.t, q.c = r.c
      PROVE  Attended'
    <2> SUFFICES ASSUME NEW z \in requests'
                 PROVE  tab[z.t].step = "shown" /\ tab[z.t].c = z.c
        BY <1>6 DEF Attended
    <2> QED
        BY <1>7 DEF Attended
<1>4. CASE /\ rows' = [rows EXCEPT ![r.c] = Written(r)]
           /\ requests' = (requests \ {r}) \cup {[r EXCEPT !.step = "saved"]}
           /\ load' = Noticed(r) /\ dirty' = Elsewhere(r, {r.t}) /\ UNCHANGED faults
    <2>1. rows' \in [Connections -> RowLists]
        BY <1>1, <1>4, WrittenRows DEF Typed
    <2>2. Elsewhere(r, {r.t}) \in [Tabs -> SUBSET Skins]
        BY <1>1 DEF Typed, Elsewhere
    <2>3. Noticed(r) \in [Loaders -> LoadStates]
        BY <1>1, NoticedTyped
    <2> HIDE DEF Noticed, Elsewhere
    <2> QED
        BY <1>2, <1>3, <1>4, <1>7, <2>1, <2>2, <2>3 DEF Typed, WriteRow
<1>5. CASE /\ requests' = (requests \ {r}) \cup {[r EXCEPT !.step = "refused"]}
           /\ Fault /\ UNCHANGED <<rows, load, dirty>>
    BY <1>2, <1>3, <1>5, <1>7, FaultTyped DEF Typed, WriteRow
<1> QED
    BY <1>4, <1>5 DEF WriteRow

LEMMA WriteLeftTyped ==
    ASSUME Typed, Attended, NEW r \in left, WriteLeft(r)
    PROVE  Typed' /\ Attended'
<1>1. r \in Requests /\ r.c \in Connections /\ r.s \in Skins
    BY DEF Typed, SentRequests, Requests
<1>2. rows' \in [Connections -> RowLists]
    BY <1>1, WrittenRows DEF Typed, WriteLeft
<1>3. dirty' \in [Tabs -> SUBSET Skins]
    BY <1>1 DEF Typed, Elsewhere, WriteLeft
<1>4. load' \in [Loaders -> LoadStates]
    BY <1>1, NoticedTyped DEF WriteLeft
<1> QED
    BY <1>2, <1>3, <1>4 DEF Typed, Attended, WriteLeft

LEMMA SettledTyped ==
    ASSUME NEW card \in CardStates, NEW r \in Requests, NEW ok \in BOOLEAN
    PROVE  Settled(card, r, ok) \in CardStates
<1> DEFINE on == IF ok THEN card.on ELSE ~r.want
<1>1. on \in BOOLEAN
    BY DEF CardStates, Requests
<1>2. Settled(card, r, ok) = [card EXCEPT !.pending = FALSE, !.failed = ~ok, !.on = on]
    BY DEF Settled
<1> HIDE DEF on
<1> QED
    BY <1>1, <1>2 DEF CardStates

\* What an answer does to its page: the rows it brings, and its card.
LEMMA AnsweredPage ==
    ASSUME Typed, Attended, NEW r \in requests, Answer(r)
    PROVE  /\ tab'[r.t] \in Pages /\ tab' \in [Tabs -> Pages]
           /\ tab'[r.t].step = "shown" /\ tab'[r.t].c = tab[r.t].c
           /\ tab'[r.t].props = IF r.step = "saved" THEN Fresh(r) ELSE tab[r.t].props
           /\ tab'[r.t].card = [tab[r.t].card EXCEPT ![r.s] =
                 IF IsCardOf(r) THEN Settled(@, r, r.step = "saved") ELSE @]
           /\ \A u \in Tabs \ {r.t} : tab'[u] = tab[u]
<1> DEFINE props == IF r.step = "saved" THEN Fresh(r) ELSE tab[r.t].props
           card == IF IsCardOf(r)
                   THEN Settled(tab[r.t].card[r.s], r, r.step = "saved")
                   ELSE tab[r.t].card[r.s]
           p == [[tab[r.t] EXCEPT !.props = props] EXCEPT
                   !.card = [tab[r.t].card EXCEPT ![r.s] = card]]
<1>1. r.t \in Tabs /\ r.s \in Skins /\ r.want \in BOOLEAN /\ tab[r.t].step = "shown"
    BY DEF Typed, Attended, Requests
<1>2. /\ tab[r.t] \in [step : {"shown"}, c : Connections, props : SUBSET Skins,
                       card : [Skins -> CardStates]]
    BY <1>1 DEF Typed, Pages
<1>3. props \in SUBSET Skins
    BY <1>1, <1>2, RowsCounted DEF Typed, Fresh
<1>4. card \in CardStates
    <2>1. r \in Requests /\ tab[r.t].card[r.s] \in CardStates
        BY <1>1, <1>2 DEF Typed
    <2> QED
        BY <2>1, SettledTyped
<1>5. tab' = [tab EXCEPT ![r.t].props = props, ![r.t].card[r.s] = card]
    BY <1>1, <1>2 DEF Answer
<1> HIDE DEF props, card
<1>6. /\ p.step = "shown" /\ p.c = tab[r.t].c /\ p.props = props
      /\ p.card = [tab[r.t].card EXCEPT ![r.s] = card]
      /\ p \in Pages
    BY <1>1, <1>2, <1>3, <1>4 DEF Pages
<1>7. tab' = [tab EXCEPT ![r.t] = p]
    BY <1>1, <1>2, <1>5 DEF Typed
<1> HIDE DEF p
<1>8. tab' \in [Tabs -> Pages] /\ tab'[r.t] = p /\ \A u \in Tabs \ {r.t} : tab'[u] = tab[u]
    BY <1>1, <1>6, <1>7 DEF Typed
<1> QED
    BY <1>6, <1>8 DEF props, card

LEMMA AnswerTyped ==
    ASSUME Typed, Attended, NEW r \in requests, Answer(r)
    PROVE  Typed' /\ Attended'
<1>1. requests' \in SUBSET Requests /\ requests' \subseteq requests
    BY DEF Typed, Answer
<1>2. Typed'
    BY <1>1, AnsweredPage DEF Typed, Answer
<1>3. Attended'
    BY <1>1, AnsweredPage DEF Typed, Attended, Requests
<1> QED
    BY <1>2, <1>3

LEMMA LostPage ==
    ASSUME Typed, Attended, NEW r \in requests, LoseAnswer(r)
    PROVE  /\ tab' \in [Tabs -> Pages]
           /\ tab'[r.t].step = "shown" /\ tab'[r.t].c = tab[r.t].c
           /\ tab'[r.t].props = tab[r.t].props
           /\ \A s \in Skins \ {r.s} : tab'[r.t].card[s] = tab[r.t].card[s]
           /\ \A u \in Tabs \ {r.t} : tab'[u] = tab[u]
<1> DEFINE card == IF IsCardOf(r) THEN Settled(tab[r.t].card[r.s], r, FALSE)
                   ELSE tab[r.t].card[r.s]
<1>1. r.t \in Tabs /\ r.s \in Skins /\ r.want \in BOOLEAN /\ tab[r.t].step = "shown"
    BY DEF Typed, Attended, Requests
<1>2. tab[r.t].card \in [Skins -> CardStates]
    BY <1>1, ShownPage
<1>3. card \in CardStates
    <2>1. r \in Requests /\ tab[r.t].card[r.s] \in CardStates
        BY <1>1, <1>2 DEF Typed
    <2> QED
        BY <2>1, SettledTyped
<1>4. tab' = [tab EXCEPT ![r.t].card[r.s] = card]
    BY <1>1, <1>2 DEF LoseAnswer
<1> HIDE DEF card
<1>5. /\ tab' \in [Tabs -> Pages]
      /\ tab'[r.t].step = "shown" /\ tab'[r.t].c = tab[r.t].c
      /\ tab'[r.t].props = tab[r.t].props
      /\ tab'[r.t].card = [tab[r.t].card EXCEPT ![r.s] = card]
      /\ \A u \in Tabs \ {r.t} : tab'[u] = tab[u]
    BY <1>1, <1>3, <1>4, CardTyped
<1> QED
    BY <1>2, <1>5

LEMMA LoseAnswerTyped ==
    ASSUME ConstantsFit, Typed, Attended, NEW r \in requests, LoseAnswer(r)
    PROVE  Typed' /\ Attended'
<1>1. requests' \in SUBSET Requests /\ requests' \subseteq requests
    BY DEF Typed, LoseAnswer
<1>2. dirty' \in [Tabs -> SUBSET Skins] /\ faults' \in 0..MaxFaults
    BY FaultTyped DEF Typed, LoseAnswer, Requests
<1>3. Typed'
    BY <1>1, <1>2, LostPage DEF Typed, LoseAnswer
<1>4. Attended'
    BY <1>1, LostPage DEF Typed, Attended, Requests
<1> QED
    BY <1>3, <1>4

LEMMA LoadStartTyped ==
    ASSUME Typed, Attended, NEW k \in Loaders, NEW c \in Connections, LoadStart(k, c)
    PROVE  Typed' /\ Attended'
<1>1. Range(rows[c]) \in SUBSET Skins
    BY RowsCounted DEF Typed
<1>2. load' \in [Loaders -> LoadStates]
    BY <1>1 DEF Typed, LoadStart, LoadStates
<1> QED
    BY <1>2 DEF Typed, Attended, LoadStart

\* p elements of a sequence, from the o-th on, or as many as there are.
LEMMA PageOfList ==
    ASSUME NEW S, NEW l \in Seq(S), NEW o \in Nat, NEW p \in Nat \ {0}
    PROVE  LET page == SubSeq(l, o + 1, Min({o + p, Len(l)}))
           IN  /\ Range(page) \subseteq Range(l)
               /\ \A i \in 1..Len(l) : o < i /\ i <= o + p => l[i] \in Range(page)
               /\ Len(page) < p => Len(l) <= o + p
<1> DEFINE L == Len(l)
           n == Min({o + p, L})
           page == SubSeq(l, o + 1, n)
<1>1. L \in Nat /\ DOMAIN l = 1..L /\ o + p \in Nat /\ o < o + p
    OBVIOUS
<1>2. \A a, b \in Nat : Min({a, b}) \in {a, b} /\ Min({a, b}) <= a /\ Min({a, b}) <= b
    <2> SUFFICES ASSUME NEW a \in Nat, NEW b \in Nat
                 PROVE  Min({a, b}) \in {a, b} /\ Min({a, b}) <= a /\ Min({a, b}) <= b
        OBVIOUS
    <2>1. \E x \in {a, b} : \A y \in {a, b} : x =< y
        OBVIOUS
    <2>2. Min({a, b}) \in {a, b} /\ \A y \in {a, b} : Min({a, b}) =< y
        BY <2>1 DEF Min
    <2> QED
        BY <2>2
<1>3. n \in {o + p, L} /\ n <= o + p /\ n <= L
    BY <1>1, <1>2
<1>4. page = SubSeq(l, o + 1, n) /\ L = Len(l)
    OBVIOUS
<1> HIDE DEF n, L, page
<1>5. n \in Nat
    BY <1>1, <1>3
<1>6. CASE o < n
    <2>1. o + 1 \in 1..L /\ n \in 1..L
        BY <1>1, <1>3, <1>5, <1>6
    <2>2. page \in Seq(S)
        BY <1>4, <2>1
    <2>3. Len(page) = n - o
        BY <1>4, <1>5, <1>6, <2>1
    <2>4. ASSUME NEW j \in 1..(n - o)
          PROVE  page[j] = l[j + o]
        <3>1. page[j] = l[j + (o + 1) - 1]
            BY <1>4, <1>5, <1>6, <2>1, <2>4
        <3>2. j + (o + 1) - 1 = j + o
            OBVIOUS
        <3> QED
            BY <3>1, <3>2
    <2>5. DOMAIN page = 1..(n - o)
        BY <2>2, <2>3
    <2>6. \A j \in 1..(n - o) : j + o \in 1..L
        BY <1>1, <1>3, <1>5
    <2>7. Range(page) \subseteq Range(l)
        BY <1>1, <2>4, <2>5, <2>6 DEF Range
    <2>8. ASSUME NEW i \in 1..L, o < i, i <= o + p
          PROVE  l[i] \in Range(page)
        <3>1. i - o \in 1..(n - o) /\ (i - o) + o = i
            BY <1>1, <1>3, <1>5, <2>8
        <3> QED
            BY <2>4, <2>5, <3>1 DEF Range
    <2>9. Len(page) < p => L <= o + p
        BY <1>1, <1>3, <1>5, <2>3
    <2> QED
        BY <2>7, <2>8, <2>9 DEF page, n, L
<1>7. CASE n <= o
    <2>1. n = L /\ L <= o
        BY <1>1, <1>3, <1>5, <1>7
    <2>2. Len(page) = 0 /\ page = <<>>
        BY <1>4, <1>5, <1>7
    <2>3. Range(page) = {}
        BY <2>2 DEF Range
    <2>4. L <= o + p /\ \A i \in 1..L : ~(o < i)
        BY <1>1, <2>1
    <2> QED
        BY <2>3, <2>4 DEF page, n, L
<1>8. o < n \/ n <= o
    BY <1>5
<1> QED
    BY <1>6, <1>7, <1>8

\* The same elements, backwards.
LEMMA ReversedList ==
    ASSUME NEW S, NEW l \in Seq(S)
    PROVE  /\ Reverse(l) \in Seq(S) /\ Len(Reverse(l)) = Len(l)
           /\ \A i \in 1..Len(l) : Reverse(l)[i] = l[(Len(l) - i) + 1]
           /\ Range(Reverse(l)) = Range(l)
<1> DEFINE m == Len(l)
           v == Reverse(l)
<1>1. m \in Nat /\ DOMAIN l = 1..m /\ l \in [1..m -> S]
    OBVIOUS
<1>2. v = [i \in 1..m |-> l[(m - i) + 1]]
    BY DEF Reverse
<1> HIDE DEF m, v
<1>3. \A i \in 1..m : (m - i) + 1 \in 1..m /\ (m - ((m - i) + 1)) + 1 = i
    BY <1>1
<1>4. v \in [1..m -> S]
    BY <1>1, <1>2, <1>3
<1>5. v \in Seq(S) /\ Len(v) = m
    BY <1>1, <1>4
<1>6. Range(v) \subseteq Range(l)
    BY <1>1, <1>2, <1>3 DEF Range
<1>7. ASSUME NEW i \in 1..m
      PROVE  l[i] \in Range(v)
    <2>1. (m - i) + 1 \in 1..m /\ v[(m - i) + 1] = l[i]
        BY <1>1, <1>2, <1>3
    <2>2. DOMAIN v = 1..m
        BY <1>4
    <2> QED
        BY <2>1, <2>2 DEF Range
<1>8. Range(l) \subseteq Range(v)
    BY <1>1, <1>7 DEF Range
<1> QED
    BY <1>2, <1>5, <1>6, <1>8 DEF m, v

LEMMA ReadOrder ==
    ASSUME Typed, NEW k, NEW c \in Connections
    PROVE  /\ RowsOf(k, c) \in Seq(Skins) /\ Len(RowsOf(k, c)) = Len(rows[c])
           /\ Range(RowsOf(k, c)) = Range(rows[c])
<1>1. rows[c] \in Seq(Skins)
    BY DEF Typed, RowLists
<1> QED
    BY <1>1, ReversedList DEF RowsOf

\* The page of rows a load reads.
LEMMA PageRead ==
    ASSUME ConstantsFit, Typed, NEW k \in Loaders, load[k].step = "page"
    PROVE  LET all == RowsOf(k, load[k].c)
               page == SubSeq(all, load[k].offset + 1,
                              Min({load[k].offset + PageSize, Len(all)}))
           IN  /\ Range(page) \subseteq Range(rows[load[k].c])
               /\ \A i \in 1..Len(all) :
                     load[k].offset < i /\ i <= load[k].offset + PageSize
                     => all[i] \in Range(page)
               /\ LastPage(page) => Len(all) <= load[k].offset + PageSize
<1>1. load[k].c \in Connections /\ load[k].offset \in Nat /\ PageSize \in Nat \ {0}
    BY DEF ConstantsFit, Typed, LoadStates
<1>2. /\ RowsOf(k, load[k].c) \in Seq(Skins)
      /\ Range(RowsOf(k, load[k].c)) = Range(rows[load[k].c])
    BY <1>1, ReadOrder
<1> QED
    BY <1>1, <1>2, PageOfList DEF LastPage

LEMMA LoadPageTyped ==
    ASSUME ConstantsFit, Typed, Attended, NEW k \in Loaders, LoadPage(k)
    PROVE  Typed' /\ Attended'
<1>1. load[k].step = "page"
    BY DEF LoadPage
<1> DEFINE all == RowsOf(k, load[k].c)
           page == SubSeq(all, load[k].offset + 1,
                          Min({load[k].offset + PageSize, Len(all)}))
<1>2. Range(page) \in SUBSET Skins
    <2>1. load[k].c \in Connections
        BY <1>1 DEF Typed, LoadStates
    <2> QED
        BY <1>1, <2>1, PageRead, RowsCounted DEF Typed
<1>3. load[k].offset + PageSize \in Nat
    BY <1>1 DEF ConstantsFit, Typed, LoadStates
<1>4. load' \in [Loaders -> LoadStates] /\ faults' \in 0..MaxFaults
    <2>1. CASE /\ load' = [load EXCEPT ![k] =
                              [load[k] EXCEPT
                                 !.got = @ \cup Range(page), !.offset = @ + PageSize,
                                 !.step = IF LastPage(page) THEN "done" ELSE "page"]]
               /\ UNCHANGED faults
        <3> DEFINE got == load[k].got \cup Range(page)
                   step == IF LastPage(page) THEN "done" ELSE "page"
                   new == [load[k] EXCEPT !.got = got, !.offset = load[k].offset + PageSize,
                                          !.step = step]
        <3>1. load[k] \in [step : {"page", "done"}, c : Connections, offset : Nat,
                           got : SUBSET Skins, from : SUBSET Skins, removed : Nat,
                           seen : SUBSET Skins]
            BY <1>1 DEF Typed, LoadStates
        <3>2. got \in SUBSET Skins /\ step \in {"page", "done"}
            BY <1>2, <3>1
        <3> HIDE DEF all, page
        <3>3. load' = [load EXCEPT ![k] = new] /\ faults' = faults
            BY <2>1
        <3> HIDE DEF got, step
        <3>4. new \in LoadStates
            BY <1>3, <3>1, <3>2 DEF LoadStates
        <3> HIDE DEF new
        <3> QED
            BY <3>3, <3>4 DEF Typed
    <2>2. CASE load' = [load EXCEPT ![k] = IdleLoad] /\ Fault
        BY <2>2, FaultTyped DEF Typed, IdleLoad, LoadStates
    <2> QED
        BY <2>1, <2>2 DEF LoadPage
<1> QED
    BY <1>4 DEF Typed, Attended, LoadPage

-----------------------------------------------------------------------------

LEMMA StepTyped ==
    ASSUME ConstantsFit
    PROVE  Typed /\ Attended /\ [Next]_vars => Typed' /\ Attended'
<1> SUFFICES ASSUME Typed, Attended, [Next]_vars
             PROVE  Typed' /\ Attended'
    OBVIOUS
<1>1. CASE UNCHANGED vars
    BY <1>1 DEF vars, Typed, Attended
<1>2. CASE Next
    BY <1>2, ShowPageTyped, ClosePageTyped, ReadPageTyped, ToggleTyped, HideTyped,
       RevealTyped, WriteRowTyped, WriteLeftTyped, AnswerTyped, LoseAnswerTyped,
       LoadPageTyped, LoadStartTyped DEF Next
<1> QED
    BY <1>1, <1>2

LEMMA TypedIsTypeOK == Typed => WatchTypeOK
<1> SUFFICES ASSUME Typed PROVE WatchTypeOK
    OBVIOUS
<1>1. \A c \in Connections : rows[c] \in RowLists
    BY DEF Typed
<1>2. ASSUME NEW t \in Tabs, tab[t].step = "shown", NEW s \in Skins
      PROVE  tab[t].card[s].on \in BOOLEAN
    BY <1>2, ShownPage DEF CardStates
<1> QED
    BY <1>1, <1>2, RowsCounted DEF Typed, WatchTypeOK, Requests, SentRequests

\* Rows are skins and none is stored twice; cards are on or off; requests,
\* toggles and failures are what the code counts.
THEOREM WatchTypeCorrect ==
    ASSUME ConstantsFit
    PROVE  Spec => []WatchTypeOK
<1>1. Init => Typed /\ Attended
    BY InitTyped
<1>2. Typed /\ Attended /\ [Next]_vars => (Typed /\ Attended)'
    BY StepTyped
<1>3. Typed /\ Attended => WatchTypeOK
    BY TypedIsTypeOK
<1> QED
    BY <1>1, <1>2, <1>3, PTL DEF Spec

-----------------------------------------------------------------------------
(* Cards.                                                                   *)

Truth(t, s) == s \in Range(rows[tab[t].c])

Asks(r, t, s) == r.t = t /\ r.s = s

\* A page that is loading was given the rows.  Of a page that is shown, with no
\* request on the card: the page was given the row as it is, and a card at rest
\* shows it.  With one, it is the only one; until it is saved the row and what
\* the page was given are the opposite of what it wants; and its card, if it is
\* still there, waits for it.
CardKnown(t, s) ==
    /\ tab[t].step = "loading" => (s \in tab[t].props <=> Truth(t, s))
    /\ tab[t].step = "shown" =>
         /\ (\A r \in requests : ~Asks(r, t, s)) =>
               /\ s \in tab[t].props <=> Truth(t, s)
               /\ Idle(t, s) => (tab[t].card[s].on <=> Truth(t, s))
         /\ \A r \in requests : Asks(r, t, s) =>
               /\ \A q \in requests : Asks(q, t, s) => q = r
               /\ r.step = "saved" => (Truth(t, s) <=> r.want)
               /\ r.step # "saved" => /\ Truth(t, s) <=> ~r.want
                                      /\ s \in tab[t].props <=> Truth(t, s)
               /\ tab[t].card[s].mounted => /\ tab[t].card[s].pending
                                            /\ tab[t].card[s].last = r.id
                                            /\ tab[t].card[s].on <=> r.want

CardsKnown == \A t \in Tabs : \A s \in Skins \ dirty[t] : CardKnown(t, s)

\* A step that leaves a card, its page, its row and its requests alone.
LEMMA CardKept ==
    ASSUME Typed, NEW t \in Tabs, NEW s \in Skins, CardKnown(t, s),
           tab'[t].step = tab[t].step,
           tab[t].step # "closed" => tab'[t].props = tab[t].props,
           tab[t].step # "closed" => (Truth(t, s)' <=> Truth(t, s)),
           tab[t].step = "shown" => tab'[t].card[s] = tab[t].card[s],
           \A r : Asks(r, t, s) => (r \in requests' <=> r \in requests)
    PROVE  CardKnown(t, s)'
<1>1. tab[t].step = "loading" => (s \in tab'[t].props <=> Truth(t, s)')
    BY DEF CardKnown
<1>2. ASSUME tab[t].step = "shown"
      PROVE  /\ (\A r \in requests' : ~Asks(r, t, s)) =>
                   /\ s \in tab'[t].props <=> Truth(t, s)'
                   /\ Idle(t, s)' => (tab'[t].card[s].on <=> Truth(t, s)')
             /\ \A r \in requests' : Asks(r, t, s) =>
                   /\ \A q \in requests' : Asks(q, t, s) => q = r
                   /\ r.step = "saved" => (Truth(t, s)' <=> r.want)
                   /\ r.step # "saved" => /\ Truth(t, s)' <=> ~r.want
                                          /\ s \in tab'[t].props <=> Truth(t, s)'
                   /\ tab'[t].card[s].mounted => /\ tab'[t].card[s].pending
                                                 /\ tab'[t].card[s].last = r.id
                                                 /\ tab'[t].card[s].on <=> r.want
    <2>1. Idle(t, s)' <=> Idle(t, s)
        BY <1>2 DEF Idle
    <2> QED
        BY <1>2, <2>1 DEF CardKnown
<1> QED
    BY <1>1, <1>2 DEF CardKnown, Asks

LEMMA NewCardOn ==
    ASSUME NEW s, NEW props
    PROVE  NewCard(s, props).on <=> s \in props
<1>1. NewCard(s, props).on = (s \in props)
    BY DEF NewCard
<1> QED
    BY <1>1

LEMMA InitCards == Init => CardsKnown
BY DEF Init, CardsKnown, CardKnown, NoPage

LEMMA ReadPageCards ==
    ASSUME Typed, Attended, CardsKnown, NEW u \in Tabs, NEW c \in Connections, ReadPage(u, c)
    PROVE  CardsKnown'
<1> SUFFICES ASSUME NEW t \in Tabs, NEW s \in Skins, s \notin dirty'[t]
             PROVE  CardKnown(t, s)'
    BY DEF CardsKnown
<1>1. CASE t = u
    <2>1. /\ tab'[t].step = "loading" /\ tab'[t].c = c
          /\ tab'[t].props = Range(rows[c]) /\ rows' = rows
        BY <1>1 DEF ReadPage, Typed
    <2> QED
        BY <2>1 DEF CardKnown, Truth
<1>2. CASE t # u
    <2>1. tab'[t] = tab[t] /\ rows' = rows /\ requests' = requests /\ dirty'[t] = dirty[t]
        BY <1>2 DEF ReadPage, Typed
    <2> QED
        BY <2>1, CardKept DEF CardsKnown, Truth
<1> QED
    BY <1>1, <1>2

LEMMA ShowPageCards ==
    ASSUME Typed, Attended, CardsKnown, NEW u \in Tabs, ShowPage(u)
    PROVE  CardsKnown'
<1> SUFFICES ASSUME NEW t \in Tabs, NEW s \in Skins, s \notin dirty'[t]
             PROVE  CardKnown(t, s)'
    BY DEF CardsKnown
<1>0. CardKnown(t, s) /\ rows' = rows /\ requests' = requests
    BY DEF CardsKnown, ShowPage
<1>1. CASE t = u
    <2>1. /\ tab'[t].step = "shown" /\ tab'[t].c = tab[t].c
          /\ tab'[t].props = tab[t].props
          /\ tab'[t].card[s] = NewCard(s, tab[t].props)
          /\ tab[t].step = "loading"
        BY <1>1 DEF ShowPage, Typed
    <2>2. \A r \in requests' : ~Asks(r, t, s)
        BY <1>0, <2>1 DEF Attended, Asks
    <2>3. s \in tab'[t].props <=> Truth(t, s)'
        BY <1>0, <2>1 DEF CardKnown, Truth
    <2>4. tab'[t].card[s].on <=> s \in tab[t].props
        BY <2>1, NewCardOn
    <2> QED
        BY <2>1, <2>2, <2>3, <2>4 DEF CardKnown
<1>2. CASE t # u
    <2>1. tab'[t] = tab[t]
        BY <1>2 DEF ShowPage, Typed
    <2> QED
        BY <1>0, <2>1, CardKept DEF Truth
<1> QED
    BY <1>1, <1>2

LEMMA ClosePageCards ==
    ASSUME Typed, Attended, CardsKnown, NEW u \in Tabs, ClosePage(u)
    PROVE  CardsKnown'
<1> SUFFICES ASSUME NEW t \in Tabs, NEW s \in Skins, s \notin dirty'[t]
             PROVE  CardKnown(t, s)'
    BY DEF CardsKnown
<1>0. CardKnown(t, s) /\ rows' = rows /\ requests' = {r \in requests : r.t # u}
    BY DEF CardsKnown, ClosePage
<1>1. CASE t = u
    BY <1>1 DEF ClosePage, Typed, NoPage, CardKnown
<1>2. CASE t # u
    <2>1. tab'[t] = tab[t]
        BY <1>2 DEF ClosePage, Typed
    <2>2. \A r : Asks(r, t, s) => (r \in requests' <=> r \in requests)
        BY <1>0, <1>2 DEF Asks
    <2> QED
        BY <1>0, <2>1, <2>2, CardKept DEF Truth
<1> QED
    BY <1>1, <1>2

\* A card at rest that was told of everything has no request under way.
LEMMA IdleHasNoRequest ==
    ASSUME CardsKnown, NEW t \in Tabs, NEW s \in Skins, s \notin dirty[t], Idle(t, s)
    PROVE  \A r \in requests : ~Asks(r, t, s)
BY DEF CardsKnown, CardKnown, Idle

LEMMA ToggleCards ==
    ASSUME Typed, Attended, CardsKnown, NEW u \in Tabs, NEW z \in Skins, Toggle(u, z)
    PROVE  CardsKnown'
<1> SUFFICES ASSUME NEW t \in Tabs, NEW s \in Skins, s \notin dirty'[t]
             PROVE  CardKnown(t, s)'
    BY DEF CardsKnown
<1> DEFINE want == ~tab[u].card[z].on
           card == [tab[u].card[z] EXCEPT !.on = want, !.pending = TRUE,
                                          !.failed = FALSE, !.last = sent + 1]
           r == [id |-> sent + 1, t |-> u, c |-> tab[u].c, s |-> z, want |-> want,
                 step |-> "sent"]
<1>1. /\ CardKnown(t, s) /\ s \notin dirty[t] /\ rows' = rows
      /\ tab[u].step = "shown" /\ Idle(u, z)
    BY DEF CardsKnown, Toggle, Idle
<1>2. /\ tab' = [tab EXCEPT ![u].card[z] = card] /\ requests' = requests \cup {r}
    BY DEF Toggle
<1>3. tab[u].card[z] \in CardStates /\ sent + 1 \in Nat
    BY <1>1, ShownPage DEF Typed
<1>4. card \in CardStates
    <2>1. want \in BOOLEAN
        OBVIOUS
    <2> HIDE DEF want
    <2> QED
        BY <1>3, <2>1 DEF CardStates
<1>5. card.on = want /\ card.pending /\ card.last = sent + 1
    <2> HIDE DEF want
    <2> QED
        BY <1>3 DEF CardStates
<1>6. r.t = u /\ r.s = z /\ r.id = sent + 1 /\ r.want = want /\ r.step = "sent"
    OBVIOUS
<1> HIDE DEF card, r
<1>7. /\ tab'[u].step = "shown" /\ tab'[u].c = tab[u].c
      /\ tab'[u].props = tab[u].props
      /\ tab'[u].card = [tab[u].card EXCEPT ![z] = card]
      /\ \A v \in Tabs \ {u} : tab'[v] = tab[v]
    <2>1. /\ Typed /\ u \in Tabs /\ z \in Skins /\ card \in CardStates
          /\ tab[u].step = "shown" /\ tab' = [tab EXCEPT ![u].card[z] = card]
        BY <1>1, <1>2, <1>4
    <2> QED
        BY ONLY <2>1, CardTyped, ZenonT(30)
<1>8. CASE t = u /\ s = z
    <2>1. \A q \in requests : ~Asks(q, t, s)
        BY <1>1, <1>8, IdleHasNoRequest
    <2>2. /\ s \in tab[t].props <=> Truth(t, s)
          /\ tab[t].card[s].on <=> Truth(t, s)
        BY <1>1, <1>8, <2>1 DEF CardKnown
    <2>3. /\ s \in tab'[t].props <=> Truth(t, s)'
          /\ Truth(t, s)' <=> ~r.want
        BY <1>1, <1>6, <1>7, <1>8, <2>2 DEF Truth
    <2>4. \A q \in requests' : Asks(q, t, s) <=> q = r
        BY <1>2, <1>6, <1>8, <2>1 DEF Asks
    <2>5. tab'[t].card[s] = card
        BY <1>1, <1>7, <1>8, ShownPage
    <2>6. r \in requests'
        BY <1>2
    <2> QED
        BY <1>5, <1>6, <1>7, <1>8, <2>3, <2>4, <2>5, <2>6 DEF CardKnown, Asks
<1>9. CASE ~(t = u /\ s = z)
    <2>1. /\ tab'[t].step = tab[t].step /\ tab'[t].c = tab[t].c
          /\ tab'[t].props = tab[t].props
          /\ tab[t].step = "shown" => tab'[t].card[s] = tab[t].card[s]
        BY <1>1, <1>7, <1>9, ShownPage
    <2>2. \A q : Asks(q, t, s) => (q \in requests' <=> q \in requests)
        BY <1>2, <1>6, <1>9 DEF Asks
    <2> QED
        BY <1>1, <2>1, <2>2, CardKept DEF Truth
<1> QED
    BY <1>8, <1>9

LEMMA HideCards ==
    ASSUME Typed, Attended, CardsKnown, NEW u \in Tabs, NEW z \in Skins, Hide(u, z)
    PROVE  CardsKnown'
<1> SUFFICES ASSUME NEW t \in Tabs, NEW s \in Skins, s \notin dirty'[t]
             PROVE  CardKnown(t, s)'
    BY DEF CardsKnown
<1> DEFINE card == [tab[u].card[z] EXCEPT !.mounted = FALSE]
<1>1. /\ CardKnown(t, s) /\ rows' = rows /\ requests' = requests
      /\ tab[u].step = "shown" /\ tab' = [tab EXCEPT ![u].card[z] = card]
    BY DEF CardsKnown, Hide
<1>2. tab[u].card[z] \in CardStates
    BY <1>1, ShownPage
<1>3. card \in CardStates /\ ~card.mounted
    BY <1>2 DEF CardStates
<1> HIDE DEF card
<1>4. /\ tab'[u].step = "shown" /\ tab'[u].c = tab[u].c
      /\ tab'[u].props = tab[u].props
      /\ tab'[u].card = [tab[u].card EXCEPT ![z] = card]
      /\ \A v \in Tabs \ {u} : tab'[v] = tab[v]
    <2>1. /\ Typed /\ u \in Tabs /\ z \in Skins /\ card \in CardStates
          /\ tab[u].step = "shown" /\ tab' = [tab EXCEPT ![u].card[z] = card]
        BY <1>1, <1>3
    <2> QED
        BY ONLY <2>1, CardTyped, ZenonT(30)
<1>5. CASE t = u /\ s = z
    <2>1. tab'[t].card[s] = card
        BY <1>1, <1>4, <1>5, ShownPage
    <2>2. Truth(t, s)' <=> Truth(t, s)
        BY <1>1, <1>4, <1>5 DEF Truth
    <2>3. ~tab'[t].card[s].mounted
        BY <1>3, <2>1
    <2> QED
        BY <1>1, <1>4, <1>5, <2>2, <2>3 DEF CardKnown, Idle, Asks
<1>6. CASE ~(t = u /\ s = z)
    <2>1. /\ tab'[t].step = tab[t].step /\ tab'[t].c = tab[t].c
          /\ tab'[t].props = tab[t].props
          /\ tab[t].step = "shown" => tab'[t].card[s] = tab[t].card[s]
        BY <1>1, <1>4, <1>6, ShownPage
    <2> QED
        BY <1>1, <2>1, CardKept DEF Truth
<1> QED
    BY <1>5, <1>6

LEMMA RevealCards ==
    ASSUME Typed, Attended, CardsKnown, NEW u \in Tabs, NEW z \in Skins, Reveal(u, z)
    PROVE  CardsKnown'
<1> SUFFICES ASSUME NEW t \in Tabs, NEW s \in Skins, s \notin dirty'[t]
             PROVE  CardKnown(t, s)'
    BY DEF CardsKnown
<1> DEFINE card == NewCard(z, tab[u].props)
<1>1. /\ rows' = rows /\ requests' = requests
      /\ tab[u].step = "shown" /\ tab' = [tab EXCEPT ![u].card[z] = card]
    BY DEF Reveal
<1>2. card.on <=> z \in tab[u].props
    BY NewCardOn
<1>3. s \notin dirty[t] /\ CardKnown(t, s)
    BY DEF CardsKnown, Reveal, Typed
<1>7. card \in CardStates
    BY NewCardTyped
<1> HIDE DEF card
<1>4. /\ tab'[u].step = "shown" /\ tab'[u].c = tab[u].c
      /\ tab'[u].props = tab[u].props
      /\ tab'[u].card = [tab[u].card EXCEPT ![z] = card]
      /\ \A v \in Tabs \ {u} : tab'[v] = tab[v]
    <2>1. /\ Typed /\ u \in Tabs /\ z \in Skins /\ card \in CardStates
          /\ tab[u].step = "shown" /\ tab' = [tab EXCEPT ![u].card[z] = card]
        BY <1>1, <1>7
    <2> QED
        BY ONLY <2>1, CardTyped, ZenonT(30)
<1>5. CASE t = u /\ s = z
    <2>1. \A r \in requests : ~Asks(r, t, s)
        BY <1>5 DEF Reveal, Typed, Asks
    <2>2. tab'[t].card[s] = card
        BY <1>1, <1>4, <1>5, ShownPage
    <2>3. s \in tab'[t].props <=> Truth(t, s)'
        BY <1>1, <1>3, <1>4, <1>5, <2>1 DEF CardKnown, Truth
    <2> QED
        BY <1>1, <1>2, <1>4, <1>5, <2>1, <2>2, <2>3 DEF CardKnown
<1>6. CASE ~(t = u /\ s = z)
    <2>1. /\ tab'[t].step = tab[t].step /\ tab'[t].c = tab[t].c
          /\ tab'[t].props = tab[t].props
          /\ tab[t].step = "shown" => tab'[t].card[s] = tab[t].card[s]
        BY <1>1, <1>4, <1>6, ShownPage
    <2> QED
        BY <1>1, <1>3, <2>1, CardKept DEF Truth
<1> QED
    BY <1>5, <1>6

\* Which rows a write changes, and which cards it makes unaware.
LEMMA WriteRowTruth ==
    ASSUME Typed, Attended, NEW r \in requests, r.step = "sent",
           rows' = [rows EXCEPT ![r.c] = Written(r)], dirty' = Elsewhere(r, {r.t}), tab' = tab,
           NEW t \in Tabs, NEW s \in Skins, s \notin dirty'[t], tab[t].step # "closed"
    PROVE  /\ s \notin dirty[t]
           /\ r.t = t /\ r.s = s => (Truth(t, s)' <=> r.want)
           /\ ~(r.t = t /\ r.s = s) => (Truth(t, s)' <=> Truth(t, s))
<1>1. /\ r \in Requests /\ r.c \in Connections /\ r.want \in BOOLEAN
      /\ tab[t].c \in Connections /\ tab[r.t].c = r.c
    BY DEF Typed, Requests, Pages, Attended
<1>2. Range(Written(r)) = IF r.want THEN Range(rows[r.c]) \cup {r.s}
                          ELSE Range(rows[r.c]) \ {r.s}
    BY <1>1, WrittenRows
<1>3. Range(rows'[tab[t].c]) = IF tab[t].c = r.c THEN Range(Written(r))
                               ELSE Range(rows[tab[t].c])
    BY <1>1 DEF Typed
<1>4. /\ s \notin dirty[t]
      /\ t # r.t /\ tab[t].c = r.c => s # r.s
    BY DEF Elsewhere
<1> QED
    BY <1>1, <1>2, <1>3, <1>4 DEF Truth

LEMMA WriteRowCards ==
    ASSUME Typed, Attended, CardsKnown, NEW r \in requests, WriteRow(r)
    PROVE  CardsKnown'
<1> SUFFICES ASSUME NEW t \in Tabs, NEW s \in Skins, s \notin dirty'[t]
             PROVE  CardKnown(t, s)'
    BY DEF CardsKnown
<1>1. /\ tab' = tab /\ r.step = "sent" /\ r \in Requests /\ r.want \in BOOLEAN
    BY DEF WriteRow, Typed, Requests
<1>2. ASSUME NEW q, q.t = r.t, q.s = r.s, q.id = r.id, q.want = r.want,
             q.step \in {"saved", "refused"},
             requests' = (requests \ {r}) \cup {q}, CardKnown(t, s),
             tab[t].step # "closed" =>
                IF Asks(r, t, s) /\ q.step = "saved" THEN Truth(t, s)' <=> r.want
                ELSE Truth(t, s)' <=> Truth(t, s)
      PROVE  CardKnown(t, s)'
    <2>1. CASE tab[t].step = "closed"
        BY <1>1, <2>1 DEF CardKnown
    <2>2. CASE tab[t].step # "closed" /\ ~Asks(r, t, s)
        <3>1. \A p : Asks(p, t, s) => (p \in requests' <=> p \in requests)
            BY <1>2, <2>2 DEF Asks
        <3> QED
            BY <1>1, <1>2, <2>2, <3>1, CardKept
    <2>3. CASE tab[t].step # "closed" /\ Asks(r, t, s)
        <3>1. tab[t].step = "shown"
            BY <2>3 DEF Attended, Asks
        <3>2. /\ \A p \in requests : Asks(p, t, s) => p = r
              /\ Truth(t, s) <=> ~r.want
              /\ s \in tab[t].props <=> Truth(t, s)
              /\ tab[t].card[s].mounted => /\ tab[t].card[s].pending
                                           /\ tab[t].card[s].last = r.id
                                           /\ tab[t].card[s].on <=> r.want
            BY <1>1, <1>2, <2>3, <3>1 DEF CardKnown
        <3>3. \A p \in requests' : Asks(p, t, s) <=> p = q
            BY <1>2, <2>3, <3>2 DEF Asks
        <3>4. q \in requests'
            BY <1>2
        <3>5. /\ q.step = "saved" => (Truth(t, s)' <=> q.want)
              /\ q.step # "saved" => /\ Truth(t, s)' <=> ~q.want
                                     /\ s \in tab[t].props <=> Truth(t, s)'
            BY <1>2, <2>3, <3>2
        <3> QED
            BY <1>1, <1>2, <3>1, <3>2, <3>3, <3>4, <3>5 DEF CardKnown
    <2> QED
        BY <2>1, <2>2, <2>3
<1>3. CASE /\ rows' = [rows EXCEPT ![r.c] = Written(r)]
           /\ requests' = (requests \ {r}) \cup {[r EXCEPT !.step = "saved"]}
           /\ load' = Noticed(r) /\ dirty' = Elsewhere(r, {r.t}) /\ UNCHANGED faults
    <2> DEFINE q == [r EXCEPT !.step = "saved"]
    <2>1. /\ q.t = r.t /\ q.s = r.s /\ q.id = r.id /\ q.want = r.want /\ q.step = "saved"
        BY <1>1 DEF Requests
    <2>2. s \notin dirty[t]
        BY <1>3 DEF Elsewhere
    <2>3. CardKnown(t, s)
        BY <2>2 DEF CardsKnown
    <2>4. requests' = (requests \ {r}) \cup {q}
        BY <1>3
    <2> HIDE DEF q
    <2>5. tab[t].step # "closed" =>
             IF Asks(r, t, s) THEN Truth(t, s)' <=> r.want ELSE Truth(t, s)' <=> Truth(t, s)
        BY <1>1, <1>3, WriteRowTruth DEF Asks
    <2> QED
        BY <1>2, <2>1, <2>3, <2>4, <2>5
<1>4. CASE /\ requests' = (requests \ {r}) \cup {[r EXCEPT !.step = "refused"]}
           /\ Fault /\ UNCHANGED <<rows, load, dirty>>
    <2> DEFINE q == [r EXCEPT !.step = "refused"]
    <2>1. /\ q.t = r.t /\ q.s = r.s /\ q.id = r.id /\ q.want = r.want /\ q.step = "refused"
        BY <1>1 DEF Requests
    <2>2. CardKnown(t, s)
        BY <1>4 DEF CardsKnown
    <2>3. requests' = (requests \ {r}) \cup {q}
        BY <1>4
    <2> HIDE DEF q
    <2>4. Truth(t, s)' <=> Truth(t, s)
        BY <1>1, <1>4 DEF Truth
    <2> QED
        BY <1>2, <2>1, <2>2, <2>3, <2>4
<1> QED
    BY <1>3, <1>4 DEF WriteRow

LEMMA WriteLeftCards ==
    ASSUME Typed, Attended, CardsKnown, NEW r \in left, WriteLeft(r)
    PROVE  CardsKnown'
<1> SUFFICES ASSUME NEW t \in Tabs, NEW s \in Skins, s \notin dirty'[t]
             PROVE  CardKnown(t, s)'
    BY DEF CardsKnown
<1>1. /\ r \in Requests /\ r.c \in Connections /\ tab' = tab /\ requests' = requests
      /\ rows' = [rows EXCEPT ![r.c] = Written(r)] /\ dirty' = Elsewhere(r, {})
    BY DEF WriteLeft, Typed, SentRequests, Requests
<1>2. /\ s \notin dirty[t]
      /\ tab[t].step # "closed" /\ tab[t].c = r.c => s # r.s
    BY <1>1 DEF Elsewhere
<1>3. CardKnown(t, s)
    BY <1>2 DEF CardsKnown
<1>4. ASSUME tab[t].step # "closed"
      PROVE  Truth(t, s)' <=> Truth(t, s)
    <2>1. tab[t].c \in Connections
        BY <1>4 DEF Typed, Pages
    <2>2. Range(Written(r)) = IF r.want THEN Range(rows[r.c]) \cup {r.s}
                              ELSE Range(rows[r.c]) \ {r.s}
        BY <1>1, WrittenRows
    <2>3. Range(rows'[tab[t].c]) = IF tab[t].c = r.c THEN Range(Written(r))
                                   ELSE Range(rows[tab[t].c])
        BY <1>1, <2>1 DEF Typed
    <2> QED
        BY <1>1, <1>2, <1>4, <2>2, <2>3 DEF Truth
<1> QED
    BY <1>1, <1>3, <1>4, CardKept

LEMMA AnswerCards ==
    ASSUME Typed, Attended, CardsKnown, NEW r \in requests, Answer(r)
    PROVE  CardsKnown'
<1> SUFFICES ASSUME NEW t \in Tabs, NEW s \in Skins, s \notin dirty'[t]
             PROVE  CardKnown(t, s)'
    BY DEF CardsKnown
<1>1. /\ rows' = rows /\ requests' = requests \ {r} /\ CardKnown(t, s)
      /\ r \in Requests /\ r.want \in BOOLEAN /\ r.t \in Tabs /\ r.s \in Skins
      /\ r.step \in {"saved", "refused"}
      /\ tab[r.t].step = "shown" /\ tab[r.t].card \in [Skins -> CardStates]
    BY ShownPage DEF Answer, CardsKnown, Typed, Requests, Attended
<1>2. /\ tab'[r.t].step = "shown" /\ tab'[r.t].c = tab[r.t].c
      /\ tab'[r.t].props = IF r.step = "saved" THEN Fresh(r) ELSE tab[r.t].props
      /\ tab'[r.t].card = [tab[r.t].card EXCEPT ![r.s] =
            IF IsCardOf(r) THEN Settled(@, r, r.step = "saved") ELSE @]
      /\ \A u \in Tabs \ {r.t} : tab'[u] = tab[u]
    BY AnsweredPage
<1>3. Truth(t, s)' <=> Truth(t, s)
    BY <1>1, <1>2 DEF Truth
<1>4. t = r.t /\ r.step = "saved" => (s \in tab'[t].props <=> Truth(t, s)')
    BY <1>1, <1>2 DEF Fresh, Truth
<1>5. CASE t # r.t
    <2>1. tab'[t] = tab[t]
        BY <1>2, <1>5
    <2>2. \A q : Asks(q, t, s) => (q \in requests' <=> q \in requests)
        BY <1>1, <1>5 DEF Asks
    <2> QED
        BY <1>1, <1>3, <2>1, <2>2, CardKept
<1>6. CASE t = r.t /\ s # r.s
    <2>1. tab'[t].card[s] = tab[t].card[s]
        BY <1>1, <1>2, <1>6
    <2>2. \A q : Asks(q, t, s) => (q \in requests' <=> q \in requests)
        BY <1>1, <1>6 DEF Asks
    <2>3. CASE r.step = "saved"
        <3>1. s \in tab'[t].props <=> Truth(t, s)'
            BY <1>4, <1>6, <2>3
        <3>2. tab'[t].step = "shown" /\ tab[t].step = "shown"
            BY <1>1, <1>2, <1>6
        <3>3. Idle(t, s)' <=> Idle(t, s)
            BY <2>1, <3>2 DEF Idle
        <3>4. (\A q \in requests' : ~Asks(q, t, s)) =>
                 (Idle(t, s)' => (tab'[t].card[s].on <=> Truth(t, s)'))
            BY <1>1, <1>3, <2>1, <2>2, <3>2, <3>3 DEF CardKnown
        <3>5. ASSUME NEW p \in requests', Asks(p, t, s)
              PROVE  /\ \A q \in requests' : Asks(q, t, s) => q = p
                     /\ p.step = "saved" => (Truth(t, s)' <=> p.want)
                     /\ p.step # "saved" => (Truth(t, s)' <=> ~p.want)
                     /\ tab'[t].card[s].mounted => /\ tab'[t].card[s].pending
                                                   /\ tab'[t].card[s].last = p.id
                                                   /\ tab'[t].card[s].on <=> p.want
            BY <1>1, <1>3, <2>1, <2>2, <3>2, <3>5 DEF CardKnown
        <3> QED
            BY <3>1, <3>2, <3>4, <3>5 DEF CardKnown
    <2>4. CASE r.step # "saved"
        <3>1. tab'[t].props = tab[t].props /\ tab'[t].step = tab[t].step
            BY <1>1, <1>2, <1>6, <2>4
        <3> QED
            BY <1>1, <1>3, <2>1, <2>2, <3>1, CardKept
    <2> QED
        BY <2>3, <2>4
<1>7. CASE t = r.t /\ s = r.s
    <2>1. /\ \A q \in requests : Asks(q, t, s) => q = r
          /\ r.step = "saved" => (Truth(t, s) <=> r.want)
          /\ r.step # "saved" => /\ Truth(t, s) <=> ~r.want
                                 /\ s \in tab[t].props <=> Truth(t, s)
          /\ tab[t].card[s].mounted => /\ tab[t].card[s].pending
                                       /\ tab[t].card[s].last = r.id
                                       /\ tab[t].card[s].on <=> r.want
        <3>1. Asks(r, t, s)
            BY <1>7 DEF Asks
        <3> QED
            BY <1>1, <1>7, <3>1 DEF CardKnown
    <2>2. \A q \in requests' : ~Asks(q, t, s)
        BY <1>1, <2>1
    <2>3. s \in tab'[t].props <=> Truth(t, s)'
        BY <1>2, <1>3, <1>4, <1>7, <2>1
    <2>4. CASE tab[t].card[s].mounted
        <3>1. IsCardOf(r)
            BY <1>1, <1>7, <2>1, <2>4 DEF IsCardOf
        <3>2. tab'[t].card[s] = Settled(tab[t].card[s], r, r.step = "saved")
            BY <1>1, <1>2, <1>7, <3>1
        <3>3. /\ r.step = "saved" =>
                    (Settled(tab[t].card[s], r, r.step = "saved").on <=> tab[t].card[s].on)
              /\ r.step # "saved" =>
                    (Settled(tab[t].card[s], r, r.step = "saved").on <=> ~r.want)
            BY <1>1, <1>7 DEF Settled, CardStates
        <3> QED
            BY <1>2, <1>3, <1>7, <2>1, <2>2, <2>3, <2>4, <3>2, <3>3 DEF CardKnown
    <2>5. CASE ~tab[t].card[s].mounted
        <3>1. ~IsCardOf(r)
            BY <1>7, <2>5 DEF IsCardOf
        <3>2. tab'[t].card[s] = tab[t].card[s]
            BY <1>1, <1>2, <1>7, <3>1
        <3>3. ~Idle(t, s)'
            BY <2>5, <3>2 DEF Idle
        <3> QED
            BY <1>2, <1>7, <2>2, <2>3, <3>3 DEF CardKnown
    <2> QED
        BY <2>4, <2>5
<1> QED
    BY <1>5, <1>6, <1>7

LEMMA LoseAnswerCards ==
    ASSUME Typed, Attended, CardsKnown, NEW r \in requests, LoseAnswer(r)
    PROVE  CardsKnown'
<1> SUFFICES ASSUME NEW t \in Tabs, NEW s \in Skins, s \notin dirty'[t]
             PROVE  CardKnown(t, s)'
    BY DEF CardsKnown
<1>1. /\ rows' = rows /\ requests' = requests \ {r} /\ r.t \in Tabs
      /\ dirty' = [dirty EXCEPT ![r.t] = @ \cup {r.s}] /\ tab[r.t].step = "shown"
    BY DEF LoseAnswer, Typed, Requests, Attended
<1>2. s \notin dirty[t] /\ ~Asks(r, t, s)
    BY <1>1 DEF Typed, Asks
<1>3. CardKnown(t, s)
    BY <1>2 DEF CardsKnown
<1>4. \A q : Asks(q, t, s) => (q \in requests' <=> q \in requests)
    BY <1>1, <1>2
<1>5. /\ tab'[t].step = tab[t].step /\ tab'[t].c = tab[t].c
      /\ tab'[t].props = tab[t].props
      /\ tab[t].step = "shown" => tab'[t].card[s] = tab[t].card[s]
    BY <1>1, <1>2, LostPage DEF Asks
<1> QED
    BY <1>1, <1>3, <1>4, <1>5, CardKept DEF Truth

LEMMA StepCards == Typed /\ Attended /\ CardsKnown /\ [Next]_vars => CardsKnown'
<1> SUFFICES ASSUME Typed, Attended, CardsKnown, [Next]_vars
             PROVE  CardsKnown'
    OBVIOUS
<1>1. ASSUME UNCHANGED <<rows, tab, requests, dirty>>
      PROVE  CardsKnown'
    BY <1>1 DEF CardsKnown, CardKnown, Truth, Idle
<1>2. CASE UNCHANGED vars
    BY <1>1, <1>2 DEF vars
<1>3. ASSUME NEW k \in Loaders, LoadPage(k) \/ \E c \in Connections : LoadStart(k, c)
      PROVE  CardsKnown'
    BY <1>1, <1>3 DEF LoadPage, LoadStart
<1>4. CASE Next
    BY <1>3, <1>4, ShowPageCards, ClosePageCards, ReadPageCards, ToggleCards, HideCards,
       RevealCards, WriteRowCards, WriteLeftCards, AnswerCards, LoseAnswerCards DEF Next
<1> QED
    BY <1>2, <1>4

\* A card at rest shows its row: after saves, refusals and rollbacks, after the
\* search hid and showed it again, and whatever other cards of the page did.
THEOREM CardsAreTrue ==
    ASSUME ConstantsFit
    PROVE  Spec => []CardIsTruth
<1>1. Init => Typed /\ Attended /\ CardsKnown
    BY InitTyped, InitCards
<1>2. Typed /\ Attended /\ CardsKnown /\ [Next]_vars => (Typed /\ Attended /\ CardsKnown)'
    BY StepTyped, StepCards
<1>3. Typed /\ CardsKnown => CardIsTruth
    <2> SUFFICES ASSUME Typed, CardsKnown, NEW t \in Tabs, NEW s \in Skins,
                        Idle(t, s), s \notin dirty[t],
                        \A r \in requests : r.t # t \/ r.s # s
                 PROVE  tab[t].card[s].on = (s \in Range(rows[tab[t].c]))
        BY DEF CardIsTruth
    <2>1. tab[t].step = "shown"
        BY DEF Idle
    <2>2. tab[t].card[s].on <=> Truth(t, s)
        BY <2>1 DEF CardsKnown, CardKnown, Asks
    <2>3. tab[t].card[s].on \in BOOLEAN
        BY <2>1, ShownPage DEF CardStates
    <2> QED
        BY <2>2, <2>3 DEF Truth
<1> QED
    BY <1>1, <1>2, <1>3, PTL DEF Spec

-----------------------------------------------------------------------------
(* Loads.                                                                   *)

\* What a reader has not read of what it wanted, and will not read: it is gone,
\* or has slipped in front of the offset.
Late(from, got, list, o) ==
    {s \in from \ got : \A i \in 1..Len(list) : list[i] = s => i <= o}

Slipped(k) == Late(load[k].from, load[k].got, RowsOf(k, load[k].c), load[k].offset)

\* Every removal lets one skin slip at most, and nothing else does.
LoadComplete(k) ==
    /\ load[k].step = "page" => Cardinality(Slipped(k)) <= load[k].removed
    /\ load[k].step = "done" =>
          Cardinality(load[k].from \ load[k].got) <= load[k].removed

\* What was read had been seen, and what can be read has been.
LoadSeen(k) ==
    /\ load[k].step \in {"page", "done"} => load[k].got \subseteq load[k].seen
    /\ load[k].step = "page" => Range(rows[load[k].c]) \subseteq load[k].seen

LoadsKnown == \A k \in Loaders : LoadComplete(k) /\ LoadSeen(k)

LEMMA NoMoreSlip ==
    ASSUME NEW T, IsFiniteSet(T), NEW S \in SUBSET T, NEW n \in Nat, Cardinality(T) <= n
    PROVE  Cardinality(S) <= n
<1>1. IsFiniteSet(S) /\ Cardinality(S) <= Cardinality(T)
    BY FS_Subset
<1>2. Cardinality(S) \in Nat /\ Cardinality(T) \in Nat
    BY <1>1, FS_CardinalityType
<1> QED
    BY <1>1, <1>2

LEMMA OneMoreSlips ==
    ASSUME NEW T, IsFiniteSet(T), NEW x, NEW S \in SUBSET (T \cup {x}),
           NEW n \in Nat, Cardinality(T) <= n
    PROVE  Cardinality(S) <= n + 1
<1>1. IsFiniteSet(T \cup {x}) /\ Cardinality(T \cup {x}) <= n + 1
    <2>1. Cardinality(T) \in Nat
        BY FS_CardinalityType
    <2>2. /\ IsFiniteSet(T \cup {x})
          /\ Cardinality(T \cup {x}) =
                IF x \in T THEN Cardinality(T) ELSE Cardinality(T) + 1
        BY FS_AddElement
    <2> QED
        BY <2>1, <2>2
<1> QED
    BY <1>1, NoMoreSlip

\* Rows that keep their places or move back do not slip.
LEMMA NoneSlips ==
    ASSUME NEW from, NEW got, NEW b, NEW d, NEW o \in Nat,
           \A i \in 1..Len(b) : \E j \in 1..Len(d) : i <= j /\ d[j] = b[i]
    PROVE  Late(from, got, d, o) \subseteq Late(from, got, b, o)
<1> SUFFICES ASSUME NEW s \in Late(from, got, d, o), NEW i \in 1..Len(b), b[i] = s
             PROVE  i <= o
    BY DEF Late
<1>1. PICK j \in 1..Len(d) : i <= j /\ d[j] = s
    OBVIOUS
<1>2. j <= o
    BY <1>1 DEF Late
<1> QED
    BY <1>1, <1>2

\* When the row in place p is taken out, the one that can slip is that row or
\* the first that was still to be read.
LEMMA OneSlips ==
    ASSUME NEW from, NEW got, NEW b, NEW d, NEW o \in Nat, NEW p \in Nat,
           \A i \in 1..Len(b) :
              /\ i < p => i \in 1..Len(d) /\ d[i] = b[i]
              /\ i > p => i - 1 \in 1..Len(d) /\ d[i - 1] = b[i]
    PROVE  \E x : Late(from, got, d, o) \subseteq Late(from, got, b, o) \cup {x}
<1> DEFINE x == IF p > o THEN b[p] ELSE b[o + 1]
<1>1. ASSUME NEW s \in Late(from, got, d, o), s \notin Late(from, got, b, o)
      PROVE  s = x
    <2>1. s \in from \ got /\ \A i \in 1..Len(d) : d[i] = s => i <= o
        BY <1>1 DEF Late
    <2>2. PICK i \in 1..Len(b) : b[i] = s /\ ~(i <= o)
        BY <1>1, <2>1 DEF Late
    <2>3. ~(i < p)
        BY <2>1, <2>2
    <2>4. i > p => i - 1 <= o
        BY <2>1, <2>2
    <2>5. CASE i = p
        BY <2>2, <2>5
    <2>6. CASE i > p
        <3>1. i = o + 1 /\ ~(p > o)
            BY <2>2, <2>4, <2>6
        <3> QED
            BY <2>2, <3>1
    <2> QED
        BY <2>3, <2>5, <2>6
<1> QED
    BY <1>1

\* The rows in the order a reader passes them.
Order(k, l) == IF k = "worker" THEN l ELSE Reverse(l)

LEMMA OrderOfRows ==
    ASSUME NEW k, NEW c
    PROVE  /\ RowsOf(k, c) = Order(k, rows[c])
           /\ RowsOf(k, c)' = Order(k, rows'[c])
BY DEF RowsOf, Order

\* A row that is added is first for the reader that passes the newest first.
LEMMA RowAddedBackwards ==
    ASSUME NEW l \in RowLists, NEW m \in RowLists, NEW v \in Skins, m = Append(l, v)
    PROVE  /\ Len(l) \in Nat /\ Len(m) = Len(l) + 1 /\ Reverse(m)[1] = v
           /\ \A i \in 1..Len(l) : Reverse(m)[i + 1] = Reverse(l)[i]
<1>1. l \in Seq(Skins) /\ Len(l) \in Nat /\ m \in Seq(Skins)
    BY DEF RowLists
<1>2. /\ Len(m) = Len(l) + 1 /\ m[Len(l) + 1] = v
      /\ \A i \in 1..Len(l) : m[i] = l[i]
    BY RowAdded
<1>3. /\ \A i \in 1..Len(l) : Reverse(l)[i] = l[(Len(l) - i) + 1]
      /\ \A i \in 1..Len(m) : Reverse(m)[i] = m[(Len(m) - i) + 1]
    BY <1>1, ReversedList
<1>4. Reverse(m)[1] = v
    BY <1>1, <1>2, <1>3
<1>5. ASSUME NEW i \in 1..Len(l)
      PROVE  Reverse(m)[i + 1] = Reverse(l)[i]
    <2>1. i + 1 \in 1..Len(m) /\ (Len(m) - (i + 1)) + 1 = (Len(l) - i) + 1
          /\ (Len(l) - i) + 1 \in 1..Len(l)
        BY <1>1, <1>2
    <2> QED
        BY <1>2, <1>3, <2>1
<1> QED
    BY <1>1, <1>2, <1>4, <1>5

\* A new row is last for the worker, and first for the inventory, for which all
\* others move back by one.
LEMMA PlacesAdded ==
    ASSUME NEW k, NEW l \in RowLists, NEW v \in Skins, v \notin Range(l)
    PROVE  \A i \in 1..Len(Order(k, l)) : \E j \in 1..Len(Order(k, Append(l, v))) :
              i <= j /\ Order(k, Append(l, v))[j] = Order(k, l)[i]
<1> DEFINE m == Append(l, v)
<1>1. /\ l \in Seq(Skins) /\ Len(l) \in Nat /\ m \in RowLists /\ m \in Seq(Skins)
      /\ Len(m) = Len(l) + 1 /\ \A i \in 1..Len(l) : m[i] = l[i]
    BY RowAdded DEF RowLists
<1>2. m = Append(l, v)
    OBVIOUS
<1> HIDE DEF m
<1>3. CASE k = "worker"
    <2>1. \A i \in 1..Len(l) : i \in 1..Len(m) /\ i <= i /\ m[i] = l[i]
        BY <1>1
    <2> QED
        BY <1>2, <1>3, <2>1 DEF Order
<1>4. CASE k # "worker"
    <2>1. \A i \in 1..Len(l) : Reverse(m)[i + 1] = Reverse(l)[i]
        BY <1>1, <1>2, RowAddedBackwards
    <2>2. Len(Reverse(l)) = Len(l) /\ Len(Reverse(m)) = Len(m)
        BY <1>1, ReversedList
    <2>3. \A i \in 1..Len(l) : i + 1 \in 1..Len(m) /\ i <= i + 1
        BY <1>1
    <2> QED
        BY <1>2, <1>4, <2>1, <2>2, <2>3 DEF Order
<1> QED
    BY <1>3, <1>4

\* A removed row leaves one place, and those behind it move up.
LEMMA PlaceTaken ==
    ASSUME NEW k, NEW l \in RowLists, NEW s \in Range(l)
    PROVE  \E p \in Nat : \A i \in 1..Len(Order(k, l)) :
              /\ i < p => /\ i \in 1..Len(Order(k, RemoveFirst(l, s)))
                          /\ Order(k, RemoveFirst(l, s))[i] = Order(k, l)[i]
              /\ i > p => /\ i - 1 \in 1..Len(Order(k, RemoveFirst(l, s)))
                          /\ Order(k, RemoveFirst(l, s))[i - 1] = Order(k, l)[i]
<1> DEFINE m == RemoveFirst(l, s)
           n == Len(l)
<1>1. l \in Seq(Skins) /\ n \in Nat /\ DOMAIN l = 1..n
    BY DEF RowLists
<1>2. PICK q \in 1..n : l[q] = s
    BY <1>1 DEF Range
<1>3. /\ m \in Seq(Skins) /\ Len(m) = n - 1
      /\ \A i \in 1..(n - 1) : m[i] = IF i < q THEN l[i] ELSE l[i + 1]
    BY <1>2, PlacesRemoved
<1>4. m = RemoveFirst(l, s) /\ n = Len(l)
    OBVIOUS
<1> HIDE DEF m, n
<1>5. CASE k = "worker"
    <2>1. \A i \in 1..n : /\ i < q => i \in 1..(n - 1) /\ m[i] = l[i]
                          /\ i > q => i - 1 \in 1..(n - 1) /\ m[i - 1] = l[i]
        BY <1>1, <1>2, <1>3
    <2>2. /\ Order(k, l) = l /\ Order(k, RemoveFirst(l, s)) = m
          /\ Len(l) = n /\ Len(m) = n - 1 /\ q \in Nat
        BY <1>2, <1>3, <1>4, <1>5 DEF Order
    <2> QED
        BY ONLY <2>1, <2>2
<1>6. CASE k # "worker"
    <2> DEFINE p == (n - q) + 1
               b == Reverse(l)
               d == Reverse(m)
    <2>1. /\ Len(b) = n /\ Len(d) = n - 1 /\ p \in Nat
          /\ \A i \in 1..n : b[i] = l[(n - i) + 1]
          /\ \A i \in 1..(n - 1) : d[i] = m[((n - 1) - i) + 1]
        <3>1. p \in Nat
            BY <1>1, <1>2
        <3>2. /\ Len(b) = Len(l) /\ \A i \in 1..Len(l) : b[i] = l[(Len(l) - i) + 1]
            BY <1>1, ReversedList
        <3>3. /\ Len(d) = Len(m) /\ \A i \in 1..Len(m) : d[i] = m[(Len(m) - i) + 1]
            BY <1>3, ReversedList
        <3> HIDE DEF p, b, d
        <3> QED
            BY <1>3, <1>4, <3>1, <3>2, <3>3
    <2>2. p = (n - q) + 1 /\ b = Reverse(l) /\ d = Reverse(m)
        OBVIOUS
    <2> HIDE DEF p, b, d
    <2>3. ASSUME NEW i \in 1..n, i < p
          PROVE  i \in 1..(n - 1) /\ d[i] = b[i]
        <3>1. /\ i \in 1..(n - 1) /\ ((n - 1) - i) + 1 \in 1..(n - 1)
              /\ ~(((n - 1) - i) + 1 < q)
              /\ (((n - 1) - i) + 1) + 1 = (n - i) + 1
            BY <1>1, <1>2, <2>2, <2>3
        <3> QED
            BY <1>3, <2>1, <3>1
    <2>4. ASSUME NEW i \in 1..n, i > p
          PROVE  i - 1 \in 1..(n - 1) /\ d[i - 1] = b[i]
        <3>1. /\ i - 1 \in 1..(n - 1) /\ ((n - 1) - (i - 1)) + 1 = (n - i) + 1
              /\ (n - i) + 1 \in 1..(n - 1) /\ (n - i) + 1 < q
            BY <1>1, <1>2, <2>1, <2>2, <2>4
        <3> QED
            BY <1>3, <2>1, <3>1
    <2> QED
        BY <1>4, <1>6, <2>1, <2>2, <2>3, <2>4 DEF Order
<1> QED
    BY <1>5, <1>6

LEMMA InitLoads == Init => LoadsKnown
BY DEF Init, LoadsKnown, LoadComplete, LoadSeen, IdleLoad

\* A load that is under way, and one that is over.
LEMMA LoadShape ==
    ASSUME Typed, NEW k \in Loaders, load[k].step \in {"page", "done"}
    PROVE  /\ load[k] \in [step : {"page", "done"}, c : Connections, offset : Nat,
                           got : SUBSET Skins, from : SUBSET Skins, removed : Nat,
                           seen : SUBSET Skins]
BY DEF Typed, LoadStates

LEMMA LoadStartLoads ==
    ASSUME Typed, LoadsKnown, NEW u \in Loaders, NEW c \in Connections, LoadStart(u, c)
    PROVE  LoadsKnown'
<1> SUFFICES ASSUME NEW k \in Loaders
             PROVE  LoadComplete(k)' /\ LoadSeen(k)'
    BY DEF LoadsKnown
<1>1. rows' = rows /\ rows[c] \in Seq(Skins)
    BY DEF LoadStart, Typed, RowLists
<1>2. CASE k = u
    <2>1. /\ load'[k].step = "page" /\ load'[k].c = c /\ load'[k].offset = 0
          /\ load'[k].got = {} /\ load'[k].from = Range(rows[c])
          /\ load'[k].seen = Range(rows[c])
        BY <1>2 DEF LoadStart, Typed
    <2>2. /\ RowsOf(k, c)' = RowsOf(k, c) /\ RowsOf(k, c) \in Seq(Skins)
          /\ Range(RowsOf(k, c)) = Range(rows[c])
        BY <1>1, ReadOrder DEF RowsOf
    <2>3. Slipped(k)' = {}
        <3> SUFFICES ASSUME NEW s \in Slipped(k)'
                     PROVE  FALSE
            OBVIOUS
        <3>1. /\ s \in Range(RowsOf(k, c))
              /\ \A i \in 1..Len(RowsOf(k, c)) : RowsOf(k, c)[i] = s => i <= 0
            <4>1. RowsOf(k, load[k].c)' = RowsOf(k, c)
                BY <2>1, <2>2 DEF RowsOf
            <4> QED
                BY <2>1, <2>2, <4>1 DEF Slipped, Late
        <3>2. PICK i \in 1..Len(RowsOf(k, c)) : RowsOf(k, c)[i] = s
            BY <2>2, <3>1 DEF Range
        <3> QED
            BY <3>1, <3>2
    <2>4. load'[k].removed = 0
        BY <1>2 DEF LoadStart, Typed
    <2> QED
        BY <1>1, <2>1, <2>3, <2>4, FS_EmptySet DEF LoadComplete, LoadSeen
<1>3. CASE k # u
    <2>1. load'[k] = load[k]
        BY <1>3 DEF LoadStart, Typed
    <2> QED
        BY <1>1, <2>1 DEF LoadsKnown, LoadComplete, LoadSeen, Slipped, RowsOf
<1> QED
    BY <1>2, <1>3

LEMMA LoadPageLoads ==
    ASSUME ConstantsFit, Typed, LoadsKnown, NEW u \in Loaders, LoadPage(u)
    PROVE  LoadsKnown'
<1> SUFFICES ASSUME NEW k \in Loaders
             PROVE  LoadComplete(k)' /\ LoadSeen(k)'
    BY DEF LoadsKnown
<1>1. rows' = rows /\ load[u].step = "page" /\ LoadComplete(k) /\ LoadSeen(k)
    BY DEF LoadPage, LoadsKnown
<1>2. CASE k # u
    <2>1. load'[k] = load[k]
        BY <1>2 DEF LoadPage, Typed
    <2> QED
        BY <1>1, <2>1 DEF LoadComplete, LoadSeen, Slipped, RowsOf
<1>3. CASE k = u /\ load'[k] = IdleLoad
    BY <1>3 DEF LoadComplete, LoadSeen, IdleLoad
<1>4. CASE k = u /\ load'[k] # IdleLoad
    <2> DEFINE c == load[k].c
               o == load[k].offset
               all == RowsOf(k, c)
               page == SubSeq(all, o + 1, Min({o + PageSize, Len(all)}))
    <2>1. /\ load[k] \in [step : {"page", "done"}, c : Connections, offset : Nat,
                          got : SUBSET Skins, from : SUBSET Skins, removed : Nat,
                          seen : SUBSET Skins]
        BY <1>1, <1>4, LoadShape
    <2>2. load'[k] = [load[k] EXCEPT
                        !.got = @ \cup Range(page), !.offset = @ + PageSize,
                        !.step = IF LastPage(page) THEN "done" ELSE "page"]
        BY <1>4 DEF LoadPage, Typed
    <2>3. /\ Range(page) \subseteq Range(rows[c])
          /\ \A i \in 1..Len(all) : o < i /\ i <= o + PageSize => all[i] \in Range(page)
          /\ LastPage(page) => Len(all) <= o + PageSize
        BY <1>1, <1>4, PageRead
    <2>4. /\ c \in Connections /\ o \in Nat /\ PageSize \in Nat
          /\ rows[c] \in Seq(Skins) /\ Len(all) = Len(rows[c])
          /\ all \in Seq(Skins) /\ Range(all) = Range(rows[c])
        BY <2>1, ReadOrder DEF ConstantsFit, Typed, RowLists
    <2>5. all = RowsOf(k, c) /\ c = load[k].c /\ o = load[k].offset
        OBVIOUS
    <2> HIDE DEF page, all, c, o
    <2>6. /\ load'[k].c = c /\ load'[k].offset = o + PageSize
          /\ load'[k].got = load[k].got \cup Range(page)
          /\ load'[k].from = load[k].from /\ load'[k].removed = load[k].removed
          /\ load'[k].seen = load[k].seen
          /\ load'[k].step = IF LastPage(page) THEN "done" ELSE "page"
        BY <2>1, <2>2, <2>5
    <2>7. Len(all) \in Nat /\ Range(all) = {all[i] : i \in 1..Len(all)}
        BY <2>4 DEF Range
    <2>8. RowsOf(k, c)' = all
        BY <1>1, <2>5, <2>6 DEF RowsOf, c
    <2>9. /\ Slipped(k) = Late(load[k].from, load[k].got, all, o)
          /\ Slipped(k)' = Late(load[k].from, load'[k].got, all, o + PageSize)
        <3>1. RowsOf(k, load[k].c)' = all
            BY <2>8 DEF c
        <3> QED
            BY <2>5, <2>6, <3>1 DEF Slipped
    <2>10. /\ IsFiniteSet(Slipped(k)) /\ load[k].removed \in Nat
           /\ Cardinality(Slipped(k)) <= load[k].removed
        <3>1. Slipped(k) \subseteq Skins
            BY <2>1, <2>9 DEF Late
        <3> QED
            BY <1>1, <1>4, <2>1, <3>1, FS_Subset DEF ConstantsFit, LoadComplete
    <2>11. ASSUME NEW s \in load[k].from, s \notin load'[k].got,
                  \A i \in 1..Len(all) : all[i] = s => i <= o + PageSize
           PROVE  s \in Slipped(k)
        <3>1. s \notin load[k].got /\ s \notin Range(page)
            BY <2>6, <2>11
        <3>2. \A i \in 1..Len(all) : all[i] = s => ~(o < i)
            BY <2>3, <2>11, <3>1
        <3>3. \A i \in 1..Len(all) : all[i] = s => i <= o
            BY <2>4, <2>7, <3>2
        <3> QED
            BY <2>9, <3>1, <3>3 DEF Late
    <2>12. Slipped(k)' \subseteq Slipped(k)
        BY <2>9, <2>11 DEF Late
    <2>13. LastPage(page) => load[k].from \ load'[k].got \subseteq Slipped(k)
        <3> SUFFICES ASSUME LastPage(page), NEW s \in load[k].from, s \notin load'[k].got
                     PROVE  s \in Slipped(k)
            OBVIOUS
        <3>1. \A i \in 1..Len(all) : i <= o + PageSize
            BY <2>3, <2>4, <2>7
        <3> QED
            BY <2>11, <3>1
    <2>15. LoadComplete(k)'
        <3>1. Cardinality(Slipped(k)') <= load[k].removed
            BY <2>10, <2>12, NoMoreSlip
        <3>2. LastPage(page) => Cardinality(load[k].from \ load'[k].got) <= load[k].removed
            BY <2>10, <2>13, NoMoreSlip
        <3> QED
            BY <2>6, <3>1, <3>2 DEF LoadComplete
    <2>14. LoadSeen(k)'
        <3>1. load[k].got \subseteq load[k].seen /\ Range(rows[c]) \subseteq load[k].seen
            BY <1>1, <1>4, <2>5 DEF LoadSeen
        <3> QED
            BY <1>1, <2>3, <2>6, <3>1 DEF LoadSeen
    <2> QED
        BY <2>14, <2>15
<1> QED
    BY <1>2, <1>3, <1>4

\* What a write does to the loads: an addition lets nothing slip, a removal
\* one skin at most.
LEMMA WrittenLoads ==
    ASSUME ConstantsFit, Typed, LoadsKnown, NEW r \in Requests,
           rows' = [rows EXCEPT ![r.c] = Written(r)], load' = Noticed(r)
    PROVE  LoadsKnown'
<1> SUFFICES ASSUME NEW k \in Loaders
             PROVE  LoadComplete(k)' /\ LoadSeen(k)'
    BY DEF LoadsKnown
<1>1. LoadComplete(k) /\ LoadSeen(k) /\ r.c \in Connections /\ r.s \in Skins
    BY DEF LoadsKnown, Typed, Requests
<1> DEFINE removed == IF ~r.want /\ r.s \in Range(rows[r.c])
                      THEN load[k].removed + 1 ELSE load[k].removed
           seen == IF r.want THEN load[k].seen \cup {r.s} ELSE load[k].seen
<1>2. load'[k] = IF load[k].step = "page" /\ load[k].c = r.c
                 THEN [load[k] EXCEPT !.removed = removed, !.seen = seen]
                 ELSE load[k]
    BY DEF Noticed
<1> HIDE DEF seen
<1>3. CASE load[k].step # "page"
    BY <1>1, <1>2, <1>3 DEF LoadComplete, LoadSeen
<1>4. CASE load[k].step = "page" /\ load[k].c # r.c
    <2>1. load'[k] = load[k] /\ rows'[load[k].c] = rows[load[k].c]
        BY <1>2, <1>4, LoadShape DEF Typed
    <2>2. RowsOf(k, load[k].c)' = RowsOf(k, load[k].c)
        BY <2>1 DEF RowsOf
    <2> QED
        BY <1>1, <2>1, <2>2 DEF LoadComplete, LoadSeen, Slipped
<1>5. CASE load[k].step = "page" /\ load[k].c = r.c
    <2> DEFINE l == rows[r.c]
               m == Written(r)
               from == load[k].from
               got == load[k].got
               o == load[k].offset
    <2>1. /\ load[k] \in [step : {"page", "done"}, c : Connections, offset : Nat,
                          got : SUBSET Skins, from : SUBSET Skins, removed : Nat,
                          seen : SUBSET Skins]
        BY <1>5, LoadShape
    <2>2. /\ load'[k].step = "page" /\ load'[k].c = r.c /\ load'[k].offset = o
          /\ load'[k].got = got /\ load'[k].from = from
          /\ load'[k].removed = removed /\ load'[k].seen = seen
        <3> HIDE DEF removed
        <3> QED
            BY <1>2, <1>5, <2>1
    <2>3. rows'[r.c] = m
        BY <1>1 DEF Typed
    <2>4. /\ m \in RowLists /\ l \in RowLists
          /\ Range(m) = IF r.want THEN Range(l) \cup {r.s} ELSE Range(l) \ {r.s}
        BY <1>1, WrittenRows DEF Typed
    <2>5. LoadSeen(k)'
        <3>1. got \subseteq load[k].seen /\ Range(l) \subseteq load[k].seen
            BY <1>1, <1>5 DEF LoadSeen
        <3> QED
            BY <2>2, <2>3, <2>4, <3>1 DEF LoadSeen, seen
    <2> DEFINE b == Order(k, l)
               d == Order(k, m)
    <2>6. Slipped(k) = Late(from, got, b, o) /\ Slipped(k)' = Late(from, got, d, o)
        BY <1>5, <2>2, <2>3, OrderOfRows DEF Slipped
    <2>7. o \in Nat /\ load[k].removed \in Nat /\ IsFiniteSet(Late(from, got, b, o))
        <3>1. Late(from, got, b, o) \subseteq Skins
            BY <2>1 DEF Late
        <3> QED
            BY <2>1, <3>1, FS_Subset DEF ConstantsFit
    <2>8. Cardinality(Late(from, got, b, o)) <= load[k].removed
        BY <1>1, <1>5, <2>6 DEF LoadComplete
    <2>9. Cardinality(Late(from, got, d, o)) <= removed
        <3> HIDE DEF from, got, o
        <3>1. CASE r.want /\ r.s \notin Range(l)
            <4>1. m = Append(l, r.s)
                BY <3>1 DEF Written
            <4>2. Late(from, got, d, o) \subseteq Late(from, got, b, o)
                <5>1. \A i \in 1..Len(b) : \E j \in 1..Len(d) : i <= j /\ d[j] = b[i]
                    <6> HIDE DEF l
                    <6>1. \A i \in 1..Len(Order(k, l)) :
                             \E j \in 1..Len(Order(k, Append(l, r.s))) :
                                i <= j /\ Order(k, Append(l, r.s))[j] = Order(k, l)[i]
                        BY <1>1, <2>4, <3>1, PlacesAdded
                    <6> QED
                        BY <4>1, <6>1
                <5> HIDE DEF b, d
                <5> QED
                    BY <2>7, <5>1, NoneSlips
            <4>3. removed = load[k].removed
                BY <3>1
            <4> HIDE DEF b, d, removed
            <4> QED
                BY <2>7, <2>8, <4>2, <4>3, NoMoreSlip
        <3>2. CASE ~r.want /\ r.s \in Range(l)
            <4>1. m = RemoveFirst(l, r.s)
                BY <3>2 DEF Written
            <4>2. PICK x : Late(from, got, d, o) \subseteq Late(from, got, b, o) \cup {x}
                <5>1. PICK p \in Nat : \A i \in 1..Len(b) :
                         /\ i < p => i \in 1..Len(d) /\ d[i] = b[i]
                         /\ i > p => i - 1 \in 1..Len(d) /\ d[i - 1] = b[i]
                    <6> HIDE DEF l
                    <6>1. \E p \in Nat : \A i \in 1..Len(Order(k, l)) :
                             /\ i < p => /\ i \in 1..Len(Order(k, RemoveFirst(l, r.s)))
                                         /\ Order(k, RemoveFirst(l, r.s))[i] = Order(k, l)[i]
                             /\ i > p => /\ i - 1 \in 1..Len(Order(k, RemoveFirst(l, r.s)))
                                         /\ Order(k, RemoveFirst(l, r.s))[i - 1]
                                              = Order(k, l)[i]
                        <7>1. l \in RowLists /\ r.s \in Range(l)
                            BY <2>4, <3>2
                        <7> QED
                            BY ONLY <7>1, PlaceTaken
                    <6> QED
                        BY <4>1, <6>1
                <5> HIDE DEF b, d
                <5> QED
                    BY <2>7, <5>1, OneSlips
            <4>3. removed = load[k].removed + 1
                BY <3>2
            <4> HIDE DEF b, d, removed
            <4> QED
                BY <2>7, <2>8, <4>2, <4>3, OneMoreSlips
        <3>3. CASE r.want /\ r.s \in Range(l)
            <4>1. m = l /\ removed = load[k].removed
                BY <3>3 DEF Written
            <4> QED
                BY <2>8, <4>1
        <3>4. CASE ~r.want /\ r.s \notin Range(l)
            <4>1. l \in Seq(Skins) /\ \A i \in 1..Len(l) : l[i] # r.s
                BY <2>4, <3>4 DEF RowLists, Range
            <4>2. m = l /\ removed = load[k].removed
                BY <3>4, <4>1 DEF Written, RemoveFirst
            <4> QED
                BY <2>8, <4>2
        <3> QED
            BY <3>1, <3>2, <3>3, <3>4
    <2>10. LoadComplete(k)'
        <3> HIDE DEF from, got, o, b, d, removed
        <3> QED
            BY <2>2, <2>6, <2>9 DEF LoadComplete
    <2> QED
        BY <2>5, <2>10
<1> QED
    BY <1>3, <1>4, <1>5

LEMMA WriteRowLoads ==
    ASSUME ConstantsFit, Typed, LoadsKnown, NEW r \in requests, WriteRow(r)
    PROVE  LoadsKnown'
<1>1. r \in Requests
    BY DEF Typed
<1>2. CASE UNCHANGED <<rows, load>>
    BY <1>2 DEF LoadsKnown, LoadComplete, LoadSeen, Slipped, RowsOf
<1>3. CASE rows' = [rows EXCEPT ![r.c] = Written(r)] /\ load' = Noticed(r)
    BY <1>1, <1>3, WrittenLoads
<1> QED
    BY <1>2, <1>3 DEF WriteRow

LEMMA WriteLeftLoads ==
    ASSUME ConstantsFit, Typed, LoadsKnown, NEW r \in left, WriteLeft(r)
    PROVE  LoadsKnown'
<1>1. r \in Requests
    BY DEF Typed, SentRequests
<1> QED
    BY <1>1, WrittenLoads DEF WriteLeft

LEMMA StepLoads ==
    ASSUME ConstantsFit
    PROVE  Typed /\ LoadsKnown /\ [Next]_vars => LoadsKnown'
<1> SUFFICES ASSUME Typed, LoadsKnown, [Next]_vars
             PROVE  LoadsKnown'
    OBVIOUS
<1>1. ASSUME UNCHANGED <<rows, load>>
      PROVE  LoadsKnown'
    BY <1>1 DEF LoadsKnown, LoadComplete, LoadSeen, Slipped, RowsOf
<1>2. CASE UNCHANGED vars
    BY <1>1, <1>2 DEF vars
<1>3. ASSUME NEW t \in Tabs, ShowPage(t) \/ ClosePage(t)
      PROVE  LoadsKnown'
    BY <1>1, <1>3 DEF ShowPage, ClosePage
<1>4. ASSUME NEW t \in Tabs, NEW c \in Connections, ReadPage(t, c)
      PROVE  LoadsKnown'
    BY <1>1, <1>4 DEF ReadPage
<1>5. ASSUME NEW t \in Tabs, NEW z \in Skins, Toggle(t, z) \/ Hide(t, z) \/ Reveal(t, z)
      PROVE  LoadsKnown'
    BY <1>1, <1>5 DEF Toggle, Hide, Reveal
<1>6. ASSUME NEW r \in requests, Answer(r) \/ LoseAnswer(r)
      PROVE  LoadsKnown'
    BY <1>1, <1>6 DEF Answer, LoseAnswer
<1>7. CASE Next
    BY <1>3, <1>4, <1>5, <1>6, <1>7, WriteRowLoads, WriteLeftLoads, LoadPageLoads,
       LoadStartLoads DEF Next
<1> QED
    BY <1>2, <1>7

LEMMA LoadsInvariant ==
    ASSUME ConstantsFit
    PROVE  Spec => [](Typed /\ Attended /\ LoadsKnown)
<1>1. Init => Typed /\ Attended /\ LoadsKnown
    BY InitTyped, InitLoads
<1>2. Typed /\ Attended /\ LoadsKnown /\ [Next]_vars => (Typed /\ Attended /\ LoadsKnown)'
    BY StepTyped, StepLoads
<1> QED
    BY <1>1, <1>2, PTL DEF Spec

\* A load misses at most as many of the skins watched when it began as rows were
\* removed while it ran, on however many pages and however many are added; none,
\* when none is removed.
THEOREM LoadsAreComplete ==
    ASSUME ConstantsFit
    PROVE  Spec => []LoadMissesNothing
<1>1. LoadsKnown => LoadMissesNothing
    BY DEF LoadsKnown, LoadComplete, LoadMissesNothing
<1> QED
    BY <1>1, LoadsInvariant, PTL

\* An email is planned only for a skin that was watched on this very account at
\* some moment of the load.
THEOREM PlansAreWatched ==
    ASSUME ConstantsFit
    PROVE  Spec => []PlannedIsWatched
<1>1. LoadsKnown => PlannedIsWatched
    BY DEF LoadsKnown, LoadSeen, PlannedIsWatched, Planned, Matches
<1> QED
    BY <1>1, LoadsInvariant, PTL
=============================================================================
