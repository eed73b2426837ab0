---------------------------- MODULE CatalogProofs ----------------------------
(***************************************************************************)
(* The storefront's data, for every catalog, every rotation Riot may serve *)
(* and every order it may serve it in: one rotation has one hash, the      *)
(* enriched row is the raw one with skins, what is stored expires in time, *)
(* a sync that ends is complete, and a page shows what was resolved.       *)
(***************************************************************************)
EXTENDS StorefrontCatalog, FiniteSetTheorems, WellFoundedInduction, TLAPS

-----------------------------------------------------------------------------
(* Sorting.                                                                 *)

\* What the sort needs of a comparison of the positions 1..n.
WeakOrder(n, before) ==
    /\ \A i \in 1..n : <<i, i>> \notin before
    /\ \A i, j, k \in 1..n : <<i, j>> \in before /\ <<j, k>> \in before => <<i, k>> \in before
    /\ \A i, j, k \in 1..n : <<i, k>> \in before => <<i, j>> \in before \/ <<j, k>> \in before

\* Going ahead is a strict total order of the positions.
LEMMA AheadIsTotal ==
    ASSUME NEW n \in Nat, NEW before, WeakOrder(n, before)
    PROVE  /\ \A i \in 1..n : ~Ahead(before, i, i)
           /\ \A i, j \in 1..n : i # j => Ahead(before, i, j) \/ Ahead(before, j, i)
           /\ \A i, j, k \in 1..n :
                 Ahead(before, i, j) /\ Ahead(before, j, k) => Ahead(before, i, k)
<1>1. \A i, j \in 1..n : i # j => i < j \/ j < i
    OBVIOUS
<1>2. \A i, j, k \in 1..n : i < j /\ j < k => i < k
    OBVIOUS
<1>3. \A i \in 1..n : ~(i < i)
    OBVIOUS
<1>4. \A i \in 1..n : ~Ahead(before, i, i)
    BY <1>3 DEF WeakOrder, Ahead
<1>5. \A i, j \in 1..n : i # j => Ahead(before, i, j) \/ Ahead(before, j, i)
    BY <1>1 DEF Ahead
<1>6. ASSUME NEW i \in 1..n, NEW j \in 1..n, NEW k \in 1..n,
             Ahead(before, i, j), Ahead(before, j, k)
      PROVE  Ahead(before, i, k)
    <2>1. CASE <<i, j>> \in before
        <3>1. <<i, k>> \in before
            BY <1>6, <2>1 DEF WeakOrder, Ahead
        <3> QED
            BY <3>1 DEF Ahead
    <2>2. CASE <<j, k>> \in before
        <3>1. <<i, k>> \in before
            BY <1>6, <2>2 DEF WeakOrder, Ahead
        <3> QED
            BY <3>1 DEF Ahead
    <2>3. CASE <<i, j>> \notin before /\ <<j, k>> \notin before
        <3>1. <<k, i>> \notin before
            BY <1>6, <2>3 DEF WeakOrder, Ahead
        <3>2. i < j /\ j < k
            BY <1>6, <2>3 DEF Ahead
        <3> QED
            BY <1>2, <3>1, <3>2 DEF Ahead
    <2> QED
        BY <2>1, <2>2, <2>3
<1> QED
    BY <1>4, <1>5, <1>6

\* The elements up to a position: their number is its place, from 1 to n, and a
\* position that goes ahead has the smaller place.
LEMMA PlacesDiffer ==
    ASSUME NEW n \in Nat, NEW before, WeakOrder(n, before)
    PROVE  /\ \A i \in 1..n : Place(1..n, before, i) \in 1..n
           /\ \A i, j \in 1..n :
                 Ahead(before, i, j) => Place(1..n, before, i) < Place(1..n, before, j)
<1> DEFINE Up(i) == {j \in 1..n : j = i \/ Ahead(before, j, i)}
<1>1. IsFiniteSet(1..n) /\ Cardinality(1..n) = n
    BY FS_Interval
<1>2. ASSUME NEW i \in 1..n
      PROVE  IsFiniteSet(Up(i)) /\ Cardinality(Up(i)) \in 1..n
    <2>1. Up(i) \in SUBSET (1..n) /\ Up(i) # {}
        OBVIOUS
    <2> HIDE DEF Up
    <2>2. IsFiniteSet(Up(i)) /\ Cardinality(Up(i)) <= n
        BY <1>1, <2>1, FS_Subset
    <2>3. Cardinality(Up(i)) \in Nat /\ Cardinality(Up(i)) # 0
        BY <2>1, <2>2, FS_CardinalityType, FS_EmptySet
    <2> QED
        BY <2>2, <2>3
<1>3. ASSUME NEW i \in 1..n, NEW j \in 1..n, Ahead(before, i, j)
      PROVE  Cardinality(Up(i)) < Cardinality(Up(j))
    <2>1. Up(i) \in SUBSET Up(j)
        BY <1>3, AheadIsTotal
    <2>2. j \in Up(j) /\ j \notin Up(i)
        BY <1>3, AheadIsTotal
    <2>3. IsFiniteSet(Up(j)) /\ Cardinality(Up(i)) \in Nat /\ Cardinality(Up(j)) \in Nat
        BY <1>2
    <2> HIDE DEF Up
    <2>4. Cardinality(Up(i)) <= Cardinality(Up(j)) /\ Cardinality(Up(i)) # Cardinality(Up(j))
        BY <2>1, <2>2, <2>3, FS_Subset
    <2> QED
        BY <2>3, <2>4
<1> QED
    BY <1>2, <1>3 DEF Place

\* The sort rearranges, and a position that goes ahead comes first.
LEMMA SortRearranges ==
    ASSUME NEW n \in Nat, NEW seq, DOMAIN seq = 1..n, NEW before, WeakOrder(n, before)
    PROVE  \E p \in Bijection(1..n, 1..n) :
              /\ Sorted(seq, before) = [k \in 1..n |-> seq[p[k]]]
              /\ \A i, j \in 1..n : i < j => Ahead(before, p[i], p[j])
<1> DEFINE place == [i \in 1..n |-> Place(1..n, before, i)]
           p == [k \in 1..n |-> CHOOSE i \in 1..n : Place(1..n, before, i) = k]
<1>1. place \in [1..n -> 1..n]
    BY PlacesDiffer
<1>2. \A i, j \in 1..n : i # j => place[i] # place[j]
    <2> SUFFICES ASSUME NEW i \in 1..n, NEW j \in 1..n, i # j
                 PROVE  place[i] # place[j]
        OBVIOUS
    <2>1. Ahead(before, i, j) \/ Ahead(before, j, i)
        BY AheadIsTotal
    <2>2. place[i] \in 1..n /\ place[j] \in 1..n
        BY <1>1
    <2>3. place[i] < place[j] \/ place[j] < place[i]
        BY <2>1, PlacesDiffer
    <2> QED
        BY <2>2, <2>3
<1>3. \A k \in 1..n : \E i \in 1..n : place[i] = k
    <2>1. IsFiniteSet(1..n) /\ Cardinality(1..n) = Cardinality(1..n)
        BY FS_Interval
    <2>2. place \in Injection(1..n, 1..n)
        BY <1>1, <1>2 DEF Injection, IsInjective
    <2> HIDE DEF place
    <2>3. place \in Surjection(1..n, 1..n)
        BY <2>1, <2>2, FS_Injection
    <2> QED
        BY <2>3 DEF Surjection
<1>4. \A k \in 1..n : p[k] \in 1..n /\ place[p[k]] = k
    BY <1>3
<1>5. p \in Bijection(1..n, 1..n)
    <2>1. p \in [1..n -> 1..n]
        BY <1>4
    <2>2. \A k, l \in 1..n : p[k] = p[l] => k = l
        BY <1>4
    <2>3. \A i \in 1..n : place[i] \in 1..n /\ p[place[i]] = i
        BY <1>1, <1>2, <1>4
    <2> HIDE DEF p, place
    <2> QED
        BY <2>1, <2>2, <2>3 DEF Bijection, Injection, Surjection, IsInjective
<1>6. Sorted(seq, before) = [k \in 1..n |-> seq[p[k]]]
    BY DEF Sorted
<1>7. ASSUME NEW i \in 1..n, NEW j \in 1..n, i < j
      PROVE  Ahead(before, p[i], p[j])
    <2>1. p[i] \in 1..n /\ p[j] \in 1..n /\ place[p[i]] = i /\ place[p[j]] = j
        BY <1>4
    <2> HIDE DEF p
    <2>2. Ahead(before, p[j], p[i]) => j < i
        BY <2>1, PlacesDiffer
    <2>3. p[i] # p[j]
        BY <1>7, <2>1
    <2> QED
        BY <1>7, <2>1, <2>2, <2>3, AheadIsTotal
<1> QED
    BY <1>5, <1>6, <1>7

\* lt is a total order of the values of the list u; and u is in this order.
TotalOn(n, u, lt) ==
    /\ \A i \in 1..n : <<u[i], u[i]>> \notin lt
    /\ \A i, j, k \in 1..n : <<u[i], u[j]>> \in lt /\ <<u[j], u[k]>> \in lt => <<u[i], u[k]>> \in lt
    /\ \A i, j \in 1..n : u[i] = u[j] \/ <<u[i], u[j]>> \in lt \/ <<u[j], u[i]>> \in lt

InOrder(n, u, lt) ==
    TotalOn(n, u, lt) /\ \A i, j \in 1..n : i < j => <<u[j], u[i]>> \notin lt

\* Of two lists in order of the same values, neither is ahead of the other: as
\* many values would be up to the k-th of one as come before the k-th of the
\* other.
LEMMA NeitherIsAhead ==
    ASSUME NEW n \in Nat, NEW u, NEW v, NEW lt, InOrder(n, u, lt), InOrder(n, v, lt),
           NEW r \in Surjection(1..n, 1..n), \A i \in 1..n : v[i] = u[r[i]],
           NEW k \in 1..n
    PROVE  <<u[k], v[k]>> \notin lt
<1> SUFFICES ASSUME <<u[k], v[k]>> \in lt
             PROVE  FALSE
    OBVIOUS
<1> DEFINE A == {i \in 1..n : <<u[k], u[i]>> \notin lt}
           B == {i \in 1..n : <<u[k], v[i]>> \notin lt}
           f == [i \in B |-> r[i]]
<1>1. r \in [1..n -> 1..n] /\ \A a \in 1..n : \E i \in 1..n : r[i] = a
    BY DEF Surjection
<1>2. (1..k) \in SUBSET A
    <2> SUFFICES ASSUME NEW i \in 1..k
                 PROVE  i \in A
        OBVIOUS
    <2>1. i \in 1..n /\ (i < k \/ i = k)
        OBVIOUS
    <2> QED
        BY <2>1 DEF InOrder, TotalOn
<1>3. B \in SUBSET (1..(k - 1))
    <2> SUFFICES ASSUME NEW j \in 1..n, j = k \/ k < j
                 PROVE  j \notin B
        OBVIOUS
    <2>1. CASE j = k
        BY <2>1
    <2>2. CASE k < j
        <3>1. v[j] = v[k] \/ <<v[k], v[j]>> \in lt
            BY <2>2 DEF InOrder, TotalOn
        <3>2. r[k] \in 1..n /\ r[j] \in 1..n /\ v[k] = u[r[k]] /\ v[j] = u[r[j]]
            BY <1>1
        <3>3. <<u[k], v[j]>> \in lt
            BY <3>1, <3>2 DEF InOrder, TotalOn
        <3> QED
            BY <3>3
    <2> QED
        BY <2>1, <2>2
<1>4. f \in Surjection(B, A)
    <2>1. \A i \in B : r[i] \in A
        BY <1>1
    <2>2. \A a \in A : \E i \in B : f[i] = a
        BY <1>1
    <2>3. f \in [B -> A]
        BY <2>1
    <2> HIDE DEF f, A, B
    <2> QED
        BY <2>2, <2>3 DEF Surjection
<1>5. /\ IsFiniteSet(1..n)
      /\ IsFiniteSet(1..(k - 1)) /\ Cardinality(1..(k - 1)) = k - 1
      /\ IsFiniteSet(1..k) /\ Cardinality(1..k) = k
    <2>1. k \in Int /\ k - 1 \in Int /\ 1 \in Int /\ n \in Int /\ ~(1 > k)
        OBVIOUS
    <2>2. IsFiniteSet(1..n)
        BY <2>1, FS_Interval
    <2>3. IsFiniteSet(1..k) /\ Cardinality(1..k) = (k - 1) + 1
        BY <2>1, FS_Interval
    <2>4. /\ IsFiniteSet(1..(k - 1))
          /\ Cardinality(1..(k - 1)) = IF 1 > k - 1 THEN 0 ELSE ((k - 1) - 1) + 1
        BY <2>1, FS_Interval
    <2> QED
        BY <2>1, <2>2, <2>3, <2>4
<1> HIDE DEF A, B, f
<1>6. IsFiniteSet(B) /\ Cardinality(B) <= k - 1
    BY <1>3, <1>5, FS_Subset
<1>7. IsFiniteSet(A) /\ Cardinality(A) <= Cardinality(B)
    BY <1>4, <1>6, FS_Surjection
<1>8. k <= Cardinality(A)
    BY <1>2, <1>5, <1>7, FS_Subset
<1>9. Cardinality(A) \in Nat /\ Cardinality(B) \in Nat
    BY <1>6, <1>7, FS_CardinalityType
<1> QED
    BY <1>6, <1>7, <1>8, <1>9

\* Two lists in order of the same values are the same.
LEMMA OneOrder ==
    ASSUME NEW n \in Nat, NEW u, NEW v, NEW lt, InOrder(n, u, lt), InOrder(n, v, lt),
           NEW r \in Bijection(1..n, 1..n), \A i \in 1..n : v[i] = u[r[i]],
           NEW k \in 1..n
    PROVE  u[k] = v[k]
<1> DEFINE q == [a \in 1..n |-> CHOOSE i \in 1..n : r[i] = a]
<1>1. /\ r \in [1..n -> 1..n] /\ \A a \in 1..n : \E i \in 1..n : r[i] = a
      /\ \A i, j \in 1..n : r[i] = r[j] => i = j
    BY DEF Bijection, Injection, Surjection, IsInjective
<1>2. \A a \in 1..n : q[a] \in 1..n /\ r[q[a]] = a
    BY <1>1
<1>3. q \in Surjection(1..n, 1..n)
    <2>1. q \in [1..n -> 1..n]
        BY <1>2
    <2>2. \A i \in 1..n : r[i] \in 1..n /\ q[r[i]] = i
        BY <1>1, <1>2
    <2> HIDE DEF q
    <2> QED
        BY <2>1, <2>2 DEF Surjection
<1>4. \A a \in 1..n : u[a] = v[q[a]]
    BY <1>2
<1> HIDE DEF q
<1>5. r \in Surjection(1..n, 1..n)
    BY DEF Bijection
<1>6. <<u[k], v[k]>> \notin lt
    BY <1>5, NeitherIsAhead
<1>7. <<v[k], u[k]>> \notin lt
    BY <1>3, <1>4, NeitherIsAhead
<1>8. r[k] \in 1..n /\ v[k] = u[r[k]]
    BY <1>1
<1> QED
    BY <1>6, <1>7, <1>8 DEF InOrder, TotalOn

\* The positions of a list that compare as smaller by an order of its values.
Smaller(n, seq, lt) == {q \in (1..n) \X (1..n) : <<seq[q[1]], seq[q[2]]>> \in lt}

\* Sorted by a total order, a list is rearranged into this order.
LEMMA SortedInOrder ==
    ASSUME NEW n \in Nat, NEW seq, DOMAIN seq = 1..n, NEW lt, TotalOn(n, seq, lt)
    PROVE  \E p \in Bijection(1..n, 1..n) :
              /\ Sorted(seq, Smaller(n, seq, lt)) = [k \in 1..n |-> seq[p[k]]]
              /\ InOrder(n, Sorted(seq, Smaller(n, seq, lt)), lt)
<1> DEFINE before == Smaller(n, seq, lt)
<1>1. \A i, j \in 1..n : <<i, j>> \in before <=> <<seq[i], seq[j]>> \in lt
    BY DEF Smaller
<1> HIDE DEF before
<1>2. WeakOrder(n, before)
    <2>1. \A i \in 1..n : <<i, i>> \notin before
        BY <1>1 DEF TotalOn
    <2>2. ASSUME NEW i \in 1..n, NEW j \in 1..n, NEW k \in 1..n,
                 <<i, j>> \in before, <<j, k>> \in before
          PROVE  <<i, k>> \in before
        BY <1>1, <2>2 DEF TotalOn
    <2>3. ASSUME NEW i \in 1..n, NEW j \in 1..n, NEW k \in 1..n, <<i, k>> \in before
          PROVE  <<i, j>> \in before \/ <<j, k>> \in before
        <3>1. CASE seq[i] = seq[j]
            BY <1>1, <2>3, <3>1
        <3>2. CASE <<seq[j], seq[i]>> \in lt
            <4>1. <<seq[j], seq[k]>> \in lt
                BY <1>1, <2>3, <3>2 DEF TotalOn
            <4> QED
                BY <1>1, <4>1
        <3>3. CASE <<seq[i], seq[j]>> \in lt
            BY <1>1, <3>3
        <3> QED
            BY <3>1, <3>2, <3>3 DEF TotalOn
    <2> QED
        BY <2>1, <2>2, <2>3 DEF WeakOrder
<1>3. PICK p \in Bijection(1..n, 1..n) :
              /\ Sorted(seq, before) = [k \in 1..n |-> seq[p[k]]]
              /\ \A i, j \in 1..n : i < j => Ahead(before, p[i], p[j])
    BY <1>2, SortRearranges
<1>4. \A k \in 1..n : p[k] \in 1..n
    BY DEF Bijection, Injection
<1> DEFINE u == Sorted(seq, before)
<1>5. \A k \in 1..n : u[k] = seq[p[k]]
    BY <1>3
<1> HIDE DEF u
<1>6. TotalOn(n, u, lt)
    BY <1>4, <1>5 DEF TotalOn
<1>7. ASSUME NEW i \in 1..n, NEW j \in 1..n, i < j
      PROVE  <<u[j], u[i]>> \notin lt
    <2>1. Ahead(before, p[i], p[j])
        BY <1>3, <1>7
    <2>2. <<p[j], p[i]>> \notin before
        <3>1. CASE <<p[i], p[j]>> \in before
            BY <1>2, <1>4, <3>1 DEF WeakOrder
        <3> QED
            BY <2>1, <3>1 DEF Ahead
    <2> QED
        BY <1>1, <1>4, <1>5, <2>2
<1>8. InOrder(n, u, lt)
    BY <1>6, <1>7 DEF InOrder
<1> QED
    BY <1>3, <1>8 DEF u, before

\* Two rearrangements of one list are sorted into the same list.
LEMMA SortForgetsTheOrder ==
    ASSUME NEW n \in Nat, NEW s, DOMAIN s = 1..n, NEW t, DOMAIN t = 1..n,
           NEW p \in Bijection(1..n, 1..n), \A i \in 1..n : t[i] = s[p[i]],
           NEW lt, TotalOn(n, s, lt)
    PROVE  Sorted(s, Smaller(n, s, lt)) = Sorted(t, Smaller(n, t, lt))
<1>1. /\ p \in [1..n -> 1..n] /\ \A a \in 1..n : \E i \in 1..n : p[i] = a
      /\ \A i, j \in 1..n : p[i] = p[j] => i = j
    BY DEF Bijection, Injection, Surjection, IsInjective
<1>2. TotalOn(n, t, lt)
    <2>1. \A i \in 1..n : p[i] \in 1..n /\ t[i] = s[p[i]]
        BY <1>1
    <2> QED
        BY <2>1 DEF TotalOn
<1> DEFINE u == Sorted(s, Smaller(n, s, lt))
           v == Sorted(t, Smaller(n, t, lt))
<1>3. PICK a \in Bijection(1..n, 1..n) :
              u = [k \in 1..n |-> s[a[k]]] /\ InOrder(n, u, lt)
    BY SortedInOrder
<1>4. PICK b \in Bijection(1..n, 1..n) :
              v = [k \in 1..n |-> t[b[k]]] /\ InOrder(n, v, lt)
    BY <1>2, SortedInOrder
<1> HIDE DEF u, v
<1>5. /\ a \in [1..n -> 1..n] /\ \A i \in 1..n : \E k \in 1..n : a[k] = i
      /\ \A i, j \in 1..n : a[i] = a[j] => i = j
    BY DEF Bijection, Injection, Surjection, IsInjective
<1>6. /\ b \in [1..n -> 1..n] /\ \A i \in 1..n : \E k \in 1..n : b[k] = i
      /\ \A i, j \in 1..n : b[i] = b[j] => i = j
    BY DEF Bijection, Injection, Surjection, IsInjective
<1> DEFINE r == [k \in 1..n |-> CHOOSE j \in 1..n : a[j] = p[b[k]]]
<1>7. \A k \in 1..n : r[k] \in 1..n /\ a[r[k]] = p[b[k]]
    BY <1>1, <1>5, <1>6
<1>8. \A j \in 1..n : \E k \in 1..n : r[k] = j
    <2> SUFFICES ASSUME NEW j \in 1..n
                 PROVE  \E k \in 1..n : r[k] = j
        OBVIOUS
    <2>1. PICK i \in 1..n : p[i] = a[j]
        BY <1>1, <1>5
    <2>2. PICK k \in 1..n : b[k] = i
        BY <1>6
    <2>3. a[r[k]] = a[j] /\ r[k] \in 1..n
        BY <1>7, <2>1, <2>2
    <2> HIDE DEF r
    <2> QED
        BY <1>5, <2>3
<1>9. \A k, l \in 1..n : r[k] = r[l] => k = l
    <2> HIDE DEF r
    <2> SUFFICES ASSUME NEW k \in 1..n, NEW l \in 1..n, r[k] = r[l]
                 PROVE  k = l
        OBVIOUS
    <2>1. p[b[k]] = p[b[l]]
        BY <1>7
    <2>2. b[k] \in 1..n /\ b[l] \in 1..n
        BY <1>6
    <2>3. b[k] = b[l]
        BY <1>1, <2>1, <2>2
    <2> QED
        BY <1>6, <2>3
<1>10. r \in [1..n -> 1..n]
    BY <1>7
<1> HIDE DEF r
<1>11. r \in Bijection(1..n, 1..n)
    BY <1>8, <1>9, <1>10 DEF Bijection, Injection, Surjection, IsInjective
<1>12. \A k \in 1..n : v[k] = u[r[k]]
    <2> SUFFICES ASSUME NEW k \in 1..n
                 PROVE  v[k] = u[r[k]]
        OBVIOUS
    <2>1. b[k] \in 1..n /\ p[b[k]] \in 1..n /\ r[k] \in 1..n /\ a[r[k]] = p[b[k]]
        BY <1>1, <1>6, <1>7
    <2>2. v[k] = t[b[k]] /\ u[r[k]] = s[a[r[k]]]
        BY <1>3, <1>4, <2>1
    <2> QED
        BY <2>1, <2>2
<1>13. ASSUME NEW k \in 1..n
       PROVE  u[k] = v[k]
    <2>1. InOrder(n, u, lt) /\ InOrder(n, v, lt)
        BY <1>3, <1>4
    <2> QED
        BY <1>11, <1>12, <2>1, OneOrder
<1> QED
    BY <1>3, <1>4, <1>13 DEF u, v

-----------------------------------------------------------------------------
(* The orders of Riot's lists.                                              *)

Pairs == Nat \X Nat

LEMMA PairsInOrder ==
    /\ \A p \in Pairs : ~PairBefore(p, p)
    /\ \A p, q, r \in Pairs : PairBefore(p, q) /\ PairBefore(q, r) => PairBefore(p, r)
    /\ \A p, q \in Pairs : p = q \/ PairBefore(p, q) \/ PairBefore(q, p)
<1>1. \A p \in Pairs : p[1] \in Nat /\ p[2] \in Nat /\ p = <<p[1], p[2]>>
    BY DEF Pairs
<1>2. \A p \in Pairs : ~PairBefore(p, p)
    BY <1>1 DEF PairBefore
<1>3. \A p, q, r \in Pairs : PairBefore(p, q) /\ PairBefore(q, r) => PairBefore(p, r)
    BY <1>1 DEF PairBefore
<1>4. \A p, q \in Pairs : p = q \/ PairBefore(p, q) \/ PairBefore(q, p)
    BY <1>1 DEF PairBefore
<1> QED
    BY <1>2, <1>3, <1>4

LEMMA LeastNat ==
    ASSUME NEW S \in SUBSET Nat, S # {}
    PROVE  \E m \in S : \A n \in S : m <= n
<1>1. PICK R : /\ IsWellFoundedOn(R, Nat)
               /\ \A m, n \in Nat : n < m => <<n, m>> \in R
    <2> DEFINE R == OpToRel(<, Nat)
    <2>1. IsWellFoundedOn(R, Nat)
        BY NatLessThanWellFounded
    <2>2. \A m, n \in Nat : n < m => <<n, m>> \in R
        BY DEF OpToRel
    <2> HIDE DEF R
    <2> QED
        BY <2>1, <2>2
<1>2. PICK m \in S : \A n \in S : ~(<<n, m>> \in R)
    BY <1>1, WFMin
<1>3. m \in Nat /\ \A n \in S : n \in Nat
    OBVIOUS
<1>4. ASSUME NEW n \in S
      PROVE  m <= n
    <2>1. n \in Nat /\ ~(n < m)
        BY <1>1, <1>2, <1>3
    <2> QED
        BY <1>3, <2>1
<1> QED
    BY <1>4

\* Lists of pairs are compared at the first place where they differ.
LEMMA KeysInOrder ==
    /\ \A s \in Seq(Pairs) : ~KeyBefore(s, s)
    /\ \A s, t, u \in Seq(Pairs) : KeyBefore(s, t) /\ KeyBefore(t, u) => KeyBefore(s, u)
    /\ \A s, t \in Seq(Pairs) : s = t \/ KeyBefore(s, t) \/ KeyBefore(t, s)
<1>1. \A s \in Seq(Pairs) : Len(s) \in Nat /\ \A i \in 1..Len(s) : s[i] \in Pairs
    OBVIOUS
<1>2. ASSUME NEW s \in Seq(Pairs), KeyBefore(s, s)
      PROVE  FALSE
    <2>1. PICK i \in 1..Len(s) : i > Len(s) \/ PairBefore(s[i], s[i])
        BY <1>2 DEF KeyBefore
    <2>2. ~(i > Len(s)) /\ s[i] \in Pairs
        BY <1>1
    <2> QED
        BY <2>1, <2>2, PairsInOrder
<1>3. ASSUME NEW s \in Seq(Pairs), NEW t \in Seq(Pairs), NEW u \in Seq(Pairs),
             KeyBefore(s, t), KeyBefore(t, u)
      PROVE  KeyBefore(s, u)
    <2>1. PICK i \in 1..Len(t) :
             /\ i - 1 <= Len(s) /\ \A j \in 1..(i - 1) : s[j] = t[j]
             /\ i > Len(s) \/ PairBefore(s[i], t[i])
        BY <1>3 DEF KeyBefore
    <2>2. PICK k \in 1..Len(u) :
             /\ k - 1 <= Len(t) /\ \A j \in 1..(k - 1) : t[j] = u[j]
             /\ k > Len(t) \/ PairBefore(t[k], u[k])
        BY <1>3 DEF KeyBefore
    <2>3. Len(s) \in Nat /\ Len(t) \in Nat /\ Len(u) \in Nat /\ i \in Nat /\ k \in Nat
        BY <1>1
    <2>4. CASE i < k
        <3>1. i \in 1..Len(u) /\ t[i] = u[i]
            BY <2>2, <2>3, <2>4
        <3>2. \A j \in 1..(i - 1) : s[j] = u[j]
            BY <2>1, <2>2, <2>3, <2>4
        <3> QED
            BY <2>1, <3>1, <3>2 DEF KeyBefore
    <2>5. CASE k < i
        <3>1. k - 1 <= Len(s) /\ k <= Len(s) /\ s[k] = t[k] /\ PairBefore(t[k], u[k])
            BY <2>1, <2>2, <2>3, <2>5
        <3>2. \A j \in 1..(k - 1) : s[j] = u[j]
            BY <2>1, <2>2, <2>3, <2>5
        <3> QED
            BY <3>1, <3>2 DEF KeyBefore
    <2>6. CASE i = k
        <3>1. \A j \in 1..(i - 1) : s[j] = u[j]
            BY <2>1, <2>2, <2>3, <2>6
        <3>2. ~(k > Len(t)) /\ PairBefore(t[i], u[i])
            BY <2>2, <2>3, <2>6
        <3>3. i <= Len(s) => PairBefore(s[i], u[i])
            <4>1. i <= Len(s) => s[i] \in Pairs /\ t[i] \in Pairs /\ u[i] \in Pairs
                BY <1>1, <2>3, <2>6
            <4>2. i <= Len(s) => PairBefore(s[i], t[i])
                BY <2>1, <2>3
            <4> QED
                BY <3>2, <4>1, <4>2, PairsInOrder
        <3>4. i > Len(s) \/ i <= Len(s)
            BY <2>3
        <3>5. i \in 1..Len(u)
            BY <2>6
        <3> QED
            BY <2>1, <3>1, <3>3, <3>4, <3>5 DEF KeyBefore
    <2> QED
        BY <2>3, <2>4, <2>5, <2>6
<1>4. ASSUME NEW s \in Seq(Pairs), NEW t \in Seq(Pairs), s # t
      PROVE  KeyBefore(s, t) \/ KeyBefore(t, s)
    <2> DEFINE D == {i \in Nat \ {0} : i > Len(s) \/ i > Len(t) \/ s[i] # t[i]}
    <2>1. Len(s) \in Nat /\ Len(t) \in Nat
        BY <1>1
    <2>2. D \in SUBSET Nat /\ D # {}
        <3>1. Len(s) + 1 \in D
            BY <2>1
        <3> QED
            BY <3>1
    <2>3. PICK i \in D : \A j \in D : i <= j
        <3> HIDE DEF D
        <3> QED
            BY <2>2, LeastNat
    <2>4. \A j \in 1..(i - 1) : j \notin D
        BY <2>3
    <2>5. i \in Nat \ {0} /\ (i > Len(s) \/ i > Len(t) \/ s[i] # t[i])
        OBVIOUS
    <2>6. \A j \in 1..(i - 1) : j <= Len(s) /\ j <= Len(t) /\ s[j] = t[j]
        BY <2>1, <2>4, <2>5
    <2> HIDE DEF D
    <2>7. i - 1 <= Len(s) /\ i - 1 <= Len(t)
        <3>1. i = 1 \/ i - 1 \in 1..(i - 1)
            BY <2>5
        <3> QED
            BY <2>1, <2>5, <2>6, <3>1
    <2>8. CASE i > Len(s) /\ i > Len(t)
        <3>1. Len(s) = Len(t) /\ i - 1 = Len(s)
            BY <2>1, <2>5, <2>7, <2>8
        <3>2. \A j \in 1..Len(s) : s[j] = t[j]
            BY <2>6, <3>1
        <3> QED
            BY <1>4, <3>1, <3>2
    <2>9. CASE i > Len(s) /\ i <= Len(t)
        BY <2>1, <2>5, <2>6, <2>7, <2>9 DEF KeyBefore
    <2>10. CASE i <= Len(s) /\ i > Len(t)
        <3>1. i \in 1..Len(s) /\ \A j \in 1..(i - 1) : t[j] = s[j]
            BY <2>1, <2>5, <2>6, <2>10
        <3> QED
            BY <2>7, <2>10, <3>1 DEF KeyBefore
    <2>11. CASE i <= Len(s) /\ i <= Len(t)
        <3>1. i \in 1..Len(s) /\ i \in 1..Len(t) /\ s[i] # t[i]
            BY <2>1, <2>5, <2>11
        <3>2. PairBefore(s[i], t[i]) \/ PairBefore(t[i], s[i])
            BY <1>1, <3>1, PairsInOrder
        <3>3. \A j \in 1..(i - 1) : t[j] = s[j]
            BY <2>6
        <3> QED
            BY <2>6, <2>7, <3>1, <3>2, <3>3 DEF KeyBefore
    <2>12. (i > Len(s) \/ i <= Len(s)) /\ (i > Len(t) \/ i <= Len(t))
        BY <2>1, <2>5
    <2> QED
        BY <2>8, <2>9, <2>10, <2>11, <2>12
<1> QED
    BY <1>2, <1>3, <1>4

Costs == [currency : Nat, amount : Nat]
RawRewards == [level : Nat, quantity : Nat, skin : {NoSkin}]
RawOffers == [id : Nat, costs : Seq(Costs), rewards : Seq(RawRewards)]

CostOrder == {q \in Costs \X Costs : CostBefore(q[1], q[2])}
RewardOrder == {q \in RawRewards \X RawRewards : RewardBefore(q[1], q[2])}
OfferOrder == {q \in RawOffers \X RawOffers : OfferBefore(q[1], q[2])}

LEMMA CostsInOrder ==
    ASSUME NEW n \in Nat, NEW s, DOMAIN s = 1..n, \A i \in 1..n : s[i] \in Costs,
           \A i, j \in 1..n : s[i].currency = s[j].currency => i = j
    PROVE  /\ TotalOn(n, s, CostOrder)
           /\ SortBy(s, CostBefore) = Sorted(s, Smaller(n, s, CostOrder))
<1>1. \A i, j \in 1..n : <<s[i], s[j]>> \in CostOrder <=> s[i].currency < s[j].currency
    BY DEF CostOrder, CostBefore
<1>2. \A i \in 1..n : s[i].currency \in Nat
    BY DEF Costs
<1>3. \A i, j \in 1..n : s[i] = s[j] \/ s[i].currency # s[j].currency
    OBVIOUS
<1>4. TotalOn(n, s, CostOrder)
    <2> DEFINE c(i) == s[i].currency
    <2>1. \A i \in 1..n : c(i) \in Nat
        BY <1>2
    <2>2. \A i, j \in 1..n : <<s[i], s[j]>> \in CostOrder <=> c(i) < c(j)
        BY <1>1
    <2>3. \A i, j \in 1..n : s[i] = s[j] \/ c(i) # c(j)
        BY <1>3
    <2> HIDE DEF c
    <2>4. \A i \in 1..n : <<s[i], s[i]>> \notin CostOrder
        BY <2>1, <2>2
    <2>5. \A i, j, k \in 1..n : <<s[i], s[j]>> \in CostOrder /\ <<s[j], s[k]>> \in CostOrder
                                => <<s[i], s[k]>> \in CostOrder
        BY <2>1, <2>2
    <2>6. \A i, j \in 1..n : s[i] = s[j] \/ <<s[i], s[j]>> \in CostOrder \/ <<s[j], s[i]>> \in CostOrder
        BY <2>1, <2>2, <2>3
    <2> QED
        BY <2>4, <2>5, <2>6 DEF TotalOn
<1>5. Positions(s, CostBefore) = Smaller(n, s, CostOrder)
    BY <1>1 DEF Positions, Smaller, CostBefore
<1> QED
    BY <1>4, <1>5 DEF SortBy

LEMMA RewardsInOrder ==
    ASSUME NEW n \in Nat, NEW s, DOMAIN s = 1..n, \A i \in 1..n : s[i] \in RawRewards
    PROVE  /\ TotalOn(n, s, RewardOrder)
           /\ SortBy(s, RewardBefore) = Sorted(s, Smaller(n, s, RewardOrder))
<1> DEFINE key(i) == <<s[i].level, s[i].quantity>>
<1>1. \A i \in 1..n : key(i) \in Pairs
    BY DEF RawRewards, Pairs
<1>2. \A i, j \in 1..n : <<s[i], s[j]>> \in RewardOrder <=> PairBefore(key(i), key(j))
    BY DEF RewardOrder, RewardBefore, PairBefore
<1>3. \A i, j \in 1..n : key(i) = key(j) => s[i] = s[j]
    BY DEF RawRewards
<1>4. \A i, j \in 1..n : <<s[i], s[j]>> \in RewardOrder <=> RewardBefore(s[i], s[j])
    BY DEF RewardOrder
<1> HIDE DEF key
<1>5. TotalOn(n, s, RewardOrder)
    <2>1. \A i \in 1..n : <<s[i], s[i]>> \notin RewardOrder
        BY <1>1, <1>2, PairsInOrder
    <2>2. \A i, j, k \in 1..n : <<s[i], s[j]>> \in RewardOrder /\ <<s[j], s[k]>> \in RewardOrder
                                => <<s[i], s[k]>> \in RewardOrder
        BY <1>1, <1>2, PairsInOrder
    <2>3. \A i, j \in 1..n :
             s[i] = s[j] \/ <<s[i], s[j]>> \in RewardOrder \/ <<s[j], s[i]>> \in RewardOrder
        BY <1>1, <1>2, <1>3, PairsInOrder
    <2> QED
        BY <2>1, <2>2, <2>3 DEF TotalOn
<1>6. Positions(s, RewardBefore) = Smaller(n, s, RewardOrder)
    BY <1>4 DEF Positions, Smaller
<1> QED
    BY <1>5, <1>6 DEF SortBy

LEMMA SameLength ==
    ASSUME NEW m \in Nat, NEW n \in Nat, 1..m = 1..n
    PROVE  m = n
<1>1. CASE m < n
    <2>1. n \in 1..n /\ n \notin 1..m
        BY <1>1
    <2> QED
        BY <2>1
<1>2. CASE n < m
    <2>1. m \in 1..m /\ m \notin 1..n
        BY <1>2
    <2> QED
        BY <2>1
<1> QED
    BY <1>1, <1>2

\* Offers differ in their id, their prices or their rewards.
LEMMA OffersDiffer ==
    ASSUME NEW a \in RawOffers, NEW b \in RawOffers
    PROVE  /\ a.id \in Nat /\ CostKey(a) \in Seq(Pairs) /\ RewardKey(a) \in Seq(Pairs)
           /\ a.id = b.id /\ CostKey(a) = CostKey(b) /\ RewardKey(a) = RewardKey(b) => a = b
<1>1. /\ a.id \in Nat /\ a.costs \in Seq(Costs) /\ a.rewards \in Seq(RawRewards)
      /\ b.id \in Nat /\ b.costs \in Seq(Costs) /\ b.rewards \in Seq(RawRewards)
      /\ a = [id |-> a.id, costs |-> a.costs, rewards |-> a.rewards]
      /\ b = [id |-> b.id, costs |-> b.costs, rewards |-> b.rewards]
    BY DEF RawOffers
<1> DEFINE ac == a.costs
           ar == a.rewards
           bc == b.costs
           br == b.rewards
<1>2. /\ \A i \in 1..Len(ac) : ac[i] \in Costs /\ <<ac[i].currency, ac[i].amount>> \in Pairs
      /\ \A i \in 1..Len(ar) : ar[i] \in RawRewards /\ <<ar[i].level, ar[i].quantity>> \in Pairs
    <2> HIDE DEF ac, ar
    <2>1. \A i \in 1..Len(ac) : ac[i] \in Costs
        BY <1>1 DEF ac
    <2>2. \A i \in 1..Len(ar) : ar[i] \in RawRewards
        BY <1>1 DEF ar
    <2> QED
        BY <2>1, <2>2 DEF Costs, RawRewards, Pairs
<1>3. /\ DOMAIN ac = 1..Len(ac) /\ Len(ac) \in Nat /\ DOMAIN ar = 1..Len(ar) /\ Len(ar) \in Nat
      /\ DOMAIN bc = 1..Len(bc) /\ Len(bc) \in Nat /\ DOMAIN br = 1..Len(br) /\ Len(br) \in Nat
    BY <1>1
<1>4. CostKey(a) = [i \in 1..Len(ac) |-> <<ac[i].currency, ac[i].amount>>]
    BY <1>3 DEF CostKey
<1>5. RewardKey(a) = [i \in 1..Len(ar) |-> <<ar[i].level, ar[i].quantity>>]
    BY <1>3 DEF RewardKey
<1>6. CostKey(b) = [i \in 1..Len(bc) |-> <<bc[i].currency, bc[i].amount>>]
    BY <1>3 DEF CostKey
<1>7. RewardKey(b) = [i \in 1..Len(br) |-> <<br[i].level, br[i].quantity>>]
    BY <1>3 DEF RewardKey
<1>8. CostKey(a) \in Seq(Pairs) /\ RewardKey(a) \in Seq(Pairs)
    <2> HIDE DEF ac, ar
    <2> QED
        BY <1>2, <1>3, <1>4, <1>5
<1>9. ASSUME CostKey(a) = CostKey(b)
      PROVE  ac = bc
    <2> HIDE DEF ac, bc
    <2>1. DOMAIN CostKey(a) = 1..Len(ac) /\ DOMAIN CostKey(b) = 1..Len(bc)
        BY <1>4, <1>6
    <2>2. Len(ac) = Len(bc)
        BY <1>3, <1>9, <2>1, SameLength
    <2>3. ASSUME NEW i \in 1..Len(ac)
          PROVE  ac[i] = bc[i]
        <3>1. ac[i] \in Costs /\ bc[i] \in Costs
            BY <1>1, <2>2, <2>3 DEF ac, bc
        <3>2. <<ac[i].currency, ac[i].amount>> = <<bc[i].currency, bc[i].amount>>
            BY <1>4, <1>6, <1>9, <2>2
        <3> QED
            BY <3>1, <3>2 DEF Costs
    <2> QED
        BY <1>1, <2>2, <2>3 DEF ac, bc
<1>10. ASSUME RewardKey(a) = RewardKey(b)
       PROVE  ar = br
    <2> HIDE DEF ar, br
    <2>1. DOMAIN RewardKey(a) = 1..Len(ar) /\ DOMAIN RewardKey(b) = 1..Len(br)
        BY <1>5, <1>7
    <2>2. Len(ar) = Len(br)
        BY <1>3, <1>10, <2>1, SameLength
    <2>3. ASSUME NEW i \in 1..Len(ar)
          PROVE  ar[i] = br[i]
        <3>1. ar[i] \in RawRewards /\ br[i] \in RawRewards
            BY <1>1, <2>2, <2>3 DEF ar, br
        <3>2. <<ar[i].level, ar[i].quantity>> = <<br[i].level, br[i].quantity>>
            BY <1>5, <1>7, <1>10, <2>2
        <3> QED
            BY <3>1, <3>2 DEF RawRewards
    <2> QED
        BY <1>1, <2>2, <2>3 DEF ar, br
<1> QED
    BY <1>1, <1>8, <1>9, <1>10

LEMMA OffersInOrder ==
    ASSUME NEW n \in Nat, NEW s, DOMAIN s = 1..n, \A i \in 1..n : s[i] \in RawOffers
    PROVE  /\ TotalOn(n, s, OfferOrder)
           /\ SortBy(s, OfferBefore) = Sorted(s, Smaller(n, s, OfferOrder))
<1> DEFINE x(i) == s[i].id
           y(i) == CostKey(s[i])
           z(i) == RewardKey(s[i])
<1>1. \A i \in 1..n : x(i) \in Nat /\ y(i) \in Seq(Pairs) /\ z(i) \in Seq(Pairs)
    BY OffersDiffer
<1>2. \A i, j \in 1..n : x(i) = x(j) /\ y(i) = y(j) /\ z(i) = z(j) => s[i] = s[j]
    BY OffersDiffer
<1>3. \A i, j \in 1..n : <<s[i], s[j]>> \in OfferOrder <=> OfferBefore(s[i], s[j])
    BY DEF OfferOrder
<1>4. \A i, j \in 1..n : <<s[i], s[j]>> \in OfferOrder
                         <=> \/ x(i) < x(j)
                             \/ x(i) = x(j) /\ KeyBefore(y(i), y(j))
                             \/ x(i) = x(j) /\ y(i) = y(j) /\ KeyBefore(z(i), z(j))
    BY <1>3 DEF OfferBefore
<1>5. TotalOn(n, s, OfferOrder)
    <2> HIDE DEF x, y, z
    <2>1. \A i \in 1..n : <<s[i], s[i]>> \notin OfferOrder
        BY <1>1, <1>4, KeysInOrder
    <2>2. ASSUME NEW i \in 1..n, NEW j \in 1..n, NEW k \in 1..n,
                 <<s[i], s[j]>> \in OfferOrder, <<s[j], s[k]>> \in OfferOrder
          PROVE  <<s[i], s[k]>> \in OfferOrder
        <3>1. x(i) \in Nat /\ x(j) \in Nat /\ x(k) \in Nat
            BY <1>1
        <3>2. x(i) <= x(j) /\ x(j) <= x(k)
            BY <1>4, <2>2, <3>1
        <3>3. CASE x(i) < x(j) \/ x(j) < x(k)
            BY <1>4, <3>1, <3>2, <3>3
        <3>4. CASE x(i) = x(j) /\ x(j) = x(k)
            <4>1. /\ KeyBefore(y(i), y(j)) \/ (y(i) = y(j) /\ KeyBefore(z(i), z(j)))
                  /\ KeyBefore(y(j), y(k)) \/ (y(j) = y(k) /\ KeyBefore(z(j), z(k)))
                BY <1>4, <2>2, <3>1, <3>4
            <4>2. KeyBefore(y(i), y(j)) /\ KeyBefore(y(j), y(k)) => KeyBefore(y(i), y(k))
                BY <1>1, KeysInOrder
            <4>3. KeyBefore(z(i), z(j)) /\ KeyBefore(z(j), z(k)) => KeyBefore(z(i), z(k))
                BY <1>1, KeysInOrder
            <4>4. KeyBefore(y(i), y(k)) \/ (y(i) = y(k) /\ KeyBefore(z(i), z(k)))
                BY <4>1, <4>2, <4>3
            <4> QED
                BY <1>4, <3>4, <4>4
        <3>5. (x(i) < x(j) \/ x(i) = x(j)) /\ (x(j) < x(k) \/ x(j) = x(k))
            BY <3>1, <3>2
        <3> QED
            BY <3>3, <3>4, <3>5
    <2>3. ASSUME NEW i \in 1..n, NEW j \in 1..n
          PROVE  \/ s[i] = s[j] \/ <<s[i], s[j]>> \in OfferOrder \/ <<s[j], s[i]>> \in OfferOrder
        <3>1. x(i) < x(j) \/ x(j) < x(i) \/ x(i) = x(j)
            BY <1>1
        <3>2. y(i) = y(j) \/ KeyBefore(y(i), y(j)) \/ KeyBefore(y(j), y(i))
            BY <1>1, KeysInOrder
        <3>3. z(i) = z(j) \/ KeyBefore(z(i), z(j)) \/ KeyBefore(z(j), z(i))
            BY <1>1, KeysInOrder
        <3> QED
            BY <1>2, <1>4, <3>1, <3>2, <3>3
    <2> QED
        BY <2>1, <2>2, <2>3 DEF TotalOn
<1>6. Positions(s, OfferBefore) = Smaller(n, s, OfferOrder)
    BY <1>3 DEF Positions, Smaller
<1> QED
    BY <1>5, <1>6 DEF SortBy

-----------------------------------------------------------------------------
(* One rotation, one snapshot.                                              *)

\* Sorting keeps the values.
LEMMA SortedCosts ==
    ASSUME NEW n \in Nat, NEW s, DOMAIN s = 1..n, \A i \in 1..n : s[i] \in Costs,
           \A i, j \in 1..n : s[i].currency = s[j].currency => i = j
    PROVE  SortBy(s, CostBefore) \in Seq(Costs)
<1>1. PICK p \in Bijection(1..n, 1..n) : SortBy(s, CostBefore) = [k \in 1..n |-> s[p[k]]]
    BY CostsInOrder, SortedInOrder
<1>2. \A k \in 1..n : p[k] \in 1..n
    BY DEF Bijection, Injection
<1> QED
    BY <1>1, <1>2

LEMMA SortedRewards ==
    ASSUME NEW n \in Nat, NEW s, DOMAIN s = 1..n, \A i \in 1..n : s[i] \in RawRewards
    PROVE  /\ SortBy(s, RewardBefore) \in Seq(RawRewards)
           /\ DOMAIN SortBy(s, RewardBefore) = 1..n
           /\ \A k \in 1..n : \E i \in 1..n : SortBy(s, RewardBefore)[k] = s[i]
<1>1. PICK p \in Bijection(1..n, 1..n) : SortBy(s, RewardBefore) = [k \in 1..n |-> s[p[k]]]
    BY RewardsInOrder, SortedInOrder
<1>2. \A k \in 1..n : p[k] \in 1..n
    BY DEF Bijection, Injection
<1> QED
    BY <1>1, <1>2

LEMMA SortedOffers ==
    ASSUME NEW n \in Nat, NEW s, DOMAIN s = 1..n, \A i \in 1..n : s[i] \in RawOffers
    PROVE  /\ DOMAIN SortBy(s, OfferBefore) = 1..n
           /\ \A k \in 1..n : \E i \in 1..n : SortBy(s, OfferBefore)[k] = s[i]
<1>1. PICK p \in Bijection(1..n, 1..n) : SortBy(s, OfferBefore) = [k \in 1..n |-> s[p[k]]]
    BY OffersInOrder, SortedInOrder
<1>2. \A k \in 1..n : p[k] \in 1..n
    BY DEF Bijection, Injection
<1> QED
    BY <1>1, <1>2

\* The rewards of an offer before they are sorted.
Unsorted(o) ==
    [j \in DOMAIN o.rewards |->
       [level |-> o.rewards[j].level, quantity |-> o.rewards[j].quantity, skin |-> NoSkin]]

LEMMA RiotOfferShape ==
    ASSUME NEW o, RiotOffer(o)
    PROVE  /\ o.id \in Nat
           /\ Len(o.costs) \in Nat /\ DOMAIN o.costs = 1..Len(o.costs)
           /\ \A i \in 1..Len(o.costs) : o.costs[i] \in Costs
           /\ \A i, j \in 1..Len(o.costs) :
                 o.costs[i].currency = o.costs[j].currency => i = j
           /\ Len(o.rewards) \in Nat /\ DOMAIN o.rewards = 1..Len(o.rewards)
           /\ Len(o.rewards) # 0
           /\ DOMAIN Unsorted(o) = 1..Len(o.rewards)
           /\ \A j \in 1..Len(o.rewards) : Unsorted(o)[j] \in RawRewards
<1> DEFINE R == [level : Nat, quantity : Nat, skinType : BOOLEAN]
           cs == o.costs
           rs == o.rewards
<1>1. o.id \in Nat /\ cs \in Seq(Costs) /\ rs \in Seq(R) /\ rs # <<>>
    BY DEF RiotOffer, Costs
<1>2. \A i, j \in DOMAIN cs : cs[i].currency = cs[j].currency => i = j
    BY DEF RiotOffer
<1> HIDE DEF cs, rs
<1>3. Len(cs) \in Nat /\ DOMAIN cs = 1..Len(cs) /\ \A i \in 1..Len(cs) : cs[i] \in Costs
    BY <1>1
<1>4. /\ Len(rs) \in Nat /\ DOMAIN rs = 1..Len(rs) /\ Len(rs) # 0
      /\ \A j \in 1..Len(rs) : rs[j] \in R
    <2> HIDE DEF R
    <2> QED
        BY <1>1
<1>5. \A j \in 1..Len(rs) :
         [level |-> rs[j].level, quantity |-> rs[j].quantity, skin |-> NoSkin] \in RawRewards
    BY <1>4 DEF RawRewards
<1>6. Unsorted(o) = [j \in 1..Len(rs) |->
                       [level |-> rs[j].level, quantity |-> rs[j].quantity, skin |-> NoSkin]]
    BY <1>4 DEF Unsorted, rs
<1>7. DOMAIN Unsorted(o) = 1..Len(rs) /\ \A j \in 1..Len(rs) : Unsorted(o)[j] \in RawRewards
    BY <1>5, <1>6
<1> QED
    BY <1>1, <1>2, <1>3, <1>4, <1>7 DEF cs, rs

\* What one of Riot's offers becomes: as many rewards, each of a level it had.
LEMMA SnapshotOfOffer ==
    ASSUME NEW o, RiotOffer(o)
    PROVE  /\ SnapshotOffer(o) \in RawOffers
           /\ DOMAIN SnapshotOffer(o).rewards = 1..Len(o.rewards)
           /\ \A j \in 1..Len(o.rewards) : \E i \in 1..Len(o.rewards) :
                 SnapshotOffer(o).rewards[j].level = o.rewards[i].level
<1>1. SnapshotOffer(o) = [id |-> o.id, costs |-> SortBy(o.costs, CostBefore),
                          rewards |-> SortBy(Unsorted(o), RewardBefore)]
    BY DEF SnapshotOffer, Unsorted
<1>2. SortBy(o.costs, CostBefore) \in Seq(Costs)
    BY RiotOfferShape, SortedCosts
<1>3. /\ SortBy(Unsorted(o), RewardBefore) \in Seq(RawRewards)
      /\ DOMAIN SortBy(Unsorted(o), RewardBefore) = 1..Len(o.rewards)
      /\ \A k \in 1..Len(o.rewards) : \E i \in 1..Len(o.rewards) :
            SortBy(Unsorted(o), RewardBefore)[k] = Unsorted(o)[i]
    BY RiotOfferShape, SortedRewards
<1>4. \A i \in 1..Len(o.rewards) : Unsorted(o)[i].level = o.rewards[i].level
    BY RiotOfferShape DEF Unsorted
<1>5. SnapshotOffer(o) \in RawOffers
    BY <1>1, <1>2, <1>3, RiotOfferShape DEF RawOffers
<1>6. SnapshotOffer(o).rewards = SortBy(Unsorted(o), RewardBefore)
    BY <1>1
<1>7. \A j \in 1..Len(o.rewards) : \E i \in 1..Len(o.rewards) :
         SnapshotOffer(o).rewards[j].level = o.rewards[i].level
    <2> SUFFICES ASSUME NEW j \in 1..Len(o.rewards)
                 PROVE  \E i \in 1..Len(o.rewards) :
                           SnapshotOffer(o).rewards[j].level = o.rewards[i].level
        OBVIOUS
    <2>1. PICK i \in 1..Len(o.rewards) :
                  SortBy(Unsorted(o), RewardBefore)[j] = Unsorted(o)[i]
        BY <1>3
    <2> QED
        BY <1>4, <1>6, <2>1
<1> QED
    BY <1>3, <1>5, <1>6, <1>7

\* However Riot lists the prices and rewards of an offer, its snapshot is one.
LEMMA FormsAgree ==
    ASSUME NEW o, RiotOffer(o), NEW f \in OfferForms(o)
    PROVE  /\ SnapshotOffer(f) = SnapshotOffer(o)
           /\ RiotOffer(f)
<1>1. PICK k \in Rearranged(o.costs), r \in Rearranged(o.rewards) :
              f = [id |-> o.id, costs |-> k, rewards |-> r]
    BY DEF OfferForms
<1>2. f.id = o.id /\ f.costs = k /\ f.rewards = r
    BY <1>1
<1> DEFINE m == Len(o.costs)
           n == Len(o.rewards)
<1>3. PICK p \in Bijection(1..m, 1..m) : k = [i \in 1..m |-> o.costs[p[i]]]
    BY RiotOfferShape DEF Rearranged
<1>4. PICK q \in Bijection(1..n, 1..n) : r = [i \in 1..n |-> o.rewards[q[i]]]
    BY RiotOfferShape DEF Rearranged
<1>5. /\ m \in Nat /\ n \in Nat /\ n # 0
      /\ \A i \in 1..m : p[i] \in 1..m /\ k[i] = o.costs[p[i]]
      /\ \A i \in 1..n : q[i] \in 1..n /\ r[i] = o.rewards[q[i]]
      /\ DOMAIN k = 1..m /\ DOMAIN r = 1..n
      /\ \A i, j \in 1..m : p[i] = p[j] => i = j
    BY <1>3, <1>4, RiotOfferShape DEF Bijection, Injection, IsInjective
<1>6. \A i, j \in 1..m : k[i].currency = k[j].currency => i = j
    <2> SUFFICES ASSUME NEW i \in 1..m, NEW j \in 1..m, k[i].currency = k[j].currency
                 PROVE  i = j
        OBVIOUS
    <2>1. p[i] \in 1..m /\ p[j] \in 1..m /\ o.costs[p[i]].currency = o.costs[p[j]].currency
        BY <1>5
    <2>2. p[i] = p[j]
        BY <2>1, RiotOfferShape
    <2> QED
        BY <1>5, <2>2
<1>7. SortBy(k, CostBefore) = SortBy(o.costs, CostBefore)
    <2>1. /\ TotalOn(m, o.costs, CostOrder)
          /\ SortBy(o.costs, CostBefore) = Sorted(o.costs, Smaller(m, o.costs, CostOrder))
        BY RiotOfferShape, CostsInOrder
    <2>2. SortBy(k, CostBefore) = Sorted(k, Smaller(m, k, CostOrder))
        <3>1. \A i \in 1..m : k[i] \in Costs
            BY <1>5, RiotOfferShape
        <3>2. \A i, j \in 1..m : k[i].currency = k[j].currency => i = j
            BY <1>6
        <3> HIDE DEF m, n
        <3> QED
            BY <1>5, <3>1, <3>2, CostsInOrder
    <2>3. DOMAIN o.costs = 1..m
        BY RiotOfferShape
    <2> HIDE DEF m, n
    <2> QED
        BY <1>5, <2>1, <2>2, <2>3, SortForgetsTheOrder
<1>8. SortBy(Unsorted(f), RewardBefore) = SortBy(Unsorted(o), RewardBefore)
    <2>1. /\ TotalOn(n, Unsorted(o), RewardOrder)
          /\ SortBy(Unsorted(o), RewardBefore)
             = Sorted(Unsorted(o), Smaller(n, Unsorted(o), RewardOrder))
        BY RiotOfferShape, RewardsInOrder
    <2>2. DOMAIN Unsorted(f) = 1..n /\ DOMAIN Unsorted(o) = 1..n
        BY <1>2, <1>5, RiotOfferShape DEF Unsorted
    <2>3. \A i \in 1..n : Unsorted(f)[i] = Unsorted(o)[q[i]]
        BY <1>2, <1>5, RiotOfferShape DEF Unsorted
    <2>4. \A i \in 1..n : Unsorted(f)[i] \in RawRewards
        <3> SUFFICES ASSUME NEW i \in 1..n
                     PROVE  Unsorted(f)[i] \in RawRewards
            OBVIOUS
        <3>1. q[i] \in 1..n /\ Unsorted(f)[i] = Unsorted(o)[q[i]]
            BY <1>5, <2>3
        <3> QED
            BY <3>1, RiotOfferShape
    <2> HIDE DEF n
    <2>5. SortBy(Unsorted(f), RewardBefore)
          = Sorted(Unsorted(f), Smaller(n, Unsorted(f), RewardOrder))
        BY <1>5, <2>2, <2>4, RewardsInOrder
    <2> QED
        BY <1>5, <2>1, <2>2, <2>3, <2>5, SortForgetsTheOrder
<1>9. SnapshotOffer(f) = SnapshotOffer(o)
    BY <1>2, <1>7, <1>8 DEF SnapshotOffer, Unsorted
<1>10. RiotOffer(f)
    <2> DEFINE R == [level : Nat, quantity : Nat, skinType : BOOLEAN]
    <2>1. o.costs \in Seq(Costs) /\ o.rewards \in Seq(R) /\ o.id \in Nat
        BY DEF RiotOffer, Costs
    <2>2. \A i \in 1..n : o.rewards[i] \in R
        <3> HIDE DEF R
        <3> QED
            BY <2>1
    <2> HIDE DEF R
    <2>3. \A i \in 1..n : r[i] \in R
        BY <1>5, <2>2
    <2>4. \A i \in 1..m : k[i] \in Costs
        BY <1>5, RiotOfferShape
    <2>5. k = [i \in 1..m |-> k[i]] /\ r = [i \in 1..n |-> r[i]]
        BY <1>3, <1>4, <1>5
    <2>6. \A i, j \in DOMAIN k : k[i].currency = k[j].currency => i = j
        BY <1>5, <1>6
    <2> HIDE DEF m, n
    <2>7. k \in Seq(Costs) /\ r \in Seq(R)
        <3>1. k \in [1..m -> Costs] /\ r \in [1..n -> R] /\ m \in Nat /\ n \in Nat
            BY <1>5, <2>3, <2>4, <2>5
        <3> QED
            BY <3>1
    <2>8. r # <<>>
        <3>1. DOMAIN r = 1..n /\ 1 \in 1..n
            BY <1>5
        <3>2. DOMAIN <<>> = {}
            OBVIOUS
        <3> HIDE DEF R
        <3> QED
            BY <3>1, <3>2
    <2> QED
        BY <1>1, <1>2, <2>1, <2>6, <2>7, <2>8 DEF RiotOffer, R, Costs
<1> QED
    BY <1>9, <1>10

\* What is stored and hashed of account c's shop of day d.
Snapshot(c, d) == SnapshotOffers([offers |-> Rotation[c][d]])

LEMMA RotationShape ==
    ASSUME NEW c \in Connections, NEW d \in Days
    PROVE  /\ Len(Rotation[c][d]) \in Nat
           /\ DOMAIN Rotation[c][d] = 1..Len(Rotation[c][d])
           /\ \A i \in 1..Len(Rotation[c][d]) : RiotOffer(Rotation[c][d][i])
<1>1. Rotation[c][d] \in Seq(Range(Rotation[c][d]))
      /\ \A i \in DOMAIN Rotation[c][d] : RiotOffer(Rotation[c][d][i])
    BY CatalogAssumption DEF ConstantsFit, Days, Day
<1> DEFINE s == Rotation[c][d]
           S == Range(Rotation[c][d])
<1> HIDE DEF s, S
<1>2. s \in Seq(S)
    BY <1>1 DEF s, S
<1>3. Len(s) \in Nat /\ DOMAIN s = 1..Len(s)
    BY <1>2
<1> QED
    BY <1>1, <1>3 DEF s

\* In whatever order Riot lists a rotation, its snapshot is one; and it has an
\* offer for an offer, with a reward for a reward of it.
LEMMA OneSnapshot ==
    ASSUME NEW c \in Connections, NEW d \in Days, NEW payload,
           payload.offers \in Arrangements(Rotation[c][d])
    PROVE  /\ SnapshotOffers(payload) = Snapshot(c, d)
           /\ \A i \in DOMAIN Snapshot(c, d) :
                 /\ Snapshot(c, d)[i] \in RawOffers
                 /\ 1 \in DOMAIN Snapshot(c, d)[i].rewards
                 /\ \A j \in DOMAIN Snapshot(c, d)[i].rewards :
                       Snapshot(c, d)[i].rewards[j].level \in OfferLevels(payload)
<1> DEFINE offers == Rotation[c][d]
           n == Len(offers)
           s == payload.offers
           T == [i \in 1..n |-> SnapshotOffer(offers[i])]
           U == [i \in 1..n |-> SnapshotOffer(s[i])]
<1>1. /\ n \in Nat /\ DOMAIN offers = 1..n
      /\ \A i \in 1..n : RiotOffer(offers[i])
    BY RotationShape
<1>2. PICK p \in Bijection(1..n, 1..n) : \A i \in 1..n : s[i] \in OfferForms(offers[p[i]])
    BY <1>1 DEF Arrangements
<1>3. DOMAIN s = 1..n
    BY <1>1 DEF Arrangements
<1>4. \A i \in 1..n : p[i] \in 1..n
    BY DEF Bijection, Injection
<1>5. ASSUME NEW i \in 1..n
      PROVE  RiotOffer(s[i]) /\ SnapshotOffer(s[i]) = SnapshotOffer(offers[p[i]])
    <2>1. RiotOffer(offers[p[i]]) /\ s[i] \in OfferForms(offers[p[i]])
        BY <1>1, <1>2, <1>4
    <2> QED
        BY <2>1, FormsAgree
<1>6. SnapshotOffers(payload) = SortBy(U, OfferBefore)
    BY <1>3 DEF SnapshotOffers
<1>7. Snapshot(c, d) = SortBy(T, OfferBefore)
    BY <1>1 DEF SnapshotOffers, Snapshot
<1>8. \A i \in 1..n : T[i] \in RawOffers /\ U[i] \in RawOffers /\ U[i] = T[p[i]]
    BY <1>1, <1>4, <1>5, SnapshotOfOffer
<1>9. DOMAIN T = 1..n /\ DOMAIN U = 1..n
    OBVIOUS
<1>10. \A i \in 1..n : U[i] = SnapshotOffer(s[i])
    OBVIOUS
<1> HIDE DEF T, U, n, s
<1>11. /\ TotalOn(n, T, OfferOrder)
       /\ SortBy(T, OfferBefore) = Sorted(T, Smaller(n, T, OfferOrder))
    BY <1>1, <1>8, <1>9, OffersInOrder
<1>12. SortBy(U, OfferBefore) = Sorted(U, Smaller(n, U, OfferOrder))
    BY <1>1, <1>8, <1>9, OffersInOrder
<1>13. SnapshotOffers(payload) = Snapshot(c, d)
    BY <1>1, <1>6, <1>7, <1>8, <1>9, <1>11, <1>12, SortForgetsTheOrder
<1>14. /\ DOMAIN SortBy(U, OfferBefore) = 1..n
       /\ \A k \in 1..n : \E i \in 1..n : SortBy(U, OfferBefore)[k] = U[i]
    BY <1>1, <1>8, <1>9, SortedOffers
<1>15. ASSUME NEW k \in DOMAIN Snapshot(c, d)
       PROVE  /\ Snapshot(c, d)[k] \in RawOffers
              /\ 1 \in DOMAIN Snapshot(c, d)[k].rewards
              /\ \A j \in DOMAIN Snapshot(c, d)[k].rewards :
                    Snapshot(c, d)[k].rewards[j].level \in OfferLevels(payload)
    <2>1. PICK i \in 1..n : Snapshot(c, d)[k] = U[i]
        BY <1>6, <1>13, <1>14, <1>15
    <2>2. RiotOffer(s[i]) /\ Snapshot(c, d)[k] = SnapshotOffer(s[i])
        BY <1>5, <1>10, <2>1
    <2>3. /\ SnapshotOffer(s[i]) \in RawOffers
          /\ DOMAIN SnapshotOffer(s[i]).rewards = 1..Len(s[i].rewards)
          /\ \A j \in 1..Len(s[i].rewards) : \E h \in 1..Len(s[i].rewards) :
                SnapshotOffer(s[i]).rewards[j].level = s[i].rewards[h].level
        BY <2>2, SnapshotOfOffer
    <2>4. /\ Len(s[i].rewards) \in Nat /\ Len(s[i].rewards) # 0
          /\ DOMAIN s[i].rewards = 1..Len(s[i].rewards)
        BY <2>2, RiotOfferShape
    <2>5. \A h \in 1..Len(s[i].rewards) : s[i].rewards[h].level \in OfferLevels(payload)
        BY <1>3, <2>4 DEF OfferLevels, s
    <2>6. 1 \in 1..Len(s[i].rewards)
        BY <2>4
    <2> QED
        BY <2>2, <2>3, <2>5, <2>6
<1> QED
    BY <1>13, <1>15

\* Taking the skins off gives the raw offer again.
LEMMA SkinsComeOff ==
    ASSUME NEW o \in RawOffers, NEW skinOf
    PROVE  WithoutSkins(o) = o /\ WithoutSkins(WithSkins(o, skinOf)) = o
<1> DEFINE rs == o.rewards
           with == WithSkins(o, skinOf)
<1>1. /\ o = [id |-> o.id, costs |-> o.costs, rewards |-> rs] /\ rs \in Seq(RawRewards)
    BY DEF RawOffers
<1>2. DOMAIN rs = 1..Len(rs) /\ Len(rs) \in Nat /\ \A j \in 1..Len(rs) : rs[j] \in RawRewards
    <2> HIDE DEF rs
    <2> QED
        BY <1>1
<1>3. rs = [j \in DOMAIN rs |-> rs[j]]
    <2> HIDE DEF rs
    <2> QED
        BY <1>1
<1>4. \A j \in DOMAIN rs : [rs[j] EXCEPT !.skin = NoSkin] = rs[j]
    BY <1>2 DEF RawRewards
<1>5. \A j \in DOMAIN rs :
         [[level |-> rs[j].level, quantity |-> rs[j].quantity, skin |-> skinOf[rs[j].level]]
             EXCEPT !.skin = NoSkin] = rs[j]
    BY <1>2 DEF RawRewards
<1>6. WithoutSkins(o) = o
    <2>1. [j \in DOMAIN rs |-> [rs[j] EXCEPT !.skin = NoSkin]] = rs
        BY <1>3, <1>4
    <2>2. [o EXCEPT !.rewards = rs] = o
        BY <1>1
    <2> QED
        BY <2>1, <2>2 DEF WithoutSkins
<1>7. /\ with.rewards = [j \in DOMAIN rs |->
           [level |-> rs[j].level, quantity |-> rs[j].quantity, skin |-> skinOf[rs[j].level]]]
      /\ [with EXCEPT !.rewards = rs] = o
    BY <1>1 DEF WithSkins
<1>8. [j \in DOMAIN with.rewards |-> [with.rewards[j] EXCEPT !.skin = NoSkin]] = rs
    <2>1. DOMAIN with.rewards = DOMAIN rs
        BY <1>7
    <2>2. \A j \in DOMAIN rs : [with.rewards[j] EXCEPT !.skin = NoSkin] = rs[j]
        BY <1>5, <1>7
    <2> HIDE DEF with, rs
    <2> QED
        BY <1>3, <2>1, <2>2
<1>9. WithoutSkins(with) = o
    BY <1>7, <1>8 DEF WithoutSkins
<1> QED
    BY <1>6, <1>9

-----------------------------------------------------------------------------
(* The clock, the faults and the catalog sync.                              *)

LEMMA Fitting ==
    /\ DayLength \in Nat \ {0} /\ MaxNow \in Nat /\ BatchSize \in Nat \ {0}
    /\ MarketEnd \in Nat /\ BundleEnd \in Nat
    /\ MaxRelease \in Nat /\ MaxSyncs \in Nat /\ MaxFaults \in Nat
    /\ IsFiniteSet(Skins) /\ IsFiniteSet(Tiers) /\ IsFiniteSet(Levels)
    /\ \A s \in Skins : TierOf[s] \in Tiers /\ Since[s] \in Nat
                        /\ Since[TierOf[s]] \in Nat /\ Since[TierOf[s]] <= Since[s]
    /\ \A l \in Levels : SkinOf[l] \in Skins
BY CatalogAssumption DEF ConstantsFit, Levels

Typed ==
    /\ now \in 0..MaxNow /\ release \in 0..MaxRelease /\ faults \in 0..MaxFaults

LEMMA StepTyped ==
    ASSUME Typed, [Next]_vars
    PROVE  Typed' /\ now <= now' /\ faults <= faults'
<1>1. now \in Int /\ release \in Int /\ faults \in Int
    BY Fitting DEF Typed
<1>2. CASE UNCHANGED vars
    BY <1>1, <1>2 DEF Typed, vars
<1>3. CASE Tick
    BY <1>1, <1>3, Fitting DEF Typed, Tick
<1>4. CASE Release
    BY <1>1, <1>4, Fitting DEF Typed, Release
<1>5. ASSUME UNCHANGED <<now, release>>, UNCHANGED faults \/ Fault
      PROVE  Typed' /\ now <= now' /\ faults <= faults'
    BY <1>1, <1>5, Fitting DEF Typed, Fault
<1>6. CASE SyncStart \/ SyncFetch("weapons") \/ SyncFetch("tiers") \/ SyncTable \/ SyncNext
    BY <1>5, <1>6 DEF SyncStart, SyncFetch, SyncTable, SyncNext
<1>7. CASE SyncWrite
    BY <1>5, <1>7 DEF SyncWrite
<1>8. ASSUME NEW c \in Connections, NEW kind \in {"cron", "manual"}, Mark(c, kind)
      PROVE  UNCHANGED <<now, release, faults>>
    BY <1>8 DEF Mark
<1>9. CASE Answer \/ RecordExtras
    BY <1>5, <1>9 DEF Answer, RecordExtras
<1>10. CASE RecordRaw \/ Enrich
    BY <1>5, <1>10 DEF RecordRaw, Enrich, Write
<1>11. CASE ReadChecks \/ ReadLevels \/ ReadSkins \/ ReadNames \/ ReadMetadata \/ Leave
    BY <1>5, <1>11 DEF ReadChecks, ReadLevels, ReadSkins, ReadNames, ReadMetadata, Leave
<1> QED
    BY <1>2, <1>3, <1>4, <1>5, <1>6, <1>7, <1>8, <1>9, <1>10, <1>11 DEF Next

\* What the tables hold, by their foreign keys.
RowKind(t) ==
    CASE t = "content_tiers" -> Tiers
      [] t = "weapons"       -> {"weapon"}
      [] t = "skin_levels"   -> Levels
      [] OTHER               -> Skins

TablesKnown ==
    /\ DOMAIN tables = TableNames /\ \A t \in TableNames : tables[t] \subseteq RowKind(t)
    /\ \A s \in tables["skins"] : TierOf[s] \in tables["content_tiers"]
    /\ \A l \in tables["skin_levels"] : SkinOf[l] \in tables["skins"]

Written(t) == Rows(t, sync.weapons, sync.tiers) \subseteq tables[t]

SyncKnown ==
    /\ \E todo : sync \in [step : {"idle", "fetching", "writing", "done", "failed"},
                           runs : Nat, weapons : Nat \cup {-1}, tiers : Nat \cup {-1},
                           table : 1..5, todo : {todo}]
    /\ sync.step = "fetching" => sync.table = 1
    /\ sync.step = "writing" =>
         /\ sync.weapons \in Nat /\ sync.tiers \in Nat
         /\ \A i \in 1..5 : i < sync.table => Written(WriteOrder[i])
         /\ LET t == WriteOrder[sync.table]
            IN  /\ sync.todo \subseteq Rows(t, sync.weapons, sync.tiers)
                /\ Rows(t, sync.weapons, sync.tiers) \ sync.todo \subseteq tables[t]
    /\ sync.step = "done" => \A t \in TableNames : Written(t)
    /\ sync.step = "failed" => faults > 0 \/ sync.tiers < sync.weapons

SyncInv == TablesKnown /\ SyncKnown

LEMMA OrderOfTables ==
    /\ WriteOrder \in [1..5 -> TableNames] /\ Len(WriteOrder) = 5
    /\ WriteOrder[1] = "content_tiers" /\ WriteOrder[2] = "weapons" /\ WriteOrder[3] = "skins"
    /\ WriteOrder[4] = "skin_levels" /\ WriteOrder[5] = "skin_chromas"
    /\ \A t \in TableNames : \E i \in 1..5 : WriteOrder[i] = t
BY DEF WriteOrder, TableNames

LEMMA RowsOfKind ==
    ASSUME NEW t \in TableNames, NEW w, NEW r
    PROVE  Rows(t, w, r) \subseteq RowKind(t)
BY DEF Rows, RowKind, TableNames

LEMMA KindsAreFinite ==
    ASSUME NEW t \in TableNames
    PROVE  IsFiniteSet(RowKind(t))
<1>1. IsFiniteSet({"weapon"})
    BY FS_Singleton
<1> QED
    BY <1>1, Fitting DEF RowKind, TableNames

\* While rows are left there is a batch.
LEMMA SomeBatch ==
    ASSUME NEW S, IsFiniteSet(S), S # {}
    PROVE  Batches(S) # {}
<1>1. Cardinality(S) \in Nat /\ Cardinality(S) # 0 /\ BatchSize \in Nat \ {0}
    BY FS_CardinalityType, FS_EmptySet, Fitting
<1>2. CASE Cardinality(S) <= BatchSize
    BY <1>2 DEF Batches
<1>3. CASE BatchSize < Cardinality(S)
    <2> DEFINE n == Cardinality(S)
    <2>1. PICK f \in Bijection(1..n, S) : TRUE
        BY FS_CardinalityType DEF ExistsBijection
    <2> DEFINE b == {f[i] : i \in 1..BatchSize}
               g == [i \in 1..BatchSize |-> f[i]]
    <2>2. \A i \in 1..BatchSize : i \in 1..n
        BY <1>1, <1>3
    <2>3. /\ \A i \in 1..n : f[i] \in S
          /\ \A i, j \in 1..n : f[i] = f[j] => i = j
        BY DEF Bijection, Injection, IsInjective
    <2>4. b \in SUBSET S
        BY <2>2, <2>3
    <2>5. g \in Bijection(1..BatchSize, b)
        BY <2>2, <2>3 DEF Bijection, Injection, Surjection, IsInjective
    <2> HIDE DEF b, g
    <2>6. ExistsBijection(1..BatchSize, b)
        BY <2>5 DEF ExistsBijection
    <2>7. Cardinality(b) = BatchSize
        BY <1>1, <2>6, FS_CountingElements
    <2>8. IsFiniteSet(b) /\ b # {}
        BY <1>1, <2>4, <2>7, FS_Subset, FS_EmptySet
    <2> QED
        BY <1>1, <2>4, <2>7, <2>8 DEF Batches
<1> QED
    BY <1>1, <1>2, <1>3

LEMMA SyncShape ==
    ASSUME SyncKnown
    PROVE  /\ sync = [step |-> sync.step, runs |-> sync.runs, weapons |-> sync.weapons,
                      tiers |-> sync.tiers, table |-> sync.table, todo |-> sync.todo]
           /\ sync.step \in {"idle", "fetching", "writing", "done", "failed"}
           /\ sync.runs \in Nat /\ sync.table \in 1..5
           /\ sync.weapons \in Nat \cup {-1} /\ sync.tiers \in Nat \cup {-1}
<1>1. PICK todo : sync \in [step : {"idle", "fetching", "writing", "done", "failed"},
                            runs : Nat, weapons : Nat \cup {-1}, tiers : Nat \cup {-1},
                            table : 1..5, todo : {todo}]
    BY DEF SyncKnown
<1> QED
    BY <1>1

\* A sync that starts, or that fails, or whose requests are answered.
LEMMA SyncBegins ==
    ASSUME Typed, SyncInv, SyncStart \/ SyncFetch("weapons") \/ SyncFetch("tiers")
    PROVE  SyncInv'
<1>1. TablesKnown /\ SyncKnown
    BY DEF SyncInv
<1>2. UNCHANGED tables
    BY DEF SyncStart, SyncFetch
<1>3. TablesKnown'
    BY <1>1, <1>2 DEF TablesKnown
<1>4. CASE SyncStart
    <2>1. sync' = [step |-> "fetching", runs |-> sync.runs + 1, weapons |-> -1,
                   tiers |-> -1, table |-> 1, todo |-> {}]
        BY <1>4 DEF SyncStart
    <2>2. sync.runs + 1 \in Nat
        BY <1>1, SyncShape
    <2>3. sync' \in [step : {"idle", "fetching", "writing", "done", "failed"},
                     runs : Nat, weapons : Nat \cup {-1}, tiers : Nat \cup {-1},
                     table : 1..5, todo : {{}}]
        BY <2>1, <2>2
    <2>4. sync'.step = "fetching" /\ sync'.table = 1
        BY <2>1
    <2>5. SyncKnown'
        BY <2>3, <2>4 DEF SyncKnown
    <2> QED
        BY <1>3, <2>5 DEF SyncInv
<1>5. ASSUME NEW part \in {"weapons", "tiers"}, SyncFetch(part)
      PROVE  SyncKnown'
    <2>1. sync.step = "fetching" /\ sync.table = 1 /\ release \in Nat /\ faults \in Nat
        BY <1>1, <1>5, Fitting DEF SyncFetch, SyncKnown, Typed
    <2>2. CASE sync' = [sync EXCEPT ![part] = release]
        <3>1. sync' = [step |-> "fetching", runs |-> sync.runs,
                       weapons |-> IF part = "weapons" THEN release ELSE sync.weapons,
                       tiers |-> IF part = "tiers" THEN release ELSE sync.tiers,
                       table |-> sync.table, todo |-> sync.todo]
            <4>1. CASE part = "weapons"
                BY <1>1, <2>1, <2>2, <4>1, SyncShape
            <4>2. CASE part = "tiers"
                BY <1>1, <2>1, <2>2, <4>2, SyncShape
            <4> QED
                BY <4>1, <4>2
        <3>2. sync' \in [step : {"idle", "fetching", "writing", "done", "failed"},
                         runs : Nat, weapons : Nat \cup {-1}, tiers : Nat \cup {-1},
                         table : 1..5, todo : {sync.todo}]
            BY <1>1, <2>1, <3>1, SyncShape
        <3>3. sync'.step = "fetching" /\ sync'.table = 1
            BY <2>1, <3>1
        <3> QED
            BY <3>2, <3>3 DEF SyncKnown
    <2>3. CASE sync' = [sync EXCEPT !.step = "failed"] /\ Fault
        <3>1. sync' = [step |-> "failed", runs |-> sync.runs, weapons |-> sync.weapons,
                       tiers |-> sync.tiers, table |-> sync.table, todo |-> sync.todo]
            BY <1>1, <2>3, SyncShape
        <3>2. sync' \in [step : {"idle", "fetching", "writing", "done", "failed"},
                         runs : Nat, weapons : Nat \cup {-1}, tiers : Nat \cup {-1},
                         table : 1..5, todo : {sync.todo}]
            BY <1>1, <3>1, SyncShape
        <3>3. sync'.step = "failed" /\ faults' > 0
            BY <2>1, <2>3, <3>1 DEF Fault
        <3> QED
            BY <3>2, <3>3 DEF SyncKnown
    <2> QED
        BY <1>5, <2>2, <2>3 DEF SyncFetch
<1> QED
    BY <1>3, <1>4, <1>5 DEF SyncInv

LEMMA SyncTableStep ==
    ASSUME Typed, SyncInv, SyncTable
    PROVE  SyncInv'
<1>1. TablesKnown /\ SyncKnown /\ UNCHANGED tables
    BY DEF SyncInv, SyncTable
<1>2. TablesKnown'
    BY <1>1 DEF TablesKnown
<1> DEFINE rows == Rows(WriteOrder[1], sync.weapons, sync.tiers)
<1>3. sync' = [step |-> "writing", runs |-> sync.runs, weapons |-> sync.weapons,
               tiers |-> sync.tiers, table |-> sync.table, todo |-> rows]
    BY <1>1, SyncShape DEF SyncTable
<1>4. sync.table = 1 /\ sync.weapons \in Nat /\ sync.tiers \in Nat
    BY <1>1, SyncShape DEF SyncTable, SyncKnown
<1>5. sync' \in [step : {"idle", "fetching", "writing", "done", "failed"},
                 runs : Nat, weapons : Nat \cup {-1}, tiers : Nat \cup {-1},
                 table : 1..5, todo : {rows}]
    BY <1>1, <1>3, SyncShape
<1>6. /\ sync'.step = "writing" /\ sync'.weapons = sync.weapons /\ sync'.tiers = sync.tiers
      /\ sync'.table = 1 /\ sync'.todo = rows
    BY <1>3, <1>4
<1> HIDE DEF rows
<1>7. SyncKnown'
    BY <1>4, <1>5, <1>6 DEF SyncKnown, rows
<1> QED
    BY <1>2, <1>7 DEF SyncInv

\* A row that a fetched table refers to was fetched too, unless it is the tier
\* of a skin that is newer than the tiers.
LEMMA MissingReference ==
    ASSUME SyncInv, sync.step = "writing", NEW row \in sync.todo,
           ~References(WriteOrder[sync.table], row)
    PROVE  sync.tiers < sync.weapons
<1>1. /\ sync.weapons \in Nat /\ sync.tiers \in Nat /\ sync.table \in 1..5
      /\ \A i \in 1..5 : i < sync.table => Written(WriteOrder[i])
      /\ row \in Rows(WriteOrder[sync.table], sync.weapons, sync.tiers)
    BY SyncShape DEF SyncInv, SyncKnown
<1>2. CASE sync.table = 1 \/ sync.table = 2
    BY <1>2, OrderOfTables DEF References
<1>3. CASE sync.table = 3
    <2>1. WriteOrder[sync.table] = "skins" /\ row \in Skins /\ Since[row] <= sync.weapons
        BY <1>1, <1>3, OrderOfTables DEF Rows
    <2>2. Written("content_tiers") /\ Written("weapons")
        BY <1>1, <1>3, OrderOfTables
    <2>3. "weapon" \in tables["weapons"]
        BY <2>2 DEF Written, Rows
    <2>4. Since[TierOf[row]] <= sync.tiers => TierOf[row] \in tables["content_tiers"]
        BY <2>1, <2>2, Fitting DEF Written, Rows
    <2>5. ~(Since[TierOf[row]] <= sync.tiers)
        BY <2>1, <2>3, <2>4 DEF References
    <2>6. Since[row] \in Nat /\ Since[TierOf[row]] \in Nat /\ Since[TierOf[row]] <= Since[row]
        BY <2>1, Fitting
    <2> QED
        BY <1>1, <2>1, <2>5, <2>6
<1>4. CASE sync.table = 4
    <2>1. WriteOrder[sync.table] = "skin_levels" /\ row \in Levels /\ Since[SkinOf[row]] <= sync.weapons
        BY <1>1, <1>4, OrderOfTables DEF Rows
    <2>2. Written("skins")
        BY <1>1, <1>4, OrderOfTables
    <2>3. SkinOf[row] \in tables["skins"]
        BY <2>1, <2>2, Fitting DEF Written, Rows
    <2> QED
        BY <2>1, <2>3 DEF References
<1>5. CASE sync.table = 5
    <2>1. WriteOrder[sync.table] = "skin_chromas" /\ row \in Skins /\ Since[row] <= sync.weapons
        BY <1>1, <1>5, OrderOfTables DEF Rows
    <2>2. Written("skins")
        BY <1>1, <1>5, OrderOfTables
    <2>3. row \in tables["skins"]
        BY <2>1, <2>2 DEF Written, Rows
    <2> QED
        BY <2>1, <2>3 DEF References
<1> QED
    BY <1>1, <1>2, <1>3, <1>4, <1>5

LEMMA SyncWriteStep ==
    ASSUME Typed, SyncInv, SyncWrite
    PROVE  SyncInv'
<1> DEFINE t == WriteOrder[sync.table]
<1>1. /\ TablesKnown /\ SyncKnown
      /\ sync.step = "writing" /\ sync.weapons \in Nat /\ sync.tiers \in Nat
      /\ sync.table \in 1..5 /\ t \in TableNames /\ faults \in Nat
    BY SyncShape, OrderOfTables, Fitting DEF SyncInv, SyncKnown, SyncWrite, Typed
<1>2. /\ \A i \in 1..5 : i < sync.table => Written(WriteOrder[i])
      /\ sync.todo \subseteq Rows(t, sync.weapons, sync.tiers)
      /\ Rows(t, sync.weapons, sync.tiers) \ sync.todo \subseteq tables[t]
    BY <1>1 DEF SyncKnown
<1>3. ASSUME NEW b \in Batches(sync.todo), \A row \in b : References(t, row),
             tables' = [tables EXCEPT ![t] = @ \cup b],
             sync' = [sync EXCEPT !.todo = @ \ b], UNCHANGED faults
      PROVE  SyncInv'
    <2>1. b \subseteq sync.todo
        BY DEF Batches
    <2>2. /\ DOMAIN tables' = TableNames /\ tables'[t] = tables[t] \cup b
          /\ \A u \in TableNames : u # t => tables'[u] = tables[u]
        BY <1>1, <1>3 DEF TablesKnown
    <2>3. \A u \in TableNames : tables[u] \subseteq tables'[u]
        BY <2>2
    <2>4. b \subseteq RowKind(t)
        BY <1>1, <1>2, <2>1, RowsOfKind
    <2> HIDE DEF t
    <2>5. TablesKnown'
        <3>1. \A u \in TableNames : tables'[u] \subseteq RowKind(u)
            BY <1>1, <2>2, <2>4 DEF TablesKnown
        <3>2. /\ tables["skins"] \subseteq tables'["skins"]
              /\ tables["content_tiers"] \subseteq tables'["content_tiers"]
              /\ tables["skin_levels"] \subseteq tables'["skin_levels"]
            BY <2>3 DEF TableNames
        <3>3. ASSUME NEW s \in tables'["skins"]
              PROVE  TierOf[s] \in tables'["content_tiers"]
            <4>1. CASE s \in tables["skins"]
                BY <1>1, <3>2, <4>1 DEF TablesKnown
            <4>2. CASE s \notin tables["skins"]
                <5>1. t = "skins" /\ s \in b
                    BY <2>2, <3>3, <4>2 DEF TableNames
                <5>2. TierOf[s] \in tables["content_tiers"]
                    BY <1>3, <5>1 DEF References
                <5> QED
                    BY <3>2, <5>2
            <4> QED
                BY <4>1, <4>2
        <3>4. ASSUME NEW l \in tables'["skin_levels"]
              PROVE  SkinOf[l] \in tables'["skins"]
            <4>1. CASE l \in tables["skin_levels"]
                BY <1>1, <3>2, <4>1 DEF TablesKnown
            <4>2. CASE l \notin tables["skin_levels"]
                <5>1. t = "skin_levels" /\ l \in b
                    BY <2>2, <3>4, <4>2 DEF TableNames
                <5>2. SkinOf[l] \in tables["skins"]
                    BY <1>3, <5>1 DEF References
                <5> QED
                    BY <3>2, <5>2
            <4> QED
                BY <4>1, <4>2
        <3> QED
            BY <2>2, <3>1, <3>3, <3>4 DEF TablesKnown
    <2>6. sync' = [step |-> "writing", runs |-> sync.runs, weapons |-> sync.weapons,
                   tiers |-> sync.tiers, table |-> sync.table, todo |-> sync.todo \ b]
        BY <1>1, <1>3, SyncShape
    <2>7. sync' \in [step : {"idle", "fetching", "writing", "done", "failed"},
                     runs : Nat, weapons : Nat \cup {-1}, tiers : Nat \cup {-1},
                     table : 1..5, todo : {sync.todo \ b}]
        BY <1>1, <2>6, SyncShape
    <2>8. /\ sync'.step = "writing" /\ sync'.weapons = sync.weapons /\ sync'.tiers = sync.tiers
          /\ sync'.table = sync.table /\ sync'.todo = sync.todo \ b
        BY <2>6
    <2>9. \A i \in 1..5 : i < sync.table => Written(WriteOrder[i])'
        BY <1>2, <2>3, <2>8, OrderOfTables DEF Written
    <2>10. LET u == WriteOrder[sync.table]
           IN  /\ sync'.todo \subseteq Rows(u, sync.weapons, sync.tiers)
               /\ Rows(u, sync.weapons, sync.tiers) \ sync'.todo \subseteq tables'[u]
        BY <1>2, <2>2, <2>8 DEF t
    <2>11. SyncKnown'
        BY <1>1, <2>7, <2>8, <2>9, <2>10 DEF SyncKnown
    <2> QED
        BY <2>5, <2>11 DEF SyncInv
<1>4. ASSUME sync' = [sync EXCEPT !.step = "failed"], UNCHANGED tables,
             faults' > 0 \/ sync.tiers < sync.weapons
      PROVE  SyncInv'
    <2>1. sync' = [step |-> "failed", runs |-> sync.runs, weapons |-> sync.weapons,
                   tiers |-> sync.tiers, table |-> sync.table, todo |-> sync.todo]
        BY <1>1, <1>4, SyncShape
    <2>2. sync' \in [step : {"idle", "fetching", "writing", "done", "failed"},
                     runs : Nat, weapons : Nat \cup {-1}, tiers : Nat \cup {-1},
                     table : 1..5, todo : {sync.todo}]
        BY <1>1, <2>1, SyncShape
    <2>3. sync'.step = "failed" /\ (faults' > 0 \/ sync'.tiers < sync'.weapons)
        BY <1>4, <2>1
    <2>4. SyncKnown'
        BY <2>2, <2>3 DEF SyncKnown
    <2>5. TablesKnown'
        BY <1>1, <1>4 DEF TablesKnown
    <2> QED
        BY <2>4, <2>5 DEF SyncInv
<1>5. ASSUME NEW b \in Batches(sync.todo), \E row \in b : ~References(t, row)
      PROVE  sync.tiers < sync.weapons
    <2>1. PICK row \in b : ~References(t, row)
        BY <1>5
    <2>2. row \in sync.todo
        BY DEF Batches
    <2> QED
        BY <1>1, <2>1, <2>2, MissingReference
<1>6. Fault => faults' > 0
    BY <1>1 DEF Fault
<1> QED
    BY <1>3, <1>4, <1>5, <1>6 DEF SyncWrite

LEMMA SyncNextStep ==
    ASSUME Typed, SyncInv, SyncNext
    PROVE  SyncInv'
<1> DEFINE t == WriteOrder[sync.table]
           rows == Rows(WriteOrder[sync.table + 1], sync.weapons, sync.tiers)
<1>1. /\ TablesKnown /\ SyncKnown /\ UNCHANGED tables
      /\ sync.step = "writing" /\ sync.weapons \in Nat /\ sync.tiers \in Nat
      /\ sync.table \in 1..5 /\ t \in TableNames
    BY SyncShape, OrderOfTables DEF SyncInv, SyncKnown, SyncNext
<1>2. /\ \A i \in 1..5 : i < sync.table => Written(WriteOrder[i])
      /\ sync.todo \subseteq Rows(t, sync.weapons, sync.tiers)
      /\ Rows(t, sync.weapons, sync.tiers) \ sync.todo \subseteq tables[t]
    BY <1>1 DEF SyncKnown
<1>3. sync.todo = {}
    <2>1. sync.todo \in SUBSET RowKind(t)
        BY <1>1, <1>2, RowsOfKind
    <2>2. IsFiniteSet(sync.todo)
        BY <1>1, <2>1, KindsAreFinite, FS_Subset
    <2> QED
        BY <2>2, SomeBatch DEF SyncNext
<1>4. Written(t)
    BY <1>2, <1>3 DEF Written
<1>5. \A i \in 1..5 : i <= sync.table => Written(WriteOrder[i])
    <2>1. \A i \in 1..5 : i <= sync.table => i < sync.table \/ i = sync.table
        BY <1>1
    <2> QED
        BY <1>2, <1>4, <2>1
<1>6. TablesKnown'
    BY <1>1 DEF TablesKnown
<1>7. CASE sync.table = 5
    <2>1. sync' = [sync EXCEPT !.step = "done"]
        BY <1>7, OrderOfTables DEF SyncNext
    <2>2. sync' = [step |-> "done", runs |-> sync.runs, weapons |-> sync.weapons,
                   tiers |-> sync.tiers, table |-> sync.table, todo |-> sync.todo]
        BY <1>1, <2>1, SyncShape
    <2>3. sync' \in [step : {"idle", "fetching", "writing", "done", "failed"},
                     runs : Nat, weapons : Nat \cup {-1}, tiers : Nat \cup {-1},
                     table : 1..5, todo : {sync.todo}]
        BY <1>1, <2>2, SyncShape
    <2>4. sync'.step = "done" /\ sync'.weapons = sync.weapons /\ sync'.tiers = sync.tiers
        BY <2>2
    <2>5. \A u \in TableNames : Written(u)
        BY <1>5, <1>7, OrderOfTables
    <2>6. \A u \in TableNames : Written(u)'
        BY <1>1, <2>4, <2>5 DEF Written
    <2>7. SyncKnown'
        BY <2>3, <2>4, <2>6 DEF SyncKnown
    <2> QED
        BY <1>6, <2>7 DEF SyncInv
<1>8. CASE sync.table # 5
    <2>1. sync' = [sync EXCEPT !.table = @ + 1, !.todo = rows]
        BY <1>8, OrderOfTables DEF SyncNext
    <2> HIDE DEF rows
    <2>2. sync' = [step |-> "writing", runs |-> sync.runs, weapons |-> sync.weapons,
                   tiers |-> sync.tiers, table |-> sync.table + 1, todo |-> rows]
        BY <1>1, <2>1, SyncShape
    <2>3. sync.table + 1 \in 1..5
        BY <1>1, <1>8
    <2>4. sync' \in [step : {"idle", "fetching", "writing", "done", "failed"},
                     runs : Nat, weapons : Nat \cup {-1}, tiers : Nat \cup {-1},
                     table : 1..5, todo : {rows}]
        BY <1>1, <2>2, <2>3, SyncShape
    <2>5. /\ sync'.step = "writing" /\ sync'.weapons = sync.weapons /\ sync'.tiers = sync.tiers
          /\ sync'.table = sync.table + 1 /\ sync'.todo = rows
        BY <2>2
    <2>6. \A i \in 1..5 : i < sync.table + 1 => Written(WriteOrder[i])'
        <3>1. \A i \in 1..5 : i < sync.table + 1 => i <= sync.table
            BY <1>1
        <3> QED
            BY <1>1, <1>5, <2>5, <3>1 DEF Written
    <2>7. SyncKnown'
        BY <1>1, <2>4, <2>5, <2>6 DEF SyncKnown, rows
    <2> QED
        BY <1>6, <2>7 DEF SyncInv
<1> QED
    BY <1>7, <1>8

LEMMA StepSync == Typed /\ SyncInv /\ [Next]_vars => SyncInv'
<1> SUFFICES ASSUME Typed, SyncInv, [Next]_vars
             PROVE  SyncInv'
    OBVIOUS
<1>1. CASE SyncStart \/ SyncFetch("weapons") \/ SyncFetch("tiers")
    BY <1>1, SyncBegins
<1>2. CASE SyncTable \/ SyncWrite \/ SyncNext
    BY <1>2, SyncTableStep, SyncWriteStep, SyncNextStep
<1>3. ASSUME UNCHANGED <<tables, sync>>
      PROVE  SyncInv'
    <2>1. faults > 0 => faults' > 0
        <3>1. faults \in Nat /\ faults' \in Nat /\ faults <= faults'
            BY StepTyped, Fitting DEF Typed
        <3> QED
            BY <3>1
    <2>2. \A t \in TableNames : Written(t)' <=> Written(t)
        BY <1>3 DEF Written
    <2>3. \A i \in 1..5 : Written(WriteOrder[i])' <=> Written(WriteOrder[i])
        BY <2>2, OrderOfTables
    <2> QED
        BY <1>3, <2>1, <2>2, <2>3 DEF SyncInv, TablesKnown, SyncKnown
<1>4. ASSUME NEW c \in Connections, NEW kind \in {"cron", "manual"}, Mark(c, kind)
      PROVE  SyncInv'
    BY <1>3, <1>4 DEF Mark
<1>5. CASE \/ UNCHANGED vars \/ Tick \/ Release \/ Answer \/ RecordRaw \/ RecordExtras \/ Enrich
           \/ ReadChecks \/ ReadLevels \/ ReadSkins \/ ReadNames \/ ReadMetadata \/ Leave
    BY <1>3, <1>5 DEF vars, Tick, Release, Answer, RecordRaw, RecordExtras, Enrich,
       ReadChecks, ReadLevels, ReadSkins, ReadNames, ReadMetadata, Leave
<1> QED
    BY <1>1, <1>2, <1>4, <1>5 DEF Next

LEMMA SyncInvariant == Spec => [](Typed /\ SyncInv)
<1>1. Init => Typed /\ SyncInv
    <2> SUFFICES ASSUME Init
                 PROVE  Typed /\ SyncInv
        OBVIOUS
    <2>1. Typed
        BY Fitting DEF Init, Typed
    <2>2. /\ sync = [step |-> "idle", runs |-> 0, weapons |-> -1, tiers |-> -1,
                     table |-> 1, todo |-> {}]
          /\ tables = [t \in TableNames |-> {}]
        BY DEF Init
    <2>3. sync \in [step : {"idle", "fetching", "writing", "done", "failed"},
                    runs : Nat, weapons : Nat \cup {-1}, tiers : Nat \cup {-1},
                    table : 1..5, todo : {{}}]
        BY <2>2
    <2>4. SyncKnown
        BY <2>2, <2>3 DEF SyncKnown
    <2>5. TablesKnown
        BY <2>2 DEF TablesKnown, TableNames
    <2> QED
        BY <2>1, <2>4, <2>5 DEF SyncInv
<1>2. Typed /\ SyncInv /\ [Next]_vars => (Typed /\ SyncInv)'
    BY StepTyped, StepSync
<1> QED
    BY <1>1, <1>2, PTL DEF Spec

\* A sync fails only on a request or on a patch between its two requests, and
\* one that ends has written every row it fetched, whatever the batch size.
THEOREM SyncsComplete == Spec => []SyncCompletes
<1>1. Typed /\ SyncInv => SyncCompletes
    BY DEF SyncInv, SyncKnown, SyncCompletes, Written
<1> QED
    BY <1>1, SyncInvariant, PTL

-----------------------------------------------------------------------------
(* What is stored of a shop.                                                *)

LEMMA DayInRange ==
    ASSUME NEW t \in 0..MaxNow
    PROVE  Day(t) \in Days
<1>1. t \in Nat /\ MaxNow \in Nat /\ DayLength \in Nat \ {0} /\ t <= MaxNow
    BY Fitting
<1> DEFINE q == t \div DayLength
           m == MaxNow \div DayLength
<1>2. q \in Nat /\ m \in Nat /\ t >= 0 /\ q * DayLength <= t /\ MaxNow < (m + 1) * DayLength
    BY <1>1
<1>3. q <= m
    <2> HIDE DEF q, m
    <2> SUFFICES ASSUME m + 1 <= q
                 PROVE  FALSE
        BY <1>2
    <2>1. (m + 1) * DayLength <= q * DayLength
        BY <1>1, <1>2
    <2>2. (m + 1) * DayLength \in Int /\ q * DayLength \in Int
        BY <1>1, <1>2
    <2> HIDE DEF q, m
    <2> QED
        BY <1>1, <1>2, <2>1, <2>2
<1> QED
    BY <1>2, <1>3 DEF Days, Day

\* Account c's shop of day d with the skins of the catalog.
Enriched(c, d) == [i \in DOMAIN Snapshot(c, d) |-> WithSkins(Snapshot(c, d)[i], SkinOf)]

SnapshotFits(c, d) ==
    /\ Snapshot(c, d) = [i \in DOMAIN Snapshot(c, d) |-> Snapshot(c, d)[i]]
    /\ \A i \in DOMAIN Snapshot(c, d) :
          Snapshot(c, d)[i] \in RawOffers /\ 1 \in DOMAIN Snapshot(c, d)[i].rewards

\* A stored row of account c, where known are the skins of the catalog.
RowKnown(c, k, known) ==
    /\ k = [checkedAt |-> k.checkedAt, offers |-> k.offers, skins |-> k.skins,
            hash |-> k.hash, expires |-> k.expires, of |-> k.of,
            bundle |-> k.bundle, market |-> k.market]
    /\ k.checkedAt \in 0..MaxNow /\ k.of \in Days
    /\ SnapshotFits(c, k.of) /\ k.hash = <<Snapshot(c, k.of)>>
    /\ k.expires \in Int /\ k.expires <= (k.of + 1) * DayLength
    /\ \A b \in k.bundle : b.expires \in Int /\ b.expires <= BundleEnd
    /\ \A m \in k.market : m.expires \in Int /\ m.expires <= MarketEnd
    /\ \/ k.offers = Snapshot(c, k.of) /\ k.skins = {}
       \/ /\ k.offers = Enriched(c, k.of) /\ k.skins \subseteq known
          /\ \A i \in DOMAIN Snapshot(c, k.of) :
                \A j \in DOMAIN Snapshot(c, k.of)[i].rewards :
                   SkinOf[Snapshot(c, k.of)[i].rewards[j].level] \in k.skins

\* What Riot answered a check of account c that was marked at t, on day d.
Answered(c, t, d, p) ==
    /\ t \in 0..MaxNow /\ d \in Days
    /\ p.offers \in Arrangements(Rotation[c][d])
    /\ p.remaining \in Int /\ t + p.remaining <= (d + 1) * DayLength
    /\ p.bundle.outer \in Int /\ t + p.bundle.outer <= BundleEnd
    /\ p.bundle.inner \in Int /\ t + p.bundle.inner <= BundleEnd
    /\ p.market.remaining \in Int /\ t + p.market.remaining <= MarketEnd

LEMMA RowGrows ==
    ASSUME NEW c, NEW k, NEW S, NEW T, S \subseteq T, RowKnown(c, k, S)
    PROVE  RowKnown(c, k, T)
BY DEF RowKnown

LEMMA SnapshotsFit ==
    ASSUME NEW c \in Connections, NEW t, NEW d, NEW p, Answered(c, t, d, p)
    PROVE  /\ SnapshotFits(c, d) /\ SnapshotOffers(p) = Snapshot(c, d)
           /\ \A i \in DOMAIN Snapshot(c, d) : \A j \in DOMAIN Snapshot(c, d)[i].rewards :
                 Snapshot(c, d)[i].rewards[j].level \in OfferLevels(p)
<1>1. d \in Days /\ p.offers \in Arrangements(Rotation[c][d])
    BY DEF Answered
<1>2. Snapshot(c, d) = [i \in DOMAIN Snapshot(c, d) |-> Snapshot(c, d)[i]]
    BY DEF Snapshot, SnapshotOffers, SortBy, Sorted
<1> QED
    BY <1>1, <1>2, OneSnapshot DEF SnapshotFits

\* The end times a check computes from Riot's countdowns.
LEMMA EndsAreNotLate ==
    ASSUME NEW c \in Connections, NEW t, NEW d, NEW p, Answered(c, t, d, p)
    PROVE  /\ t + p.remaining \in Int /\ t + p.remaining <= (d + 1) * DayLength
           /\ Bundle(p, t).expires \in Int /\ Bundle(p, t).expires <= BundleEnd
           /\ \A m \in NightMarket(p, t) : m.expires \in Int /\ m.expires <= MarketEnd
<1>1. /\ t \in Int /\ p.remaining \in Int /\ p.bundle.outer \in Int
      /\ p.bundle.inner \in Int /\ p.market.remaining \in Int
      /\ t + p.remaining <= (d + 1) * DayLength
      /\ t + p.bundle.outer <= BundleEnd /\ t + p.bundle.inner <= BundleEnd
      /\ t + p.market.remaining <= MarketEnd
    BY DEF Answered
<1>2. Bundle(p, t).expires \in {t + p.bundle.outer, t + p.bundle.inner}
    BY DEF Bundle
<1>3. ASSUME NEW m \in NightMarket(p, t)
      PROVE  m.expires = t + p.market.remaining
    BY <1>3 DEF NightMarket
<1> QED
    BY <1>1, <1>2, <1>3

LEMMA RawRow ==
    ASSUME NEW c \in Connections, NEW t, NEW d, NEW p, Answered(c, t, d, p),
           NEW S, NEW old, old = NoShop \/ RowKnown(c, old, S)
    PROVE  /\ RowKnown(c, Stored(old, RefreshSnapshot(p, t), d), S)
           /\ RefreshSnapshot(p, t).hash = <<Snapshot(c, d)>>
<1> DEFINE snap == RefreshSnapshot(p, t)
           k == Stored(old, snap, d)
<1>1. /\ snap.checkedAt = t /\ snap.offers = Snapshot(c, d) /\ snap.skins = {}
      /\ snap.hash = <<Snapshot(c, d)>> /\ snap.expires = t + p.remaining
    BY SnapshotsFit DEF RefreshSnapshot
<1> HIDE DEF snap
<1>2. /\ k.checkedAt = t /\ k.offers = Snapshot(c, d) /\ k.skins = {}
      /\ k.hash = <<Snapshot(c, d)>> /\ k.expires = t + p.remaining /\ k.of = d
      /\ k.bundle = (IF old = NoShop THEN {} ELSE old.bundle)
      /\ k.market = (IF old = NoShop THEN {} ELSE old.market)
      /\ k = [checkedAt |-> k.checkedAt, offers |-> k.offers, skins |-> k.skins,
              hash |-> k.hash, expires |-> k.expires, of |-> k.of,
              bundle |-> k.bundle, market |-> k.market]
    BY <1>1 DEF Stored
<1>3. /\ \A b \in k.bundle : b.expires \in Int /\ b.expires <= BundleEnd
      /\ \A m \in k.market : m.expires \in Int /\ m.expires <= MarketEnd
    BY <1>2 DEF RowKnown
<1> HIDE DEF k
<1>4. t \in 0..MaxNow /\ d \in Days
    BY DEF Answered
<1>5. RowKnown(c, k, S)
    BY <1>2, <1>3, <1>4, SnapshotsFit, EndsAreNotLate DEF RowKnown
<1> QED
    BY <1>1, <1>5 DEF k, snap

LEMMA EnrichedRow ==
    ASSUME NEW c \in Connections, NEW t, NEW d, NEW p, Answered(c, t, d, p),
           NEW S, NEW old, old = NoShop \/ RowKnown(c, old, S),
           \A l \in OfferLevels(p) : SkinOf[l] \in S
    PROVE  /\ RowKnown(c, Stored(old, Canonical(p, SkinOf, t), d), S)
           /\ Canonical(p, SkinOf, t).hash = <<Snapshot(c, d)>>
<1> DEFINE raw == RefreshSnapshot(p, t)
           snap == Canonical(p, SkinOf, t)
           k == Stored(old, snap, d)
           skins == {SkinOf[l] : l \in OfferLevels(p)}
<1>1. raw.offers = Snapshot(c, d)
    BY SnapshotsFit DEF RefreshSnapshot
<1>2. /\ snap.checkedAt = t /\ snap.offers = Enriched(c, d) /\ snap.skins = skins
      /\ snap.hash = <<Snapshot(c, d)>> /\ snap.expires = t + p.remaining
    <2>1. snap = [RefreshSnapshot(p, t) EXCEPT !.offers = Enriched(c, d), !.skins = skins]
        BY <1>1 DEF Canonical, Enriched
    <2> HIDE DEF snap, skins
    <2> QED
        BY <2>1, SnapshotsFit DEF RefreshSnapshot
<1> HIDE DEF snap, raw
<1>3. /\ k.checkedAt = t /\ k.offers = Enriched(c, d) /\ k.skins = skins
      /\ k.hash = <<Snapshot(c, d)>> /\ k.expires = t + p.remaining /\ k.of = d
      /\ k.bundle = (IF old = NoShop THEN {} ELSE old.bundle)
      /\ k.market = (IF old = NoShop THEN {} ELSE old.market)
      /\ k = [checkedAt |-> k.checkedAt, offers |-> k.offers, skins |-> k.skins,
              hash |-> k.hash, expires |-> k.expires, of |-> k.of,
              bundle |-> k.bundle, market |-> k.market]
    BY <1>2 DEF Stored
<1>4. /\ \A b \in k.bundle : b.expires \in Int /\ b.expires <= BundleEnd
      /\ \A m \in k.market : m.expires \in Int /\ m.expires <= MarketEnd
    BY <1>3 DEF RowKnown
<1> HIDE DEF k
<1>5. skins \subseteq S
    OBVIOUS
<1>6. \A i \in DOMAIN Snapshot(c, d) : \A j \in DOMAIN Snapshot(c, d)[i].rewards :
         SkinOf[Snapshot(c, d)[i].rewards[j].level] \in skins
    BY SnapshotsFit
<1> HIDE DEF skins
<1>7. t \in 0..MaxNow /\ d \in Days
    BY DEF Answered
<1>8. RowKnown(c, k, S)
    BY <1>3, <1>4, <1>5, <1>6, <1>7, SnapshotsFit, EndsAreNotLate DEF RowKnown
<1> QED
    BY <1>2, <1>8 DEF k, snap

Row(t, o, s, h, e, d, b, m) ==
    [checkedAt |-> t, offers |-> o, skins |-> s, hash |-> h, expires |-> e, of |-> d,
     bundle |-> b, market |-> m]

WithExtras(k, b, m) == [k EXCEPT !.bundle = b, !.market = m]

LEMMA TwoColumns ==
    ASSUME NEW t, NEW o, NEW s, NEW h, NEW e, NEW d, NEW x, NEW y, NEW b, NEW m
    PROVE  WithExtras(Row(t, o, s, h, e, d, x, y), b, m) = Row(t, o, s, h, e, d, b, m)
<1> DEFINE r == Row(t, o, s, h, e, d, x, y)
<1>1. [r EXCEPT !.bundle = b] = Row(t, o, s, h, e, d, b, y)
    BY DEF Row
<1>2. [Row(t, o, s, h, e, d, b, y) EXCEPT !.market = m] = Row(t, o, s, h, e, d, b, m)
    BY DEF Row
<1> HIDE DEF r
<1>3. [r EXCEPT !.bundle = b, !.market = m] = [[r EXCEPT !.bundle = b] EXCEPT !.market = m]
    OBVIOUS
<1>4. [r EXCEPT !.bundle = b, !.market = m] = Row(t, o, s, h, e, d, b, m)
    BY <1>1, <1>2, <1>3
<1> QED
    BY <1>4 DEF r, WithExtras

LEMMA ExtrasRow ==
    ASSUME NEW c \in Connections, NEW S, NEW old, RowKnown(c, old, S), NEW b, NEW m,
           \A x \in b : x.expires \in Int /\ x.expires <= BundleEnd,
           \A x \in m : x.expires \in Int /\ x.expires <= MarketEnd
    PROVE  RowKnown(c, [old EXCEPT !.bundle = b, !.market = m], S)
<1> DEFINE k == Row(old.checkedAt, old.offers, old.skins, old.hash, old.expires, old.of, b, m)
<1>1. old = Row(old.checkedAt, old.offers, old.skins, old.hash, old.expires, old.of,
                old.bundle, old.market)
    BY DEF RowKnown, Row
<1>2. WithExtras(old, b, m) = k
    BY <1>1, TwoColumns
<1>3. /\ k.checkedAt = old.checkedAt /\ k.offers = old.offers /\ k.skins = old.skins
      /\ k.hash = old.hash /\ k.expires = old.expires /\ k.of = old.of
      /\ k.bundle = b /\ k.market = m
      /\ k = [checkedAt |-> k.checkedAt, offers |-> k.offers, skins |-> k.skins,
              hash |-> k.hash, expires |-> k.expires, of |-> k.of,
              bundle |-> k.bundle, market |-> k.market]
    BY DEF Row
<1> HIDE DEF k
<1>4. RowKnown(c, k, S)
    BY <1>3 DEF RowKnown
<1> QED
    BY <1>2, <1>4 DEF WithExtras

-----------------------------------------------------------------------------
(* The checks.                                                              *)

\* A value per account and day, and g is f with the value of one of them put.
PerDay(f) == f = [c \in Connections |-> [d \in Days |-> f[c][d]]]

Put(f, c, d, v, g) == g = [f EXCEPT ![c][d] = v]

ShopKnown ==
    /\ PerDay(shop)
    /\ \A c \in Connections, d \in Days :
          shop[c][d] = NoShop \/ RowKnown(c, shop[c][d], tables["skins"])

HashKnown ==
    /\ PerDay(hashes)
    /\ \A c \in Connections, d \in Days : hashes[c][d] \subseteq {<<Snapshot(c, d)>>}

RunKnown ==
    /\ run.step \in {"idle", "marked", "answered", "raw", "stored", "enriched"}
    /\ run.step # "idle" => run.c \in Connections /\ run.checkedAt \in 0..now
    /\ run.step \in {"answered", "raw", "stored", "enriched"} =>
         /\ run = [step |-> run.step, c |-> run.c, kind |-> run.kind,
                   checkedAt |-> run.checkedAt, of |-> run.of, payload |-> run.payload]
         /\ Answered(run.c, run.checkedAt, run.of, run.payload)
    /\ run.step \in {"raw", "stored", "enriched"} => HasShop(run.c, Day(run.checkedAt))

ShopInv == ShopKnown /\ HashKnown /\ RunKnown

LEMMA TablesGrow ==
    ASSUME SyncInv, [Next]_vars, NEW t \in TableNames
    PROVE  tables[t] \subseteq tables'[t]
<1>1. DOMAIN tables = TableNames
    BY DEF SyncInv, TablesKnown
<1>2. CASE SyncWrite
    BY <1>1, <1>2 DEF SyncWrite
<1>3. CASE \/ SyncStart \/ SyncFetch("weapons") \/ SyncFetch("tiers") \/ SyncTable \/ SyncNext
           \/ UNCHANGED vars \/ Tick \/ Release \/ Answer \/ RecordRaw \/ RecordExtras \/ Enrich
           \/ ReadChecks \/ ReadLevels \/ ReadSkins \/ ReadNames \/ ReadMetadata \/ Leave
    BY <1>3 DEF vars, SyncStart, SyncFetch, SyncTable, SyncNext, Tick, Release, Answer,
       RecordRaw, RecordExtras, Enrich, ReadChecks, ReadLevels, ReadSkins, ReadNames,
       ReadMetadata, Leave
<1>4. ASSUME NEW c \in Connections, NEW kind \in {"cron", "manual"}, Mark(c, kind)
      PROVE  UNCHANGED tables
    BY <1>4 DEF Mark
<1> QED
    BY <1>2, <1>3, <1>4 DEF Next

LEMMA PutAt ==
    ASSUME NEW f, NEW c \in Connections, NEW d \in Days, NEW v, NEW g,
           PerDay(f), Put(f, c, d, v, g)
    PROVE  /\ PerDay(g)
           /\ g[c][d] = v
           /\ \A x \in Connections, y \in Days : (x # c \/ y # d) => g[x][y] = f[x][y]
<1>1. DOMAIN f = Connections /\ \A x \in Connections : f[x] = [y \in Days |-> f[x][y]]
    BY DEF PerDay
<1>2. \A x \in Connections : DOMAIN f[x] = Days
    BY <1>1
<1>3. DOMAIN g = Connections /\ \A x \in Connections : DOMAIN g[x] = Days
    BY <1>1, <1>2 DEF Put
<1>4. \A x \in Connections : g[x] = [y \in Days |-> g[x][y]]
    <2> SUFFICES ASSUME NEW x \in Connections
                 PROVE  g[x] = [y \in Days |-> g[x][y]]
        OBVIOUS
    <2>1. g[x] = IF x = c THEN [f[x] EXCEPT ![d] = v] ELSE f[x]
        BY <1>1 DEF Put
    <2>2. f[x] = [y \in Days |-> f[x][y]]
        BY <1>1
    <2> QED
        BY <1>3, <2>1, <2>2
<1>5. g = [x \in Connections |-> g[x]]
    BY <1>1, <1>3 DEF Put
<1>6. PerDay(g)
    BY <1>4, <1>5 DEF PerDay
<1> QED
    BY <1>1, <1>2, <1>6 DEF Put

LEMMA KnownRow ==
    ASSUME NEW c, NEW k, NEW S, RowKnown(c, k, S)
    PROVE  k # NoShop
<1>1. k.checkedAt \in Nat
    BY Fitting DEF RowKnown
<1> QED
    BY <1>1 DEF NoShop

LEMMA InitShops == Init => ShopInv
BY DEF Init, ShopInv, ShopKnown, HashKnown, RunKnown, PerDay, IdleRun

\* Steps that leave the checks alone: the clock moves on and tables grow.
LEMMA ShopsStand ==
    ASSUME Typed, SyncInv, ShopInv, [Next]_vars, UNCHANGED <<shop, run, hashes>>
    PROVE  ShopInv'
<1>1. tables["skins"] \subseteq tables'["skins"] /\ now <= now' /\ now \in Int /\ now' \in Int
    BY TablesGrow, StepTyped, Fitting DEF TableNames, Typed
<1>2. ShopKnown'
    BY <1>1, RowGrows DEF ShopInv, ShopKnown
<1>3. HashKnown'
    BY DEF ShopInv, HashKnown
<1>4. RunKnown'
    BY <1>1 DEF ShopInv, RunKnown, HasShop
<1> QED
    BY <1>2, <1>3, <1>4 DEF ShopInv

LEMMA RunEnds ==
    ASSUME ShopInv, run' = IdleRun, UNCHANGED <<shop, hashes, tables>>
    PROVE  ShopInv'
<1>1. RunKnown'
    BY DEF RunKnown, IdleRun
<1>2. ShopKnown' /\ HashKnown'
    BY DEF ShopInv, ShopKnown, HashKnown
<1> QED
    BY <1>1, <1>2 DEF ShopInv

LEMMA MarkStep ==
    ASSUME Typed, ShopInv, NEW c \in Connections, NEW kind, Mark(c, kind)
    PROVE  ShopInv'
<1>1. /\ run' = [step |-> "marked", c |-> c, kind |-> kind, checkedAt |-> now]
      /\ UNCHANGED <<now, tables, shop, hashes>>
    BY DEF Mark
<1>2. /\ run'.step = "marked" /\ run'.c = c /\ run'.checkedAt = now
    BY <1>1
<1>3. now \in 0..now
    BY Fitting DEF Typed
<1>4. RunKnown'
    BY <1>1, <1>2, <1>3 DEF RunKnown
<1>5. ShopKnown' /\ HashKnown'
    BY <1>1 DEF ShopInv, ShopKnown, HashKnown
<1> QED
    BY <1>4, <1>5 DEF ShopInv

LEMMA AnswerStep ==
    ASSUME Typed, ShopInv, Answer
    PROVE  ShopInv'
<1>1. CASE run' = IdleRun
    BY <1>1, RunEnds DEF Answer
<1>2. ASSUME NEW offers \in Arrangements(Rotation[run.c][Day(now)]), NEW bonus \in BonusNow,
             run' = [step |-> "answered", c |-> run.c, kind |-> run.kind,
                     checkedAt |-> run.checkedAt, of |-> Day(now),
                     payload |-> Payload(run.c, offers, bonus)]
      PROVE  ShopInv'
    <2> DEFINE p == Payload(run.c, offers, bonus)
               d == Day(now)
               k == run.kind
    <2>1. /\ run.c \in Connections /\ run.checkedAt \in 0..now /\ now \in 0..MaxNow
          /\ MaxNow \in Nat /\ MarketEnd \in Nat /\ BundleEnd \in Nat /\ DayLength \in Nat
        BY Fitting DEF ShopInv, RunKnown, Answer, Typed
    <2>2. d \in Days /\ d \in Nat
        BY <2>1, DayInRange DEF Days
    <2>3. /\ p.offers = offers /\ p.remaining = (d + 1) * DayLength - now
          /\ p.bundle.outer = BundleEnd - now /\ p.bundle.inner = BundleEnd - now
          /\ p.market.remaining = MarketEnd - now
        BY DEF Payload
    <2>4. /\ run'.step = "answered" /\ run'.c = run.c /\ run'.kind = k
          /\ run'.checkedAt = run.checkedAt /\ run'.of = d /\ run'.payload = p
        BY <1>2
    <2>5. run' = [step |-> run'.step, c |-> run'.c, kind |-> run'.kind,
                  checkedAt |-> run'.checkedAt, of |-> run'.of, payload |-> run'.payload]
        BY <1>2, <2>4
    <2> HIDE DEF p, d, k
    <2>6. Answered(run.c, run.checkedAt, d, p)
        <3>1. (d + 1) * DayLength \in Int
            BY <2>1, <2>2
        <3>2. /\ run.checkedAt \in Int /\ run.checkedAt <= now /\ run.checkedAt \in 0..MaxNow
              /\ now \in Int
            BY <2>1
        <3>3. p.remaining \in Int /\ run.checkedAt + p.remaining <= (d + 1) * DayLength
            BY <2>3, <3>1, <3>2
        <3>4. /\ p.bundle.outer \in Int /\ run.checkedAt + p.bundle.outer <= BundleEnd
              /\ p.bundle.inner \in Int /\ run.checkedAt + p.bundle.inner <= BundleEnd
              /\ p.market.remaining \in Int /\ run.checkedAt + p.market.remaining <= MarketEnd
            BY <2>1, <2>3, <3>2
        <3>5. p.offers \in Arrangements(Rotation[run.c][d])
            BY <2>3 DEF d
        <3> QED
            BY <2>2, <3>2, <3>3, <3>4, <3>5 DEF Answered
    <2>7. UNCHANGED <<now, tables, shop, hashes>>
        BY DEF Answer
    <2>8. RunKnown'
        BY <2>1, <2>4, <2>5, <2>6, <2>7 DEF RunKnown
    <2>9. ShopKnown' /\ HashKnown'
        BY <2>7 DEF ShopInv, ShopKnown, HashKnown
    <2> QED
        BY <2>8, <2>9 DEF ShopInv
<1> QED
    BY <1>1, <1>2 DEF Answer

\* A run that goes on: its record apart from the step.
LEMMA RunGoesOn ==
    ASSUME NEW s \in {"raw", "stored", "enriched"}, run.step \in {"answered", "raw", "stored"},
           RunKnown, run' = [run EXCEPT !.step = s], now' = now,
           HasShop(run.c, Day(run.checkedAt))'
    PROVE  RunKnown'
<1>1. /\ run = [step |-> run.step, c |-> run.c, kind |-> run.kind,
                checkedAt |-> run.checkedAt, of |-> run.of, payload |-> run.payload]
      /\ Answered(run.c, run.checkedAt, run.of, run.payload)
      /\ run.c \in Connections /\ run.checkedAt \in 0..now
    BY DEF RunKnown
<1>2. PICK z, c, kind, t, d, p :
             run = [step |-> z, c |-> c, kind |-> kind, checkedAt |-> t, of |-> d, payload |-> p]
    BY <1>1
<1>3. run' = [step |-> s, c |-> c, kind |-> kind, checkedAt |-> t, of |-> d, payload |-> p]
    BY <1>2
<1>4. run.c = c /\ run.kind = kind /\ run.checkedAt = t /\ run.of = d /\ run.payload = p
    BY <1>2
<1>5. /\ run'.step = s /\ run'.c = c /\ run'.kind = kind /\ run'.checkedAt = t
      /\ run'.of = d /\ run'.payload = p
    BY <1>3
<1> QED
    BY <1>1, <1>3, <1>4, <1>5 DEF RunKnown

\* record_storefront_refresh of a row that describes the day it is of.
LEMMA WriteStep ==
    ASSUME Typed, ShopInv, run.step \in {"answered", "stored"},
           NEW snap, NEW next \in {"raw", "enriched"}, Write(snap, next),
           now' = now, tables' = tables, snap.hash = <<Snapshot(run.c, run.of)>>,
           \A old : old = NoShop \/ RowKnown(run.c, old, tables["skins"])
                    => RowKnown(run.c, Stored(old, snap, run.of), tables["skins"])
    PROVE  ShopInv'
<1> DEFINE c == run.c
           d == Day(run.checkedAt)
           of == run.of
           row == Stored(shop[c][d], snap, of)
           seen == hashes[c][of] \cup {snap.hash}
<1>1. CASE run' = IdleRun /\ UNCHANGED <<shop, hashes>>
    BY <1>1, RunEnds
<1>2. CASE /\ shop' = [shop EXCEPT ![c][d] = row]
           /\ hashes' = [hashes EXCEPT ![c][of] = seen]
           /\ run' = [run EXCEPT !.step = next]
    <2>1. /\ c \in Connections /\ d \in Days /\ of \in Days
          /\ ShopKnown /\ HashKnown /\ RunKnown
        <3>1. run.checkedAt \in 0..MaxNow
            BY Fitting DEF ShopInv, RunKnown, Typed
        <3> QED
            BY <3>1, DayInRange DEF ShopInv, RunKnown, Answered
    <2>2. RowKnown(c, row, tables["skins"])
        BY <2>1 DEF ShopKnown
    <2>3. seen \subseteq {<<Snapshot(c, of)>>}
        BY <2>1 DEF HashKnown
    <2>4. shop' = [shop EXCEPT ![c][d] = row] /\ hashes' = [hashes EXCEPT ![c][of] = seen]
        BY <1>2
    <2> HIDE DEF c, d, of, row, seen
    <2>5. /\ PerDay(shop') /\ shop'[c][d] = row
          /\ \A x \in Connections, y \in Days : (x # c \/ y # d) => shop'[x][y] = shop[x][y]
        <3>1. PerDay(shop) /\ Put(shop, c, d, row, shop')
            BY <2>1, <2>4 DEF ShopKnown, Put
        <3> QED
            BY <2>1, <3>1, PutAt
    <2>6. /\ PerDay(hashes') /\ hashes'[c][of] = seen
          /\ \A x \in Connections, y \in Days : (x # c \/ y # of) => hashes'[x][y] = hashes[x][y]
        <3>1. PerDay(hashes) /\ Put(hashes, c, of, seen, hashes')
            BY <2>1, <2>4 DEF HashKnown, Put
        <3> QED
            BY <2>1, <3>1, PutAt
    <2>7. ShopKnown'
        BY <2>1, <2>2, <2>5 DEF ShopKnown
    <2>8. HashKnown'
        BY <2>1, <2>3, <2>6 DEF HashKnown
    <2>9. HasShop(run.c, Day(run.checkedAt))'
        <3>1. run'.c = run.c /\ run'.checkedAt = run.checkedAt
            BY <1>2, <2>1 DEF RunKnown
        <3>2. shop'[c][d] # NoShop
            BY <2>2, <2>5, KnownRow
        <3> QED
            BY <3>1, <3>2 DEF HasShop, c, d, Day
    <2>10. RunKnown'
        BY <1>2, <2>1, <2>9, RunGoesOn
    <2> QED
        BY <2>7, <2>8, <2>10 DEF ShopInv
<1> QED
    BY <1>1, <1>2 DEF Write

LEMMA RecordStep ==
    ASSUME Typed, SyncInv, ShopInv, RecordRaw \/ Enrich
    PROVE  ShopInv'
<1> DEFINE c == run.c
           p == run.payload
           t == run.checkedAt
           d == run.of
<1>1. /\ run.step \in {"answered", "stored"} /\ UNCHANGED <<now, tables>>
      /\ c \in Connections /\ Answered(c, t, d, p)
    BY DEF ShopInv, RunKnown, RecordRaw, Enrich
<1>2. CASE RecordRaw
    <2> DEFINE snap == RefreshSnapshot(p, t)
    <2>1. /\ snap.hash = <<Snapshot(c, d)>>
          /\ \A old : old = NoShop \/ RowKnown(c, old, tables["skins"])
                      => RowKnown(c, Stored(old, snap, d), tables["skins"])
        <3> HIDE DEF c, p, t, d
        <3> QED
            BY <1>1, RawRow
    <2>2. Write(snap, "raw") => ShopInv'
        <3> HIDE DEF snap
        <3> QED
            BY <1>1, <2>1, WriteStep
    <2>3. CASE run' = IdleRun /\ UNCHANGED <<shop, hashes>>
        BY <1>1, <2>3, RunEnds
    <2> QED
        BY <1>2, <2>2, <2>3 DEF RecordRaw, CheckTime
<1>3. CASE Enrich
    <2> DEFINE snap == Canonical(p, SkinOf, t)
    <2>1. CASE OfferLevels(p) \subseteq tables["skin_levels"] /\ Write(snap, "enriched")
        <3>1. \A l \in OfferLevels(p) : SkinOf[l] \in tables["skins"]
            BY <2>1 DEF SyncInv, TablesKnown
        <3>2. /\ snap.hash = <<Snapshot(c, d)>>
              /\ \A old : old = NoShop \/ RowKnown(c, old, tables["skins"])
                          => RowKnown(c, Stored(old, snap, d), tables["skins"])
            <4> HIDE DEF c, p, t, d
            <4> QED
                BY <1>1, <3>1, EnrichedRow
        <3>3. Write(snap, "enriched")
            BY <2>1
        <3> HIDE DEF snap
        <3> QED
            BY <1>1, <3>2, <3>3, WriteStep
    <2>2. CASE run' = IdleRun /\ UNCHANGED <<shop, hashes>>
        BY <1>1, <2>2, RunEnds
    <2> QED
        BY <1>3, <2>1, <2>2 DEF Enrich, CheckTime
<1> QED
    BY <1>2, <1>3

LEMMA ExtrasStep ==
    ASSUME Typed, ShopInv, RecordExtras
    PROVE  ShopInv'
<1> DEFINE c == run.c
           d == Day(run.checkedAt)
           b == {Bundle(run.payload, run.checkedAt)}
           m == NightMarket(run.payload, run.checkedAt)
           row == [shop[c][d] EXCEPT !.bundle = b, !.market = m]
<1>1. /\ run.step \in {"raw", "enriched"} /\ UNCHANGED <<now, tables, hashes>>
      /\ c \in Connections /\ d \in Days /\ ShopKnown /\ HashKnown /\ RunKnown
      /\ Answered(c, run.checkedAt, run.of, run.payload) /\ shop[c][d] # NoShop
    <2>1. run.checkedAt \in 0..MaxNow
        BY Fitting DEF ShopInv, RunKnown, Typed, RecordExtras
    <2> QED
        BY <2>1, DayInRange DEF ShopInv, RunKnown, RecordExtras, HasShop
<1>2. RowKnown(c, row, tables["skins"])
    <2>1. RowKnown(c, shop[c][d], tables["skins"])
        BY <1>1 DEF ShopKnown
    <2>2. /\ \A x \in b : x.expires \in Int /\ x.expires <= BundleEnd
          /\ \A x \in m : x.expires \in Int /\ x.expires <= MarketEnd
        <3> DEFINE t == run.checkedAt
                   o == run.of
                   p == run.payload
        <3>1. Answered(c, t, o, p)
            BY <1>1
        <3> HIDE DEF t, o, p
        <3>2. /\ Bundle(p, t).expires \in Int /\ Bundle(p, t).expires <= BundleEnd
              /\ \A x \in NightMarket(p, t) : x.expires \in Int /\ x.expires <= MarketEnd
            BY <1>1, <3>1, EndsAreNotLate
        <3> QED
            BY <3>2 DEF t, p
    <2> HIDE DEF b, m, c, d
    <2> QED
        BY <1>1, <2>1, <2>2, ExtrasRow
<1>3. ShopKnown' /\ shop'[c][d] # NoShop
    <2>1. CASE shop' = shop
        BY <1>1, <2>1 DEF ShopKnown
    <2>2. CASE shop' = [shop EXCEPT ![c][d] = row]
        <3>1. PerDay(shop)
            BY <1>1 DEF ShopKnown
        <3>2. Put(shop, c, d, row, shop')
            BY <2>2 DEF Put
        <3> HIDE DEF c, d, row
        <3>3. /\ PerDay(shop') /\ shop'[c][d] = row
              /\ \A x \in Connections, y \in Days : (x # c \/ y # d) => shop'[x][y] = shop[x][y]
            BY <1>1, <3>1, <3>2, PutAt
        <3>4. row # NoShop
            BY <1>2, KnownRow
        <3> QED
            BY <1>1, <1>2, <3>3, <3>4 DEF ShopKnown
    <2> QED
        BY <2>1, <2>2 DEF RecordExtras, CheckTime
<1>4. HashKnown'
    BY <1>1 DEF HashKnown
<1>5. RunKnown'
    <2>1. CASE run.step = "raw"
        <3>1. run' = [run EXCEPT !.step = "stored"]
            BY <2>1 DEF RecordExtras
        <3>2. run'.c = run.c /\ run'.checkedAt = run.checkedAt
            BY <1>1, <3>1 DEF RunKnown
        <3>3. HasShop(run.c, Day(run.checkedAt))'
            BY <1>3, <3>2 DEF HasShop, Day
        <3> QED
            BY <1>1, <2>1, <3>1, <3>3, RunGoesOn
    <2>2. CASE run.step = "enriched"
        BY <2>2 DEF RecordExtras, RunKnown, IdleRun
    <2> QED
        BY <1>1, <2>1, <2>2
<1> QED
    BY <1>3, <1>4, <1>5 DEF ShopInv

LEMMA StepShops == Typed /\ SyncInv /\ ShopInv /\ [Next]_vars => ShopInv'
<1> SUFFICES ASSUME Typed, SyncInv, ShopInv, [Next]_vars
             PROVE  ShopInv'
    OBVIOUS
<1>1. ASSUME NEW c \in Connections, NEW kind \in {"cron", "manual"}, Mark(c, kind)
      PROVE  ShopInv'
    BY <1>1, MarkStep
<1>2. CASE Answer
    BY <1>2, AnswerStep
<1>3. CASE RecordRaw \/ Enrich
    BY <1>3, RecordStep
<1>4. CASE RecordExtras
    BY <1>4, ExtrasStep
<1>5. CASE \/ SyncStart \/ SyncFetch("weapons") \/ SyncFetch("tiers")
           \/ SyncTable \/ SyncWrite \/ SyncNext
           \/ UNCHANGED vars \/ Tick \/ Release
           \/ ReadChecks \/ ReadLevels \/ ReadSkins \/ ReadNames \/ ReadMetadata \/ Leave
    <2>1. UNCHANGED <<shop, run, hashes>>
        BY <1>5 DEF vars, SyncStart, SyncFetch, SyncTable, SyncWrite, SyncNext, Tick, Release,
           ReadChecks, ReadLevels, ReadSkins, ReadNames, ReadMetadata, Leave
    <2> QED
        BY <2>1, ShopsStand
<1> QED
    BY <1>1, <1>2, <1>3, <1>4, <1>5 DEF Next

LEMMA ShopInvariant == Spec => [](Typed /\ SyncInv /\ ShopInv)
<1>1. Init => ShopInv
    BY InitShops
<1>2. Typed /\ SyncInv /\ ShopInv /\ [Next]_vars => ShopInv'
    BY StepShops
<1> QED
    BY <1>1, <1>2, SyncInvariant, PTL DEF Spec

\* One rotation has one hash, in whatever order and at whatever time Riot is
\* asked for it.
THEOREM OneHash == Spec => []SameRotationSameHash
<1>1. ASSUME ShopInv, NEW c \in Connections, NEW d \in Days
      PROVE  Cardinality(hashes[c][d]) <= 1
    <2>1. hashes[c][d] = {} \/ hashes[c][d] = {<<Snapshot(c, d)>>}
        BY <1>1 DEF ShopInv, HashKnown
    <2>2. Cardinality({}) = 0 /\ Cardinality({<<Snapshot(c, d)>>}) = 1
        BY FS_EmptySet, FS_Singleton
    <2> QED
        BY <2>1, <2>2
<1>2. ShopInv => SameRotationSameHash
    BY <1>1 DEF SameRotationSameHash
<1> QED
    BY <1>2, ShopInvariant, PTL

\* Enrichment adds skins to the offers a row was hashed from, and moves, drops
\* or reprices none.
THEOREM EnrichmentAddsSkins == Spec => []EnrichedIsTheSnapshot
<1>1. ASSUME ShopInv, NEW c \in Connections, NEW d \in Days, HasShop(c, d)
      PROVE  shop[c][d].hash =
                <<[i \in DOMAIN shop[c][d].offers |-> WithoutSkins(shop[c][d].offers[i])]>>
    <2> DEFINE k == shop[c][d]
               snap == Snapshot(c, k.of)
    <2>1. RowKnown(c, k, tables["skins"])
        BY <1>1 DEF ShopInv, ShopKnown, HasShop
    <2> HIDE DEF k
    <2>2. /\ k.hash = <<snap>> /\ snap = [i \in DOMAIN snap |-> snap[i]]
          /\ \A i \in DOMAIN snap : snap[i] \in RawOffers
          /\ k.offers = snap \/ k.offers = [i \in DOMAIN snap |-> WithSkins(snap[i], SkinOf)]
        BY <2>1 DEF RowKnown, SnapshotFits, Enriched
    <2> HIDE DEF snap
    <2>3. \A i \in DOMAIN snap : /\ WithoutSkins(snap[i]) = snap[i]
                                 /\ WithoutSkins(WithSkins(snap[i], SkinOf)) = snap[i]
        BY <2>2, SkinsComeOff
    <2>4. [i \in DOMAIN k.offers |-> WithoutSkins(k.offers[i])] = snap
        <3>1. CASE k.offers = snap
            <4>1. [i \in DOMAIN snap |-> WithoutSkins(snap[i])] = [i \in DOMAIN snap |-> snap[i]]
                BY <2>3
            <4> QED
                BY <2>2, <3>1, <4>1
        <3>2. CASE k.offers = [i \in DOMAIN snap |-> WithSkins(snap[i], SkinOf)]
            <4>1. /\ DOMAIN k.offers = DOMAIN snap
                  /\ \A i \in DOMAIN snap : k.offers[i] = WithSkins(snap[i], SkinOf)
                BY <3>2
            <4>2. \A i \in DOMAIN snap : WithoutSkins(k.offers[i]) = snap[i]
                BY <2>3, <4>1
            <4>3. [i \in DOMAIN snap |-> WithoutSkins(k.offers[i])] = [i \in DOMAIN snap |-> snap[i]]
                BY <4>2
            <4> QED
                BY <2>2, <4>1, <4>3
        <3> QED
            BY <2>2, <3>1, <3>2
    <2>5. k.hash = <<[i \in DOMAIN k.offers |-> WithoutSkins(k.offers[i])]>>
        BY <2>2, <2>4
    <2> QED
        BY <2>5 DEF k
<1>2. ShopInv => EnrichedIsTheSnapshot
    BY <1>1 DEF EnrichedIsTheSnapshot
<1> QED
    BY <1>2, ShopInvariant, PTL

\* No stored expiry is later than the end that Riot counts down to.
THEOREM ExpiriesAreNotLate == Spec => []ExpiryIsNotLate
<1>1. ShopInv => ExpiryIsNotLate
    BY DEF ShopInv, ShopKnown, RowKnown, HasShop, ExpiryIsNotLate
<1> QED
    BY <1>1, ShopInvariant, PTL

-----------------------------------------------------------------------------
(* The dashboard's page loads.                                              *)

PageKnown ==
    /\ page.step \in {"idle", "failed", "levels", "skins", "names", "metadata", "shown"}
    /\ page.step = "failed" => faults > 0
    /\ page.step \notin {"idle", "failed"} =>
         /\ page.at \in Int
         /\ \A c \in Connections :
               \/ page.checks[c] = NoShop
               \/ RowKnown(c, page.checks[c], tables["skins"])
    /\ page.step \in {"skins", "names", "metadata", "shown"} =>
         page.levels \subseteq tables["skin_levels"]
    /\ page.step \in {"names", "metadata", "shown"} =>
         /\ page.skins \subseteq tables["skins"]
         /\ \A l \in page.levels : SkinOf[l] \in page.skins
         /\ \A c \in Connections :
               page.checks[c] # NoShop => page.checks[c].skins \subseteq page.skins
    /\ page.step \in {"metadata", "shown"} => \A s \in page.skins : TierOf[s] \in page.tiers

LEMMA NewestIsStored ==
    ASSUME NEW c \in Connections
    PROVE  Newest(c) = NoShop \/ \E d \in Days : Newest(c) = shop[c][d]
<1> DEFINE stored == {d \in Days : shop[c][d] # NoShop}
           last == Day(MaxNow)
           left == {last - d : d \in stored}
<1>1. CASE stored = {}
    BY <1>1 DEF Newest
<1>2. CASE stored # {}
    <2>1. last \in Nat /\ \A d \in stored : d \in 0..last
        <3>1. MaxNow \in 0..MaxNow
            BY Fitting
        <3>2. last \in 0..last
            BY <3>1, DayInRange DEF Days
        <3>3. last \in Int
            BY Fitting DEF Day
        <3> QED
            BY <3>2, <3>3 DEF Days
    <2> HIDE DEF stored, last
    <2>2. left \in SUBSET Nat /\ left # {}
        BY <1>2, <2>1
    <2>3. PICK m \in left : \A n \in left : m <= n
        <3> HIDE DEF left
        <3> QED
            BY <2>2, LeastNat
    <2>4. PICK d \in stored : m = last - d
        OBVIOUS
    <2>5. \A e \in stored : d >= e
        <3> SUFFICES ASSUME NEW e \in stored
                     PROVE  d >= e
            OBVIOUS
        <3>1. last - d <= last - e
            BY <2>3, <2>4
        <3> QED
            BY <2>1, <3>1
    <2>6. Max(stored) \in stored
        BY <2>5 DEF Max
    <2> QED
        BY <1>2, <2>6 DEF Newest, stored
<1> QED
    BY <1>1, <1>2

LEMMA StepPages == Typed /\ SyncInv /\ ShopInv /\ PageKnown /\ [Next]_vars => PageKnown'
<1> SUFFICES ASSUME Typed, SyncInv, ShopInv, PageKnown, [Next]_vars
             PROVE  PageKnown'
    OBVIOUS
<1>1. /\ faults \in Int /\ faults' \in Int /\ 0 <= faults /\ faults <= faults'
      /\ now \in Int
    BY StepTyped, Fitting DEF Typed
<1>2. /\ tables["skins"] \subseteq tables'["skins"]
      /\ tables["skin_levels"] \subseteq tables'["skin_levels"]
    BY TablesGrow DEF TableNames
<1>3. Fault => faults' > 0
    BY <1>1 DEF Fault
<1>4. CASE UNCHANGED page
    <2>1. \A c \in Connections : \A k : RowKnown(c, k, tables["skins"]) => RowKnown(c, k, tables'["skins"])
        BY <1>2, RowGrows
    <2> QED
        BY <1>1, <1>2, <1>4, <2>1 DEF PageKnown
<1>5. ASSUME page' = [step |-> "failed"], Fault
      PROVE  PageKnown'
    BY <1>3, <1>5 DEF PageKnown
<1>6. CASE ReadChecks
    <2>1. ASSUME page' = [step |-> "levels", at |-> now,
                          checks |-> [c \in Connections |-> Newest(c)]],
                 UNCHANGED <<tables, shop>>
          PROVE  PageKnown'
        <3>1. \A c \in Connections : Newest(c) = NoShop \/ RowKnown(c, Newest(c), tables["skins"])
            BY NewestIsStored DEF ShopInv, ShopKnown
        <3> QED
            BY <1>1, <2>1, <3>1 DEF PageKnown
    <2> QED
        BY <1>5, <1>6, <2>1 DEF ReadChecks
<1>7. CASE ReadLevels
    <2>1. PICK levels \in SUBSET tables["skin_levels"] :
             page' = [step |-> "skins", at |-> page.at, checks |-> page.checks,
                      levels |-> levels]
        BY <1>7 DEF ReadLevels, WithLevels
    <2> QED
        BY <1>7, <2>1 DEF ReadLevels, PageKnown
<1>8. CASE ReadSkins
    <2> DEFINE skins == WantedSkins(page) \cap tables["skins"]
    <2>1. ASSUME page' = [step |-> "names", at |-> page.at, checks |-> page.checks,
                          levels |-> page.levels, skins |-> skins],
                 page.step = "skins", UNCHANGED tables
          PROVE  PageKnown'
        <3>1. \A l \in page.levels : SkinOf[l] \in skins
            BY <2>1 DEF PageKnown, SyncInv, TablesKnown, WantedSkins
        <3>2. \A c \in Connections :
                 page.checks[c] # NoShop => page.checks[c].skins \subseteq skins
            <4> SUFFICES ASSUME NEW c \in Connections, page.checks[c] # NoShop,
                                NEW s \in page.checks[c].skins
                         PROVE  s \in skins
                OBVIOUS
            <4>1. page.checks[c] \in Checked(page)
                BY DEF Checked
            <4>2. page.checks[c].skins \subseteq tables["skins"]
                BY <2>1 DEF PageKnown, RowKnown
            <4> QED
                BY <4>1, <4>2 DEF WantedSkins
        <3>3. skins \subseteq tables["skins"]
            OBVIOUS
        <3> HIDE DEF skins
        <3> QED
            BY <2>1, <3>1, <3>2, <3>3 DEF PageKnown
    <2> QED
        BY <1>5, <1>8, <2>1 DEF ReadSkins
<1>9. CASE ReadNames
    <2> DEFINE tiers == {TierOf[s] : s \in page.skins} \cap tables["content_tiers"]
    <2>1. ASSUME page' = [step |-> "metadata", at |-> page.at, checks |-> page.checks,
                          levels |-> page.levels, skins |-> page.skins, tiers |-> tiers],
                 page.step = "names", UNCHANGED tables
          PROVE  PageKnown'
        <3>1. \A s \in page.skins : TierOf[s] \in tiers
            BY <2>1 DEF PageKnown, SyncInv, TablesKnown
        <3> HIDE DEF tiers
        <3> QED
            BY <2>1, <3>1 DEF PageKnown
    <2> QED
        BY <1>5, <1>9, <2>1 DEF ReadNames
<1>10. CASE ReadMetadata
    <2>1. PICK titled \in BOOLEAN :
             page' = [step |-> "shown", at |-> page.at, checks |-> page.checks,
                      levels |-> page.levels, skins |-> page.skins, tiers |-> page.tiers,
                      titled |-> titled]
        BY <1>10 DEF ReadMetadata
    <2> QED
        BY <1>10, <2>1 DEF ReadMetadata, PageKnown
<1>11. CASE Leave
    BY <1>11 DEF Leave, IdlePage, PageKnown
<1>12. ASSUME NEW c \in Connections, NEW kind \in {"cron", "manual"}, Mark(c, kind)
       PROVE  UNCHANGED page
    BY <1>12 DEF Mark
<1>13. CASE \/ SyncStart \/ SyncFetch("weapons") \/ SyncFetch("tiers")
            \/ SyncTable \/ SyncWrite \/ SyncNext
            \/ UNCHANGED vars \/ Tick \/ Release \/ Answer
    BY <1>4, <1>13 DEF vars, SyncStart, SyncFetch, SyncTable, SyncWrite, SyncNext, Tick,
       Release, Answer
<1>14. CASE RecordRaw \/ RecordExtras \/ Enrich
    BY <1>4, <1>14 DEF RecordRaw, RecordExtras, Enrich, Write
<1> QED
    BY <1>4, <1>6, <1>7, <1>8, <1>9, <1>10, <1>11, <1>12, <1>13, <1>14 DEF Next

LEMMA PageInvariant == Spec => [](Typed /\ SyncInv /\ ShopInv /\ PageKnown)
<1>1. Init => PageKnown
    BY DEF Init, PageKnown, IdlePage
<1>2. Typed /\ SyncInv /\ ShopInv /\ PageKnown /\ [Next]_vars => PageKnown'
    BY StepPages
<1> QED
    BY <1>1, <1>2, ShopInvariant, PTL DEF Spec

\* A page fails only on a failed query, however little of the catalog is there.
THEOREM GapsNeverFail == Spec => []GapsDoNotFailThePage
<1>1. PageKnown => GapsDoNotFailThePage
    BY DEF PageKnown, GapsDoNotFailThePage
<1> QED
    BY <1>1, PageInvariant, PTL

\* No page shows a night market after Riot closed it.
THEOREM ShownMarketsRun == Spec => []MarketShownIsRunning
<1>1. ASSUME PageKnown, page.step = "shown", NEW k \in Checked(page), MarketShown(page, k) # {}
      PROVE  page.at < MarketEnd
    <2>1. PICK m \in k.market : m.expires > page.at
        BY <1>1 DEF MarketShown
    <2>2. \E c \in Connections : RowKnown(c, k, tables["skins"])
        BY <1>1 DEF PageKnown, Checked
    <2>3. m.expires \in Int /\ m.expires <= MarketEnd
        BY <2>1, <2>2 DEF RowKnown
    <2>4. page.at \in Int /\ MarketEnd \in Int
        BY <1>1, Fitting DEF PageKnown
    <2> QED
        BY <2>1, <2>3, <2>4
<1>2. PageKnown => MarketShownIsRunning
    BY <1>1 DEF MarketShownIsRunning
<1> QED
    BY <1>2, PageInvariant, PTL

\* Every level, daily skin and tier that the catalog resolved for a page is on
\* the page, although the tables are read in separate queries while a sync runs.
THEOREM ResolvedSkinsShow == Spec => []ResolvedIsShown
<1>1. ASSUME PageKnown, page.step = "shown", NEW k \in Checked(page), NEW i \in DOMAIN k.offers,
             k.skins # {}
      PROVE  TileNamed(page, k.offers[i])
    <2>1. PICK c \in Connections : k = page.checks[c] /\ k # NoShop
        BY DEF Checked
    <2>2. RowKnown(c, k, tables["skins"]) /\ k.skins \subseteq page.skins
        BY <1>1, <2>1 DEF PageKnown
    <2> DEFINE snap == Snapshot(c, k.of)
               o == snap[i]
               rs == o.rewards
    <2>3. /\ k.offers = Enriched(c, k.of) /\ SnapshotFits(c, k.of)
          /\ \A h \in DOMAIN snap : \A j \in DOMAIN snap[h].rewards :
                SkinOf[snap[h].rewards[j].level] \in k.skins
        BY <1>1, <2>2 DEF RowKnown
    <2>4. i \in DOMAIN snap /\ k.offers[i] = WithSkins(o, SkinOf)
        BY <2>3 DEF Enriched
    <2>5. o \in RawOffers /\ 1 \in DOMAIN rs
        BY <2>3, <2>4 DEF SnapshotFits
    <2> HIDE DEF o
    <2>6. rs \in Seq(RawRewards)
        BY <2>5 DEF RawOffers
    <2>7. DOMAIN rs = 1..Len(rs) /\ Len(rs) \in Nat
        <3> HIDE DEF rs
        <3> QED
            BY <2>6
    <2> DEFINE with == [j \in DOMAIN rs |-> [level |-> rs[j].level, quantity |-> rs[j].quantity,
                                             skin |-> SkinOf[rs[j].level]]]
    <2>8. k.offers[i].rewards = with
        BY <2>4 DEF WithSkins
    <2>9. with[1].skin = SkinOf[rs[1].level]
        BY <2>5
    <2>10. Head(with) = with[1]
        <3> HIDE DEF with
        <3> QED
            OBVIOUS
    <2>11. SkinOf[rs[1].level] \in k.skins
        BY <2>3, <2>4, <2>5 DEF o
    <2> HIDE DEF with, rs
    <2> QED
        BY <2>2, <2>8, <2>9, <2>10, <2>11 DEF TileNamed
<1>2. ASSUME PageKnown, page.step = "shown"
      PROVE  ResolvedIsShown
    <2>1. /\ \A l \in page.levels : SkinOf[l] \in page.skins
          /\ \A s \in page.skins : TierOf[s] \in page.tiers
        BY <1>2 DEF PageKnown
    <2>2. \A k \in Checked(page), i \in 1..9 :
             i \in DOMAIN k.offers /\ k.skins # {} => TileNamed(page, k.offers[i])
        BY <1>1, <1>2
    <2> QED
        BY <2>1, <2>2 DEF ResolvedIsShown
<1>3. PageKnown => ResolvedIsShown
    BY <1>2 DEF ResolvedIsShown
<1> QED
    BY <1>3, PageInvariant, PTL

\* Every component has the type its code gives it.
THEOREM CatalogTypeCorrect == Spec => []CatalogTypeOK
<1>1. ASSUME Typed, SyncInv, ShopInv, PageKnown
      PROVE  CatalogTypeOK
    <2>1. /\ tables["skins"] \subseteq Skins /\ tables["content_tiers"] \subseteq Tiers
          /\ tables["skin_levels"] \subseteq Levels /\ tables["skin_chromas"] \subseteq Skins
        BY <1>1 DEF SyncInv, TablesKnown, TableNames, RowKind
    <2>2. {sync.step, run.step, page.step} \subseteq Steps
        BY <1>1 DEF SyncInv, SyncKnown, ShopInv, RunKnown, PageKnown, Steps
    <2>3. ASSUME NEW c \in Connections, NEW d \in Days, shop[c][d] # NoShop
          PROVE  /\ shop[c][d].checkedAt \in 0..MaxNow
                 /\ shop[c][d].of \in Days
                 /\ shop[c][d].skins \subseteq Skins
                 /\ \A i \in DOMAIN shop[c][d].offers :
                       \A j \in DOMAIN shop[c][d].offers[i].rewards :
                          shop[c][d].offers[i].rewards[j].skin \in Skins \cup {NoSkin}
        <3> DEFINE k == shop[c][d]
                   snap == Snapshot(c, k.of)
        <3>1. RowKnown(c, k, tables["skins"])
            BY <1>1, <2>3 DEF ShopInv, ShopKnown
        <3> HIDE DEF k
        <3>2. k.checkedAt \in 0..MaxNow /\ k.of \in Days /\ k.skins \subseteq Skins
            BY <2>1, <3>1 DEF RowKnown
        <3>3. ASSUME NEW i \in DOMAIN k.offers, NEW j \in DOMAIN k.offers[i].rewards
              PROVE  k.offers[i].rewards[j].skin \in Skins \cup {NoSkin}
            <4>1. CASE k.offers = snap
                <5>1. snap[i] \in RawOffers
                    BY <3>1, <3>3, <4>1 DEF RowKnown, SnapshotFits
                <5> DEFINE rs == snap[i].rewards
                <5>2. rs \in Seq(RawRewards) /\ j \in DOMAIN rs /\ k.offers[i].rewards[j] = rs[j]
                    BY <3>3, <4>1, <5>1 DEF RawOffers
                <5> HIDE DEF rs
                <5>3. rs[j] \in RawRewards
                    BY <5>2
                <5> QED
                    BY <5>2, <5>3 DEF RawRewards
            <4>2. CASE /\ k.offers = Enriched(c, k.of) /\ k.skins \subseteq tables["skins"]
                       /\ \A h \in DOMAIN snap : \A n \in DOMAIN snap[h].rewards :
                             SkinOf[snap[h].rewards[n].level] \in k.skins
                <5>1. i \in DOMAIN snap /\ k.offers[i] = WithSkins(snap[i], SkinOf)
                    BY <3>3, <4>2 DEF Enriched
                <5>2. /\ j \in DOMAIN snap[i].rewards
                      /\ k.offers[i].rewards[j].skin = SkinOf[snap[i].rewards[j].level]
                    BY <3>3, <5>1 DEF WithSkins
                <5> QED
                    BY <3>2, <4>2, <5>1, <5>2
            <4> QED
                BY <3>1, <4>1, <4>2 DEF RowKnown
        <3> QED
            BY <3>2, <3>3 DEF k
    <2> QED
        BY <1>1, <2>1, <2>2, <2>3 DEF CatalogTypeOK, Typed
<1> QED
    BY <1>1, PageInvariant, PTL
=============================================================================
