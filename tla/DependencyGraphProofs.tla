------------------------ MODULE DependencyGraphProofs ------------------------
(***************************************************************************)
(* What normalization promises of dependency graph documents, for any      *)
(* documents: a digest names what a document says, and a graph has one     *)
(* encoding that is accepted.  The derived orders are shown to be total,   *)
(* so that what sort and dedup leave of a list depends on its items alone. *)
(***************************************************************************)
EXTENDS DependencyGraph

-----------------------------------------------------------------------------
(* The derived orders *)

(* Two vectors that differ do so at a first position, or one continues the *)
(* other.                                                                  *)
LEMMA FirstDifference ==
  ASSUME NEW s \in Seq(Nat), NEW t \in Seq(Nat)
  PROVE  \/ \E n \in 1..Len(s) :
               /\ n <= Len(t) /\ s[n] # t[n]
               /\ \A m \in 1..(n - 1) : s[m] = t[m]
         \/ Len(s) <= Len(t) /\ \A m \in 1..Len(s) : s[m] = t[m]
         \/ Len(t) <= Len(s) /\ \A m \in 1..Len(t) : s[m] = t[m]
<1> DEFINE differ == {n \in 1..Len(s) : n <= Len(t) /\ s[n] # t[n]}
<1>1. Len(s) \in Nat /\ Len(t) \in Nat
  OBVIOUS
<1>2. CASE differ = {}
  <2>1. \A n \in 1..Len(s) : n <= Len(t) => s[n] = t[n]
    BY <1>2
  <2>2. CASE Len(s) <= Len(t)
    BY <1>1, <2>1, <2>2
  <2>3. CASE Len(t) < Len(s)
    BY <1>1, <2>1, <2>3, SMTT(30)
  <2> QED
    BY <1>1, <2>2, <2>3
<1>3. CASE differ # {}
  <2>1. PICK n \in differ : \A m \in differ : n <= m
    <3>1. differ \in SUBSET Nat
      OBVIOUS
    <3> HIDE DEF differ
    <3> QED
      BY <3>1, <1>3, LeastNumber
  <2>2. n \in 1..Len(s) /\ n <= Len(t) /\ s[n] # t[n]
    OBVIOUS
  <2>3. ASSUME NEW m \in 1..(n - 1)
        PROVE  s[m] = t[m]
    <3>1. m \in 1..Len(s) /\ m <= Len(t) /\ ~(n <= m)
      BY <1>1, <2>2
    <3>2. m \notin differ
      BY <2>1, <3>1
    <3> QED
      BY <3>1, <3>2
  <2> QED
    BY <2>2, <2>3
<1> QED
  BY <1>2, <1>3

(* The order of vectors is strict and total. *)
LEMMA VectorOrder ==
  /\ \A s \in Seq(Nat) : ~Before(s, s)
  /\ \A s, t \in Seq(Nat) : s # t => Before(s, t) \/ Before(t, s)
  /\ \A s, t, u \in Seq(Nat) : Before(s, t) /\ Before(t, u) => Before(s, u)
<1>1. ASSUME NEW s \in Seq(Nat)
      PROVE  ~Before(s, s)
  <2>1. Len(s) \in Nat /\ \A n \in 1..Len(s) : s[n] \in Nat
    OBVIOUS
  <2> QED
    BY <2>1 DEF Before
<1>2. ASSUME NEW s \in Seq(Nat), NEW t \in Seq(Nat), s # t
      PROVE  Before(s, t) \/ Before(t, s)
  <2>1. /\ Len(s) \in Nat /\ Len(t) \in Nat
        /\ \A n \in 1..Len(s) : s[n] \in Nat
        /\ \A n \in 1..Len(t) : t[n] \in Nat
    OBVIOUS
  <2>2. ASSUME NEW n \in 1..Len(s), n <= Len(t), s[n] # t[n],
               \A m \in 1..(n - 1) : s[m] = t[m]
        PROVE  Before(s, t) \/ Before(t, s)
    <3>1. n \in 1..Len(t) /\ n <= Len(s) /\ s[n] \in Nat /\ t[n] \in Nat
      BY <2>1, <2>2
    <3>2. s[n] < t[n] \/ t[n] < s[n]
      BY <2>2, <3>1
    <3> QED
      BY <2>2, <3>1, <3>2 DEF Before
  <2>3. ASSUME Len(s) = Len(t), \A m \in 1..Len(s) : s[m] = t[m]
        PROVE  FALSE
    <3>1. /\ s = [m \in 1..Len(s) |-> s[m]]
          /\ t = [m \in 1..Len(t) |-> t[m]]
      OBVIOUS
    <3>2. [m \in 1..Len(s) |-> s[m]] = [m \in 1..Len(t) |-> t[m]]
      BY <2>3, Zenon
    <3> QED
      BY <1>2, <3>1, <3>2, Zenon
  <2>4. CASE Len(s) <= Len(t) /\ \A m \in 1..Len(s) : s[m] = t[m]
    BY <2>1, <2>3, <2>4 DEF Before
  <2>5. CASE Len(t) <= Len(s) /\ \A m \in 1..Len(t) : s[m] = t[m]
    BY <2>1, <2>3, <2>5 DEF Before
  <2> QED
    BY <2>2, <2>4, <2>5, FirstDifference
<1>3. ASSUME NEW s \in Seq(Nat), NEW t \in Seq(Nat), NEW u \in Seq(Nat),
             Before(s, t), Before(t, u)
      PROVE  Before(s, u)
  <2>1. /\ Len(s) \in Nat /\ Len(t) \in Nat /\ Len(u) \in Nat
        /\ \A n \in 1..Len(s) : s[n] \in Nat
        /\ \A n \in 1..Len(t) : t[n] \in Nat
        /\ \A n \in 1..Len(u) : u[n] \in Nat
    OBVIOUS
  <2>2. ASSUME NEW n \in 1..Len(s), n <= Len(t), s[n] < t[n],
               \A m \in 1..(n - 1) : s[m] = t[m],
               NEW k \in 1..Len(t), k <= Len(u), t[k] < u[k],
               \A m \in 1..(k - 1) : t[m] = u[m]
        PROVE  Before(s, u)
    <3>1. CASE n <= k
      <4>1. n <= Len(u) /\ \A m \in 1..(n - 1) : s[m] = u[m]
        <5>1. n \in Int /\ k \in Int
          OBVIOUS
        <5>2. n <= Len(u)
          BY <2>1, <2>2, <3>1, <5>1
        <5>3. ASSUME NEW m \in 1..(n - 1)
              PROVE  s[m] = u[m]
          <6>1. m \in 1..(k - 1)
            BY <3>1, <5>1
          <6> QED
            BY <2>2, <6>1
        <5> QED
          BY <5>2, <5>3
      <4>2. n \in 1..Len(t) /\ n \in 1..Len(u)
        BY <2>1, <2>2, <4>1
      <4>3. s[n] \in Nat /\ t[n] \in Nat /\ u[n] \in Nat
        BY <2>1, <4>2
      <4>4. n = k \/ n \in 1..(k - 1)
        BY <2>1, <3>1
      <4>5. t[n] < u[n] \/ t[n] = u[n]
        <5>1. n = k => t[n] < u[n]
          BY <2>2
        <5>2. n \in 1..(k - 1) => t[n] = u[n]
          BY <2>2
        <5> QED
          BY <4>4, <5>1, <5>2
      <4>6. s[n] < u[n]
        <5>1. s[n] < t[n]
          BY <2>2
        <5> QED
          BY <4>3, <4>5, <5>1, SMTT(30)
      <4> QED
        BY <4>1, <4>6 DEF Before
    <3>2. CASE k < n
      <4>1. k \in 1..Len(s) /\ k \in 1..(n - 1)
        BY <2>1, <2>2, <3>2
      <4>2. s[k] = t[k] /\ \A m \in 1..(k - 1) : s[m] = u[m]
        BY <2>1, <2>2, <3>2, <4>1
      <4>3. s[k] < u[k]
        BY <2>2, <4>2
      <4> QED
        BY <2>2, <4>1, <4>2, <4>3 DEF Before
    <3> QED
      BY <2>1, <3>1, <3>2
  <2>3. ASSUME NEW n \in 1..Len(s), n <= Len(t), s[n] < t[n],
               \A m \in 1..(n - 1) : s[m] = t[m],
               Len(t) < Len(u), \A m \in 1..Len(t) : t[m] = u[m]
        PROVE  Before(s, u)
    <3>1. n <= Len(u) /\ n \in 1..Len(t)
      BY <2>1, <2>3
    <3>2. s[n] < u[n] /\ \A m \in 1..(n - 1) : s[m] = u[m]
      BY <2>1, <2>3, <3>1
    <3> QED
      BY <3>1, <3>2 DEF Before
  <2>4. ASSUME Len(s) < Len(t), \A m \in 1..Len(s) : s[m] = t[m],
               NEW k \in 1..Len(t), k <= Len(u), t[k] < u[k],
               \A m \in 1..(k - 1) : t[m] = u[m]
        PROVE  Before(s, u)
    <3>1. CASE k <= Len(s)
      <4>1. k \in 1..Len(s) /\ s[k] = t[k]
        BY <2>1, <2>4, <3>1
      <4>2. s[k] < u[k] /\ \A m \in 1..(k - 1) : s[m] = u[m]
        BY <2>1, <2>4, <4>1
      <4> QED
        BY <2>4, <4>1, <4>2 DEF Before
    <3>2. CASE Len(s) < k
      <4>1. Len(s) < Len(u) /\ \A m \in 1..Len(s) : s[m] = u[m]
        BY <2>1, <2>4, <3>2
      <4> QED
        BY <4>1 DEF Before
    <3> QED
      BY <2>1, <3>1, <3>2
  <2>5. ASSUME Len(s) < Len(t), \A m \in 1..Len(s) : s[m] = t[m],
               Len(t) < Len(u), \A m \in 1..Len(t) : t[m] = u[m]
        PROVE  Before(s, u)
    <3>1. Len(s) < Len(u) /\ \A m \in 1..Len(s) : s[m] = u[m]
      BY <2>1, <2>5
    <3> QED
      BY <3>1 DEF Before
  <2> QED
    BY <1>3, <2>2, <2>3, <2>4, <2>5 DEF Before
<1> QED
  BY <1>1, <1>2, <1>3

(* So is that of items, by key and then by features. *)
LEMMA ItemsAreOrdered ==
  /\ \A x \in Item : ~ItemBefore(x, x)
  /\ \A x, y \in Item : x # y => ItemBefore(x, y) \/ ItemBefore(y, x)
  /\ \A x, y, z \in Item :
        ItemBefore(x, y) /\ ItemBefore(y, z) => ItemBefore(x, z)
<1>1. \A x \in Item : x.key \in Seq(Nat) /\ x.features \in Seq(Nat)
  BY DEF Item
<1>2. \A x, y \in Item : x.key = y.key /\ x.features = y.features => x = y
  BY DEF Item
<1> QED
  BY <1>1, <1>2, VectorOrder DEF ItemBefore

(* A set of numbers, or of items, is put in a total order. *)
LEMMA OrdersAreTotal ==
  /\ \A S \in SUBSET Nat : StrictTotalOrder(S, NumberOrder(S))
  /\ \A S \in SUBSET Item : StrictTotalOrder(S, ItemOrder(S))
<1>1. ASSUME NEW S \in SUBSET Nat
      PROVE  StrictTotalOrder(S, NumberOrder(S))
  BY DEF StrictTotalOrder, NumberOrder
<1>2. ASSUME NEW S \in SUBSET Item
      PROVE  StrictTotalOrder(S, ItemOrder(S))
  <2>1. \A x, y \in S : <<x, y>> \in ItemOrder(S) <=> ItemBefore(x, y)
    BY DEF ItemOrder
  <2>2. \A x \in S : x \in Item
    OBVIOUS
  <2> QED
    BY <2>1, <2>2, ItemsAreOrdered DEF StrictTotalOrder
<1> QED
  BY <1>1, <1>2

-----------------------------------------------------------------------------
(* Lists *)

(* The items of a list are finitely many. *)
LEMMA ItemsAreFinite ==
  ASSUME NEW S, NEW list \in Seq(S)
  PROVE  ToSet(list) \in SUBSET S /\ IsFiniteSet(ToSet(list))
<1> DEFINE items == ToSet(list)
           at == [i \in 1..Len(list) |-> list[i]]
<1>1. IsFiniteSet(1..Len(list))
  BY FS_Interval
<1>2. DOMAIN list = 1..Len(list) /\ list \in [1..Len(list) -> S]
  OBVIOUS
<1>3. items \in SUBSET S /\ \A x \in items : \E i \in 1..Len(list) : list[i] = x
  BY <1>2 DEF ToSet
<1>4. \A i \in 1..Len(list) : list[i] \in items
  BY <1>2 DEF ToSet
<1> HIDE DEF items
<1>5. list \in Surjection(1..Len(list), items)
  BY <1>2, <1>3, <1>4, Fun_IsSurj
<1> QED
  BY <1>1, <1>3, <1>5, FS_Surjection DEF items

(* sort and dedup of a set of items in a total order. *)
LEMMA ArrangedItems ==
  ASSUME NEW S, NEW list \in Seq(S), NEW before,
         StrictTotalOrder(ToSet(list), before)
  PROVE  LET sorted == InOrderOf(ToSet(list), before)
         IN  sorted \in Seq(S) /\ ToSet(sorted) = ToSet(list)
<1> DEFINE items == ToSet(list)
           sorted == InOrderOf(items, before)
           n == Cardinality(items)
<1>1. items \in SUBSET S /\ IsFiniteSet(items)
  BY ItemsAreFinite
<1> HIDE DEF items
<1>2. /\ n \in Nat
      /\ sorted \in [1..n -> items]
      /\ \A x \in items : \E p \in 1..n : sorted[p] = x
  BY <1>1, InOrderOfSet DEF items
<1> HIDE DEF n, sorted
<1>3. sorted \in Seq(S) /\ DOMAIN sorted = 1..n
  BY <1>1, <1>2
<1>4. ToSet(sorted) = items
  BY <1>2, <1>3 DEF ToSet
<1> QED
  BY <1>3, <1>4 DEF sorted, items

(* What sort and dedup leave of numbers, or of items, are those very ones. *)
LEMMA SortDedupKeeps ==
  /\ \A s \in Seq(Nat) : /\ SortDedupNumbers(s) \in Seq(Nat)
                        /\ ToSet(SortDedupNumbers(s)) = ToSet(s)
  /\ \A list \in Seq(Item) : /\ SortDedup(list) \in Seq(Item)
                            /\ ToSet(SortDedup(list)) = ToSet(list)
<1>1. ASSUME NEW s \in Seq(Nat)
      PROVE  /\ SortDedupNumbers(s) \in Seq(Nat)
             /\ ToSet(SortDedupNumbers(s)) = ToSet(s)
  <2>1. StrictTotalOrder(ToSet(s), NumberOrder(ToSet(s)))
    BY ItemsAreFinite, OrdersAreTotal
  <2> QED
    BY <2>1, ArrangedItems DEF SortDedupNumbers
<1>2. ASSUME NEW list \in Seq(Item)
      PROVE  /\ SortDedup(list) \in Seq(Item)
             /\ ToSet(SortDedup(list)) = ToSet(list)
  <2>1. StrictTotalOrder(ToSet(list), ItemOrder(ToSet(list)))
    BY ItemsAreFinite, OrdersAreTotal
  <2> QED
    BY <2>1, ArrangedItems DEF SortDedup
<1> QED
  BY <1>1, <1>2

(* The order in which positions are sorted is total: items that are equal  *)
(* stay in their order.                                                    *)
LEMMA PositionsAreOrdered ==
  ASSUME NEW list \in Seq(Item)
  PROVE  /\ IsFiniteSet(DOMAIN list)
         /\ Cardinality(DOMAIN list) = Len(list)
         /\ StrictTotalOrder(DOMAIN list, ByItem(list))
<1>1. Len(list) \in Nat /\ DOMAIN list = 1..Len(list)
  OBVIOUS
<1>2. IsFiniteSet(1..Len(list)) /\ Cardinality(1..Len(list)) = Len(list)
  BY <1>1, FS_Interval, SMTT(30)
<1>3. \A i \in DOMAIN list : list[i] \in Item /\ i \in Int
  OBVIOUS
<1>4. \A i, j \in DOMAIN list :
         <<i, j>> \in ByItem(list) <=>
            \/ ItemBefore(list[i], list[j])
            \/ list[i] = list[j] /\ i < j
  BY DEF ByItem
<1>5. StrictTotalOrder(DOMAIN list, ByItem(list))
  <2>1. ASSUME NEW i \in DOMAIN list
        PROVE  <<i, i>> \notin ByItem(list)
    BY <1>3, <1>4, ItemsAreOrdered
  <2>2. ASSUME NEW i \in DOMAIN list, NEW j \in DOMAIN list,
               NEW k \in DOMAIN list,
               <<i, j>> \in ByItem(list), <<j, k>> \in ByItem(list)
        PROVE  <<i, k>> \in ByItem(list)
    <3>1. /\ i \in Int /\ j \in Int /\ k \in Int
          /\ list[i] \in Item /\ list[j] \in Item /\ list[k] \in Item
      BY <1>3
    <3>2. /\ ItemBefore(list[i], list[j]) \/ (list[i] = list[j] /\ i < j)
          /\ ItemBefore(list[j], list[k]) \/ (list[j] = list[k] /\ j < k)
      BY <1>4, <2>2
    <3>3. ItemBefore(list[i], list[k]) \/ (list[i] = list[k] /\ i < k)
      BY <3>1, <3>2, ItemsAreOrdered
    <3> QED
      BY <1>4, <3>3
  <2>3. ASSUME NEW i \in DOMAIN list, NEW j \in DOMAIN list, i # j
        PROVE  <<i, j>> \in ByItem(list) \/ <<j, i>> \in ByItem(list)
    <3>1. /\ i \in Int /\ j \in Int
          /\ list[i] \in Item /\ list[j] \in Item
      BY <1>3
    <3>2. i < j \/ j < i
      BY <2>3, <3>1
    <3>3. \/ list[i] = list[j]
          \/ ItemBefore(list[i], list[j]) \/ ItemBefore(list[j], list[i])
      BY <3>1, ItemsAreOrdered
    <3> QED
      BY <1>4, <3>2, <3>3
  <2> QED
    BY <2>1, <2>2, <2>3 DEF StrictTotalOrder
<1> QED
  BY <1>1, <1>2, <1>5

(* A sorted list has the items it had, and none before its predecessor.    *)
LEMMA SortedItems ==
  ASSUME NEW list \in Seq(Item)
  PROVE  /\ Sorted(list) \in Seq(Item)
         /\ Len(Sorted(list)) = Len(list)
         /\ ToSet(Sorted(list)) = ToSet(list)
         /\ \A p, q \in 1..Len(list) :
               p < q => \/ ItemBefore(Sorted(list)[p], Sorted(list)[q])
                        \/ Sorted(list)[p] = Sorted(list)[q]
<1> DEFINE at == DOMAIN list
           n == Len(list)
           before == ByItem(list)
           order == InOrderOf(at, before)
           sorted == Sorted(list)
<1>1. /\ n \in Nat /\ at = 1..n /\ list \in [1..n -> Item]
      /\ IsFiniteSet(at) /\ Cardinality(at) = n
      /\ StrictTotalOrder(at, before)
  BY PositionsAreOrdered
<1>2. \A i, j \in at : <<i, j>> \in before =>
         ItemBefore(list[i], list[j]) \/ list[i] = list[j]
  BY DEF ByItem
<1>3. sorted = [p \in 1..Cardinality(at) |-> list[order[p]]]
  BY DEF Sorted, Arranged
<1> HIDE DEF at, before
<1>4. /\ order \in [1..n -> at]
      /\ \A p, q \in 1..n : p < q => <<order[p], order[q]>> \in before
      /\ \A i \in at : \E p \in 1..n : order[p] = i
  BY <1>1, InOrderOfSet
<1> HIDE DEF order, sorted, n
<1>5. sorted = [p \in 1..n |-> list[order[p]]]
  BY <1>1, <1>3
<1>6. sorted \in [1..n -> Item]
  BY <1>1, <1>4, <1>5
<1>7. sorted \in Seq(Item) /\ Len(sorted) = n /\ DOMAIN sorted = 1..n
  BY <1>1, <1>6
<1>8. ToSet(sorted) = ToSet(list)
  <2>1. DOMAIN list = 1..n
    BY <1>1 DEF at
  <2>2. \A p \in 1..n : \E i \in 1..n : sorted[p] = list[i]
    BY <1>1, <1>4, <1>5
  <2>3. \A i \in 1..n : \E p \in 1..n : sorted[p] = list[i]
    BY <1>1, <1>4, <1>5
  <2>4. ToSet(sorted) = {sorted[p] : p \in 1..n}
    BY <1>7 DEF ToSet
  <2>5. ToSet(list) = {list[i] : i \in 1..n}
    BY <2>1 DEF ToSet
  <2> QED
    <3>1. \A x : x \in ToSet(sorted) <=> \E p \in 1..n : sorted[p] = x
      BY <2>4
    <3>2. \A x : x \in ToSet(list) <=> \E i \in 1..n : list[i] = x
      BY <2>5
    <3>3. \A x : x \in ToSet(sorted) <=> x \in ToSet(list)
      BY <2>2, <2>3, <3>1, <3>2, Zenon
    <3> QED
      BY <3>3
<1>9. \A p, q \in 1..n :
         p < q => ItemBefore(sorted[p], sorted[q]) \/ sorted[p] = sorted[q]
  BY <1>2, <1>4, <1>5
<1> QED
  BY <1>7, <1>8, <1>9 DEF sorted, n

(* A list in order is not changed by sorting it. *)
LEMMA SortedAlready ==
  ASSUME NEW list \in Seq(Item),
         \A p, q \in 1..Len(list) :
            p < q => ItemBefore(list[p], list[q]) \/ list[p] = list[q]
  PROVE  Sorted(list) = list
<1> DEFINE n == Len(list)
           at == DOMAIN list
           before == ByItem(list)
           order == [p \in 1..n |-> p]
<1>1. /\ n \in Nat /\ at = 1..n
      /\ IsFiniteSet(at) /\ Cardinality(at) = n
      /\ StrictTotalOrder(at, before)
  BY PositionsAreOrdered
<1>2. \A p, q \in 1..n : p < q => <<p, q>> \in before
  BY <1>1 DEF ByItem
<1>3. Sorted(list) =
         [p \in 1..Cardinality(at) |-> list[InOrderOf(at, before)[p]]]
  BY DEF Sorted, Arranged
<1> HIDE DEF before, at, n
<1>4. order = InOrderOf(at, before)
  <2>1. /\ order \in [1..n -> at]
        /\ \A p, q \in 1..n : p < q => <<order[p], order[q]>> \in before
        /\ \A i \in at : \E p \in 1..n : order[p] = i
    BY <1>1, <1>2
  <2> HIDE DEF order
  <2>2. Arranges(order, n, at, before)
    BY <2>1, Zenon DEF Arranges
  <2> QED
    BY <1>1, <2>2, OnlyArrangement
<1>5. Sorted(list) = [p \in 1..n |-> list[p]]
  BY <1>1, <1>3, <1>4
<1> QED
  BY <1>5 DEF n

(* If it has no item twice, sorting it is sorting and deduplicating it. *)
LEMMA SortedDistinct ==
  ASSUME NEW list \in Seq(Item),
         \A p, q \in 1..Len(list) :
            Sorted(list)[p] = Sorted(list)[q] => p = q
  PROVE  Sorted(list) = SortDedup(list)
<1> DEFINE n == Len(list)
           items == ToSet(list)
           before == ItemOrder(items)
           sorted == Sorted(list)
<1>1. /\ n \in Nat
      /\ items \in SUBSET Item /\ IsFiniteSet(items)
      /\ StrictTotalOrder(items, before)
  BY ItemsAreFinite, OrdersAreTotal
<1>2. /\ sorted \in Seq(Item) /\ Len(sorted) = n
      /\ ToSet(sorted) = items
      /\ \A p, q \in 1..n :
            p < q => ItemBefore(sorted[p], sorted[q]) \/ sorted[p] = sorted[q]
  BY SortedItems
<1>3. \A x, y \in items : ItemBefore(x, y) => <<x, y>> \in before
  BY DEF ItemOrder
<1>4. \A p, q \in 1..n : sorted[p] = sorted[q] => p = q
  OBVIOUS
<1>5. SortDedup(list) = InOrderOf(items, before)
  BY DEF SortDedup
<1> HIDE DEF sorted, items, before, n
<1>6. DOMAIN sorted = 1..n /\ sorted = [p \in 1..n |-> sorted[p]]
  BY <1>1, <1>2
<1>7. /\ \A p \in 1..n : sorted[p] \in items
      /\ \A x \in items : \E p \in 1..n : sorted[p] = x
  BY <1>2, <1>6 DEF ToSet
<1>8. sorted \in [1..n -> items]
  BY <1>6, <1>7
<1>9. \A p, q \in 1..n : p < q => <<sorted[p], sorted[q]>> \in before
  <2> SUFFICES ASSUME NEW p \in 1..n, NEW q \in 1..n, p < q
               PROVE  <<sorted[p], sorted[q]>> \in before
    OBVIOUS
  <2>1. sorted[p] # sorted[q]
    BY <1>4, <1>1
  <2> QED
    BY <1>2, <1>3, <1>7, <2>1
<1>10. sorted = InOrderOf(items, before)
  <2>1. Arranges(sorted, n, items, before)
    BY <1>7, <1>8, <1>9, Zenon DEF Arranges
  <2> QED
    BY <1>1, <2>1, OnlyArrangement
<1> QED
  BY <1>5, <1>10 DEF sorted

-----------------------------------------------------------------------------
(* Normal form *)

(* An item whose features are sorted and occur once each. *)
Tidy(item) == [item EXCEPT !.features = SortDedupNumbers(@)]

(* Tidying an item is done once and for all, and depends on which features *)
(* it has.                                                                 *)
LEMMA TidyItem ==
  /\ \A x \in Item :
        /\ Tidy(x) \in Item
        /\ Tidy(x).key = x.key
        /\ Tidy(x).features = SortDedupNumbers(x.features)
        /\ ToSet(Tidy(x).features) = ToSet(x.features)
        /\ Tidy(Tidy(x)) = Tidy(x)
  /\ \A x, y \in Item :
        x.key = y.key /\ ToSet(x.features) = ToSet(y.features)
           => Tidy(x) = Tidy(y)
<1>1. \A x \in Item : /\ x.key \in Seq(Nat) /\ x.features \in Seq(Nat)
                      /\ x = [key |-> x.key, features |-> x.features]
  BY DEF Item
<1>2. \A x \in Item :
         Tidy(x) = [key |-> x.key, features |-> SortDedupNumbers(x.features)]
  BY <1>1 DEF Tidy
<1>3. \A s \in Seq(Nat) : /\ SortDedupNumbers(s) \in Seq(Nat)
                          /\ ToSet(SortDedupNumbers(s)) = ToSet(s)
  BY SortDedupKeeps
<1>4. \A s, t : ToSet(s) = ToSet(t) => SortDedupNumbers(s) = SortDedupNumbers(t)
  BY DEF SortDedupNumbers
<1>5. \A x \in Item : Tidy(x) \in Item
  BY <1>1, <1>2, <1>3 DEF Item
<1>6. ASSUME NEW x \in Item
      PROVE  Tidy(Tidy(x)) = Tidy(x)
  <2>1. SortDedupNumbers(SortDedupNumbers(x.features))
           = SortDedupNumbers(x.features)
    BY <1>1, <1>3, <1>4
  <2>2. Tidy(Tidy(x)) = [key |-> Tidy(x).key,
                         features |-> SortDedupNumbers(Tidy(x).features)]
    BY <1>2, <1>5
  <2> QED
    BY <1>2, <2>1, <2>2
<1> QED
  BY <1>1, <1>2, <1>3, <1>4, <1>5, <1>6

(* The features of a list's items are sorted where they are. *)
LEMMA TidyList ==
  ASSUME NEW list \in Seq(Item)
  PROVE  /\ WithSortedFeatures(list) \in Seq(Item)
         /\ ToSet(WithSortedFeatures(list)) = {Tidy(x) : x \in ToSet(list)}
         /\ (\A x \in ToSet(list) : Tidy(x) = x)
               => WithSortedFeatures(list) = list
<1> DEFINE tidy == WithSortedFeatures(list)
           n == Len(list)
<1>1. /\ n \in Nat /\ DOMAIN list = 1..n
      /\ list = [i \in 1..n |-> list[i]]
      /\ \A i \in 1..n : list[i] \in Item
  OBVIOUS
<1>2. tidy = [i \in 1..n |-> Tidy(list[i])]
  BY <1>1 DEF WithSortedFeatures, Tidy
<1> HIDE DEF tidy, n
<1>3. tidy \in [1..n -> Item]
  BY <1>1, <1>2, TidyItem
<1>4. tidy \in Seq(Item) /\ DOMAIN tidy = 1..n
  BY <1>1, <1>3
<1>5. ToSet(tidy) = {Tidy(x) : x \in ToSet(list)}
  BY <1>1, <1>2, <1>4 DEF ToSet
<1>6. ASSUME \A x \in ToSet(list) : Tidy(x) = x
      PROVE  tidy = list
  <2>1. \A i \in 1..n : Tidy(list[i]) = list[i]
    BY <1>1, <1>6 DEF ToSet
  <2> QED
    BY <1>1, <1>2, <2>1
<1> QED
  BY <1>4, <1>5, <1>6 DEF tidy

(* A normalized list holds the items, tidied; it is normalized already;    *)
(* and it is the same for the same items, a node list being one that has   *)
(* no node twice.                                                          *)
LEMMA NormalList ==
  ASSUME NEW name, NEW list \in Seq(Item)
  PROVE  LET normal == NormalizedList(name, list)
         IN  /\ normal \in Seq(Item)
             /\ ToSet(normal) = {Tidy(x) : x \in ToSet(list)}
             /\ NormalizedList(name, normal) = normal
             /\ name # "nodes" \/ IdentitiesAreDistinct(normal)
                  => normal = SortDedup(WithSortedFeatures(list))
<1> DEFINE tidy == WithSortedFeatures(list)
           normal == NormalizedList(name, list)
<1>1. /\ tidy \in Seq(Item)
      /\ ToSet(tidy) = {Tidy(x) : x \in ToSet(list)}
  BY TidyList
<1>2. normal = IF name = "nodes" THEN Sorted(tidy) ELSE SortDedup(tidy)
  BY DEF NormalizedList
<1> HIDE DEF tidy, normal
<1>3. normal \in Seq(Item) /\ ToSet(normal) = ToSet(tidy)
  BY <1>1, <1>2, SortedItems, SortDedupKeeps
<1>4. WithSortedFeatures(normal) = normal
  <2>1. \A x \in ToSet(list) : x \in Item
    BY ItemsAreFinite
  <2>2. \A x \in ToSet(normal) : Tidy(x) = x
    BY <1>1, <1>3, <2>1, TidyItem
  <2> QED
    BY <1>3, <2>2, TidyList
<1>5. NormalizedList(name, normal) = normal
  <2>1. CASE name = "nodes"
    <3>1. /\ normal = Sorted(tidy)
          /\ Len(normal) = Len(tidy)
          /\ \A p, q \in 1..Len(normal) :
                p < q => \/ ItemBefore(normal[p], normal[q])
                         \/ normal[p] = normal[q]
      BY <1>1, <1>2, <2>1, SortedItems
    <3>2. Sorted(normal) = normal
      BY <1>3, <3>1, SortedAlready
    <3> QED
      BY <1>4, <2>1, <3>2 DEF NormalizedList
  <2>2. CASE name # "nodes"
    <3>1. SortDedup(normal) = SortDedup(tidy)
      BY <1>3 DEF SortDedup
    <3> QED
      BY <1>2, <1>4, <2>2, <3>1 DEF NormalizedList
  <2> QED
    BY <2>1, <2>2
<1>6. ASSUME name # "nodes" \/ IdentitiesAreDistinct(normal)
      PROVE  normal = SortDedup(tidy)
  <2>1. CASE name # "nodes"
    BY <1>2, <2>1
  <2>2. CASE name = "nodes"
    <3>1. /\ normal = Sorted(tidy) /\ Len(normal) = Len(tidy)
          /\ DOMAIN normal = 1..Len(tidy)
      BY <1>1, <1>2, <1>3, <2>2, SortedItems
    <3>2. \A p, q \in 1..Len(tidy) : Sorted(tidy)[p] = Sorted(tidy)[q] => p = q
      BY <1>6, <2>2, <3>1 DEF IdentitiesAreDistinct
    <3> QED
      BY <1>1, <3>1, <3>2, SortedDistinct
  <2> QED
    BY <2>1, <2>2
<1> QED
  BY <1>1, <1>3, <1>5, <1>6 DEF normal, tidy

-----------------------------------------------------------------------------
(* Documents *)

(* A document of the items, the filters and the digest given, for the rest *)
(* like another.                                                           *)
Like(doc, filters, lists, digest) ==
    [view |-> doc.view, scalars |-> doc.scalars,
     completeness |-> doc.completeness,
     parent_graph_digest |-> doc.parent_graph_digest,
     projection |-> [limited |-> doc.projection.limited, filters |-> filters],
     lists |-> lists, graph_digest |-> digest]

NormalLists(doc) ==
    [name \in ListNames |-> NormalizedList(name, doc.lists[name])]

(* The parts of a value of the Rust type. *)
LEMMA DocumentParts ==
  ASSUME NEW doc, IsDocument(doc)
  PROVE  /\ doc = Like(doc, doc.projection.filters, doc.lists,
                      doc.graph_digest)
         /\ doc.projection.filters \in Seq(Nat)
         /\ doc.projection.limited \in BOOLEAN
         /\ doc.lists \in [ListNames -> Seq(Item)]
         /\ \A name \in ListNames : doc.lists[name] \in Seq(Item)
<1>1. /\ doc.projection = [limited |-> doc.projection.limited,
                           filters |-> doc.projection.filters]
      /\ doc.projection.filters \in Seq(Nat)
      /\ doc.projection.limited \in BOOLEAN
  BY DEF IsDocument, Projection
<1>2. /\ doc.lists \in [ListNames -> Seq(Item)]
      /\ doc = [view |-> doc.view, scalars |-> doc.scalars,
                completeness |-> doc.completeness,
                parent_graph_digest |-> doc.parent_graph_digest,
                projection |-> doc.projection, lists |-> doc.lists,
                graph_digest |-> doc.graph_digest]
  BY DEF IsDocument
<1>3. \A name \in ListNames : doc.lists[name] \in Seq(Item)
  BY <1>2
<1> QED
  BY <1>1, <1>2, <1>3 DEF Like

(* Normalizing changes the lists and the filters, the payload drops the    *)
(* digest too.                                                             *)
LEMMA NormalDocument ==
  ASSUME NEW doc, IsDocument(doc)
  PROVE  /\ Normalized(doc) =
               Like(doc, SortDedupNumbers(doc.projection.filters),
                    NormalLists(doc), doc.graph_digest)
         /\ Payload(doc) =
               Like(doc, SortDedupNumbers(doc.projection.filters),
                    NormalLists(doc), NoDigest)
<1> DEFINE lists == NormalLists(doc)
           filters == SortDedupNumbers(doc.projection.filters)
<1>1. doc = Like(doc, doc.projection.filters, doc.lists, doc.graph_digest)
  BY DocumentParts
<1>2. Normalized(doc) = [doc EXCEPT !.lists = lists,
                                    !.projection.filters = filters]
  BY DEF Normalized, NormalLists
<1> HIDE DEF lists, filters
<1>3. Normalized(doc) = Like(doc, filters, lists, doc.graph_digest)
  <2> DEFINE old == doc.projection.filters
             before == doc.lists
             digest == doc.graph_digest
             like == Like(doc, old, before, digest)
             changed == [like EXCEPT !.lists = lists,
                                     !.projection.filters = filters]
  <2>1. like = doc
    BY <1>1
  <2> HIDE DEF old, before, digest
  <2>2. [like EXCEPT !.lists = lists] = Like(doc, old, lists, digest)
    BY DEF Like
  <2>3. [Like(doc, old, lists, digest) EXCEPT !.projection.filters = filters]
        = Like(doc, filters, lists, digest)
    BY DEF Like
  <2>4. changed = [[like EXCEPT !.lists = lists]
                      EXCEPT !.projection.filters = filters]
    OBVIOUS
  <2>5. changed = Like(doc, filters, lists, digest)
    BY <2>2, <2>3, <2>4
  <2> HIDE DEF like
  <2>6. Normalized(doc) = changed
    BY <1>2, <2>1
  <2> HIDE DEF changed
  <2> QED
    BY <2>5, <2>6 DEF digest
<1>4. Payload(doc) = Like(doc, filters, lists, NoDigest)
  BY <1>3 DEF Payload, Like
<1> QED
  BY <1>3, <1>4 DEF lists, filters


(* A normalized list of no items has none. *)
LEMMA EmptyList ==
  ASSUME NEW name
  PROVE  NormalizedList(name, <<>>) = <<>>
<1> DEFINE normal == NormalizedList(name, <<>>)
<1>1. <<>> \in Seq(Item) /\ ToSet(<<>>) = {}
  BY DEF ToSet
<1>2. normal \in Seq(Item) /\ ToSet(normal) = {Tidy(x) : x \in ToSet(<<>>)}
  BY <1>1, NormalList
<1> HIDE DEF normal
<1>3. ToSet(normal) = {}
  BY <1>1, <1>2
<1>4. DOMAIN normal = {}
  BY <1>3 DEF ToSet
<1>5. Len(normal) \in Nat /\ DOMAIN normal = 1..Len(normal)
  BY <1>2
<1>6. Len(normal) = 0
  BY <1>4, <1>5
<1> QED
  BY <1>2, <1>6 DEF normal

(* Normalizing, once or more often, keeps a document's type and meaning.   *)
LEMMA NormalForm ==
  ASSUME NEW doc, IsDocument(doc)
  PROVE  /\ IsDocument(Normalized(doc)) /\ IsDocument(Payload(doc))
         /\ Normalized(Normalized(doc)) = Normalized(doc)
         /\ Normalized(doc).graph_digest = doc.graph_digest
         /\ Payload(Normalized(doc)) = Payload(doc)
         /\ Payload(Payload(doc)) = Payload(doc)
         /\ Meaning(Normalized(doc)) = Meaning(doc)
         /\ Meaning(Payload(doc)) = Meaning(doc)
<1> DEFINE filters == SortDedupNumbers(doc.projection.filters)
           lists == NormalLists(doc)
           like(digest) == Like(doc, filters, lists, digest)
<1>1. /\ Normalized(doc) = like(doc.graph_digest)
      /\ Payload(doc) = like(NoDigest)
  BY NormalDocument
<1>2. /\ doc.projection.filters \in Seq(Nat)
      /\ doc.projection.limited \in BOOLEAN
      /\ doc.lists \in [ListNames -> Seq(Item)]
      /\ \A name \in ListNames : doc.lists[name] \in Seq(Item)
  BY DocumentParts
<1>3. /\ filters \in Seq(Nat)
      /\ ToSet(filters) = ToSet(doc.projection.filters)
      /\ SortDedupNumbers(filters) = filters
  <2>1. filters \in Seq(Nat) /\ ToSet(filters) = ToSet(doc.projection.filters)
    BY <1>2, SortDedupKeeps
  <2> QED
    BY <2>1 DEF SortDedupNumbers
<1>4. \A name \in ListNames :
         /\ lists[name] = NormalizedList(name, doc.lists[name])
         /\ lists[name] \in Seq(Item)
         /\ ToSet(lists[name]) = {Tidy(x) : x \in ToSet(doc.lists[name])}
         /\ NormalizedList(name, lists[name]) = lists[name]
  <2> SUFFICES ASSUME NEW name \in ListNames
               PROVE  /\ lists[name] = NormalizedList(name, doc.lists[name])
                      /\ lists[name] \in Seq(Item)
                      /\ ToSet(lists[name])
                            = {Tidy(x) : x \in ToSet(doc.lists[name])}
                      /\ NormalizedList(name, lists[name]) = lists[name]
    OBVIOUS
  <2>1. lists[name] = NormalizedList(name, doc.lists[name])
    BY DEF NormalLists
  <2> HIDE DEF lists
  <2> QED
    BY <1>2, <2>1, NormalList
<1>5. lists = [name \in ListNames |-> lists[name]]
  BY DEF NormalLists
<1> HIDE DEF filters, lists
<1>6. lists \in [ListNames -> Seq(Item)]
  BY <1>4, <1>5
<1>7. IsDigest(NoDigest) /\ IsDigest(doc.graph_digest)
  BY DEF IsDocument, IsDigest, NoDigest
<1>8. \A name \in ListNames :
         (name = "dependencies") # (doc.view = "declared") => lists[name] = <<>>
  BY <1>4, EmptyList DEF IsDocument
<1>9. ASSUME NEW digest, IsDigest(digest)
      PROVE  IsDocument(like(digest))
  <2>1. [limited |-> doc.projection.limited, filters |-> filters] \in Projection
    BY <1>2, <1>3 DEF Projection
  <2> QED
    BY <1>6, <1>8, <1>9, <2>1 DEF IsDocument, Like
<1>10. ASSUME NEW digest, IsDigest(digest)
       PROVE  /\ Normalized(like(digest)) = like(digest)
              /\ Payload(like(digest)) = like(NoDigest)
              /\ like(digest).graph_digest = digest
  <2>1. /\ like(digest).projection.filters = filters
        /\ like(digest).projection.limited = doc.projection.limited
        /\ like(digest).lists = lists
        /\ like(digest).graph_digest = digest
        /\ \A d : Like(like(digest), filters, lists, d) = like(d)
    BY DEF Like
  <2>2. NormalLists(like(digest)) = lists
    BY <1>4, <1>5, <2>1 DEF NormalLists
  <2>3. IsDocument(like(digest))
    BY <1>9, <1>10
  <2> HIDE DEF like
  <2> QED
    BY <1>3, <2>1, <2>2, <2>3, NormalDocument
<1>11. ASSUME NEW digest
       PROVE  Meaning(like(digest)) = Meaning(doc)
  <2> DEFINE said(list) == {<<item.key, ToSet(item.features)>> :
                              item \in ToSet(list)}
  <2>1. ASSUME NEW name \in ListNames
        PROVE  said(lists[name]) = said(doc.lists[name])
    <3>1. \A x \in ToSet(doc.lists[name]) :
             /\ Tidy(x).key = x.key
             /\ ToSet(Tidy(x).features) = ToSet(x.features)
      BY <1>2, ItemsAreFinite, TidyItem
    <3> QED
      BY <1>4, <3>1, SMTT(30)
  <2>2. /\ [name \in ListNames |-> said(lists[name])]
             = [name \in ListNames |-> said(doc.lists[name])]
    BY <2>1
  <2>3. Meaning(doc) =
           [view |-> doc.view, scalars |-> doc.scalars,
            completeness |-> doc.completeness,
            parent_graph_digest |-> doc.parent_graph_digest,
            limited |-> doc.projection.limited,
            filters |-> ToSet(doc.projection.filters),
            lists |-> [name \in ListNames |-> said(doc.lists[name])]]
    BY DEF Meaning
  <2>4. Meaning(like(digest)) =
           [view |-> doc.view, scalars |-> doc.scalars,
            completeness |-> doc.completeness,
            parent_graph_digest |-> doc.parent_graph_digest,
            limited |-> doc.projection.limited,
            filters |-> ToSet(filters),
            lists |-> [name \in ListNames |-> said(lists[name])]]
    BY DEF Meaning, Like
  <2> HIDE DEF said
  <2> QED
    BY <1>3, <2>2, <2>3, <2>4
<1> QED
  <2>1. Normalized(doc).graph_digest = doc.graph_digest
    BY <1>1 DEF Like
  <2> HIDE DEF like
  <2> QED
    BY <1>1, <1>7, <1>9, <1>10, <1>11, <2>1

(* Documents that say the same have the same payload, if their payloads    *)
(* are sound: no node occurs twice in them.                                *)
LEMMA MeaningNamesPayload ==
  ASSUME NEW d, NEW e, IsDocument(d), IsDocument(e),
         StructureIsSound(Payload(d)), StructureIsSound(Payload(e)),
         Meaning(d) = Meaning(e)
  PROVE  Payload(d) = Payload(e)
<1> DEFINE said(list) == {<<item.key, ToSet(item.features)>> :
                            item \in ToSet(list)}
<1>1. /\ d.view = e.view /\ d.scalars = e.scalars
      /\ d.completeness = e.completeness
      /\ d.parent_graph_digest = e.parent_graph_digest
      /\ d.projection.limited = e.projection.limited
      /\ ToSet(d.projection.filters) = ToSet(e.projection.filters)
      /\ \A name \in ListNames : said(d.lists[name]) = said(e.lists[name])
  <2>1. \A doc :
           /\ Meaning(doc).view = doc.view
           /\ Meaning(doc).scalars = doc.scalars
           /\ Meaning(doc).completeness = doc.completeness
           /\ Meaning(doc).parent_graph_digest = doc.parent_graph_digest
           /\ Meaning(doc).limited = doc.projection.limited
           /\ Meaning(doc).filters = ToSet(doc.projection.filters)
    BY DEF Meaning
  <2>2. \A doc : \A name \in ListNames :
           Meaning(doc).lists[name] = said(doc.lists[name])
    BY DEF Meaning
  <2> HIDE DEF said
  <2> QED
    BY <2>1, <2>2
<1>2. ASSUME NEW doc, IsDocument(doc), StructureIsSound(Payload(doc)),
             NEW name \in ListNames
      PROVE  NormalizedList(name, doc.lists[name])
                = SortDedup(WithSortedFeatures(doc.lists[name]))
  <2> DEFINE normal == NormalizedList(name, doc.lists[name])
  <2>1. /\ doc.lists[name] \in Seq(Item)
        /\ Payload(doc).view = doc.view
        /\ Payload(doc).lists[name] = normal
    <3>1. Payload(doc) = Like(doc, SortDedupNumbers(doc.projection.filters),
                              NormalLists(doc), NoDigest)
      BY <1>2, NormalDocument
    <3> QED
      BY <1>2, <3>1, DocumentParts DEF Like, NormalLists
  <2>2. name # "nodes" \/ IdentitiesAreDistinct(normal)
           => normal = SortDedup(WithSortedFeatures(doc.lists[name]))
    <3>1. doc.lists[name] \in Seq(Item)
      BY <2>1
    <3> QED
      BY <3>1, NormalList
  <2>3. doc.lists[name] = <<>> => normal = <<>>
    BY EmptyList
  <2> HIDE DEF normal
  <2>4. ASSUME name = "nodes"
        PROVE  IdentitiesAreDistinct(normal)
    <3>1. CASE doc.view = "resolved"
      BY <1>2, <2>1, <2>4, <3>1 DEF StructureIsSound
    <3>2. CASE doc.view # "resolved"
      <4>1. doc.lists[name] = <<>>
        BY <1>2, <2>4, <3>2 DEF IsDocument
      <4> QED
        BY <2>3, <4>1 DEF IdentitiesAreDistinct
    <3> QED
      BY <3>1, <3>2
  <2>5. NormalizedList(name, doc.lists[name]) = normal
    BY DEF normal
  <2> QED
    BY <2>2, <2>4, <2>5
<1>3. ASSUME NEW name \in ListNames
      PROVE  SortDedup(WithSortedFeatures(d.lists[name]))
                = SortDedup(WithSortedFeatures(e.lists[name]))
  <2> DEFINE f == d.lists[name]
             g == e.lists[name]
  <2>1. /\ f \in Seq(Item) /\ g \in Seq(Item)
        /\ ToSet(f) \in SUBSET Item /\ ToSet(g) \in SUBSET Item
        /\ said(f) = said(g)
    BY <1>1, DocumentParts, ItemsAreFinite
  <2> HIDE DEF f, g
  <2>2. \A x \in ToSet(f) : \E y \in ToSet(g) :
           x.key = y.key /\ ToSet(x.features) = ToSet(y.features)
    <3> SUFFICES ASSUME NEW x \in ToSet(f)
                 PROVE  \E y \in ToSet(g) :
                           /\ x.key = y.key
                           /\ ToSet(x.features) = ToSet(y.features)
      OBVIOUS
    <3>1. <<x.key, ToSet(x.features)>> \in said(g)
      BY <2>1
    <3> QED
      BY <3>1
  <2>3. \A y \in ToSet(g) : \E x \in ToSet(f) :
           x.key = y.key /\ ToSet(x.features) = ToSet(y.features)
    <3> SUFFICES ASSUME NEW y \in ToSet(g)
                 PROVE  \E x \in ToSet(f) :
                           /\ x.key = y.key
                           /\ ToSet(x.features) = ToSet(y.features)
      OBVIOUS
    <3>1. <<y.key, ToSet(y.features)>> \in said(f)
      BY <2>1
    <3> QED
      BY <3>1
  <2>4. {Tidy(x) : x \in ToSet(f)} = {Tidy(y) : y \in ToSet(g)}
    <3>1. \A x \in ToSet(f) : \E y \in ToSet(g) : Tidy(x) = Tidy(y)
      BY <2>1, <2>2, TidyItem
    <3>2. \A y \in ToSet(g) : \E x \in ToSet(f) : Tidy(x) = Tidy(y)
      BY <2>1, <2>3, TidyItem
    <3> QED
      BY <3>1, <3>2
  <2>5. ToSet(WithSortedFeatures(f)) = ToSet(WithSortedFeatures(g))
    BY <2>1, <2>4, TidyList
  <2> QED
    BY <2>5 DEF SortDedup, f, g
<1> HIDE DEF said
<1>4. NormalLists(d) = NormalLists(e)
  BY <1>2, <1>3 DEF NormalLists
<1>5. SortDedupNumbers(d.projection.filters)
         = SortDedupNumbers(e.projection.filters)
  BY <1>1 DEF SortDedupNumbers
<1>6. \A filters, lists, digest :
         Like(d, filters, lists, digest) = Like(e, filters, lists, digest)
  BY <1>1 DEF Like
<1> QED
  BY <1>4, <1>5, <1>6, NormalDocument

(* A digest names what a document says, of documents whose payload is      *)
(* sound.                                                                  *)
LEMMA DigestsNameMeanings ==
  ASSUME NEW d, NEW e, IsDocument(d), IsDocument(e)
  PROVE  /\ Digest(d) = Digest(e) => Meaning(d) = Meaning(e)
         /\ /\ StructureIsSound(Payload(d)) /\ StructureIsSound(Payload(e))
            /\ Meaning(d) = Meaning(e)
            => Digest(d) = Digest(e)
<1>1. \A x, y : <<x>> = <<y>> => x = y
  OBVIOUS
<1>2. Digest(d) = Digest(e) => Payload(d) = Payload(e)
  BY <1>1 DEF Digest
<1>3. Meaning(Payload(d)) = Meaning(d) /\ Meaning(Payload(e)) = Meaning(e)
  BY NormalForm
<1> QED
  BY <1>2, <1>3, MeaningNamesPayload DEF Digest

-----------------------------------------------------------------------------
(* The invariant *)

IsBytes(bytes) ==
    /\ bytes = [form |-> bytes.form, document |-> bytes.document]
    /\ bytes.form \in {"canonical", "other", "garbage"}
    /\ IsDocument(bytes.document)

(* Everyone holds documents, and what was accepted would be again. *)
IInv ==
    /\ draft = [p \in Producers |-> draft[p]]
    /\ \A p \in Producers : IsDocument(draft[p])
    /\ wire = Nothing \/ IsBytes(wire)
    /\ \A bytes \in accepted : IsBytes(bytes) /\ StrictProblem(bytes) = "ok"

Parts(view, scalars, completeness, parent, projection, lists, digest) ==
    [view |-> view, scalars |-> scalars,
     completeness |-> completeness, parent_graph_digest |-> parent,
     projection |-> projection, lists |-> lists, graph_digest |-> digest]

(* Changing one field or one list leaves a document one. *)
LEMMA ChangedDocument ==
  ASSUME NEW doc, IsDocument(doc)
  PROVE  /\ \A digest : IsDigest(digest) =>
               /\ IsDocument([doc EXCEPT !.graph_digest = digest])
               /\ IsDocument([doc EXCEPT !.parent_graph_digest = digest])
         /\ IsDocument([doc EXCEPT !.completeness = "projected"])
         /\ \A filter \in Projection :
               IsDocument([doc EXCEPT !.projection = filter])
         /\ \A name \in ListNames : \A list \in Seq(Item) :
               \/ list = <<>>
               \/ (name = "dependencies") = (doc.view = "declared")
               => IsDocument([doc EXCEPT !.lists[name] = list])
<1> DEFINE whole(completeness, parent, projection, lists, digest) ==
             Parts(doc.view, doc.scalars, completeness, parent, projection,
                   lists, digest)
           same == whole(doc.completeness, doc.parent_graph_digest,
                         doc.projection, doc.lists, doc.graph_digest)
<1>1. same = doc
  BY DEF IsDocument, Parts
<1>2. ASSUME NEW completeness \in {"complete", "projected"},
             NEW parent, IsDigest(parent), NEW projection \in Projection,
             NEW lists \in [ListNames -> Seq(Item)],
             \A name \in ListNames :
                (name = "dependencies") # (doc.view = "declared")
                   => lists[name] = <<>>,
             NEW digest, IsDigest(digest)
      PROVE  IsDocument(whole(completeness, parent, projection, lists, digest))
  BY <1>2 DEF IsDocument, Parts
<1>3. /\ doc.completeness \in {"complete", "projected"}
      /\ IsDigest(doc.parent_graph_digest) /\ IsDigest(doc.graph_digest)
      /\ doc.projection \in Projection
      /\ doc.lists \in [ListNames -> Seq(Item)]
      /\ \A name \in ListNames :
            (name = "dependencies") # (doc.view = "declared")
               => doc.lists[name] = <<>>
  BY DEF IsDocument
<1>4. ASSUME NEW digest, IsDigest(digest)
      PROVE  /\ IsDocument([doc EXCEPT !.graph_digest = digest])
             /\ IsDocument([doc EXCEPT !.parent_graph_digest = digest])
  <2>1. /\ [same EXCEPT !.graph_digest = digest]
              = whole(doc.completeness, doc.parent_graph_digest,
                      doc.projection, doc.lists, digest)
        /\ [same EXCEPT !.parent_graph_digest = digest]
              = whole(doc.completeness, digest,
                      doc.projection, doc.lists, doc.graph_digest)
    BY DEF Parts
  <2> HIDE DEF whole
  <2>2. /\ IsDocument([same EXCEPT !.graph_digest = digest])
        /\ IsDocument([same EXCEPT !.parent_graph_digest = digest])
    BY <1>2, <1>3, <1>4, <2>1
  <2> HIDE DEF same
  <2> QED
    BY <1>1, <2>2
<1>5. IsDocument([doc EXCEPT !.completeness = "projected"])
  <2>1. [same EXCEPT !.completeness = "projected"]
           = whole("projected", doc.parent_graph_digest,
                   doc.projection, doc.lists, doc.graph_digest)
    BY DEF Parts
  <2> HIDE DEF whole
  <2>2. IsDocument([same EXCEPT !.completeness = "projected"])
    BY <1>2, <1>3, <2>1
  <2> HIDE DEF same
  <2> QED
    BY <1>1, <2>2
<1>6. ASSUME NEW filter \in Projection
      PROVE  IsDocument([doc EXCEPT !.projection = filter])
  <2>1. [same EXCEPT !.projection = filter]
           = whole(doc.completeness, doc.parent_graph_digest,
                   filter, doc.lists, doc.graph_digest)
    BY DEF Parts
  <2> HIDE DEF whole
  <2>2. IsDocument([same EXCEPT !.projection = filter])
    BY <1>2, <1>3, <2>1
  <2> HIDE DEF same
  <2> QED
    BY <1>1, <2>2
<1>7. ASSUME NEW name \in ListNames, NEW list \in Seq(Item),
             list = <<>> \/ (name = "dependencies") = (doc.view = "declared")
      PROVE  IsDocument([doc EXCEPT !.lists[name] = list])
  <2> DEFINE lists == [doc.lists EXCEPT ![name] = list]
  <2>1. [same EXCEPT !.lists[name] = list]
           = whole(doc.completeness, doc.parent_graph_digest,
                   doc.projection, lists, doc.graph_digest)
    BY DEF Parts
  <2>2. /\ lists \in [ListNames -> Seq(Item)]
        /\ \A other \in ListNames :
              (other = "dependencies") # (doc.view = "declared")
                 => lists[other] = <<>>
    BY <1>3, <1>7
  <2> HIDE DEF whole, lists
  <2>3. IsDocument(whole(doc.completeness, doc.parent_graph_digest,
                         doc.projection, lists, doc.graph_digest))
    BY <1>2, <1>3, <2>2
  <2>4. IsDocument([same EXCEPT !.lists[name] = list])
    BY <2>1, <2>3
  <2> HIDE DEF same
  <2> QED
    BY <1>1, <2>4
<1> QED
  BY <1>4, <1>5, <1>6, <1>7

LEMMA ChangedDigest ==
  ASSUME NEW doc, IsDocument(doc), NEW digest, IsDigest(digest)
  PROVE  IsDocument([doc EXCEPT !.graph_digest = digest])
BY ChangedDocument, Zenon

LEMMA ChangedList ==
  ASSUME NEW doc, IsDocument(doc), NEW name \in ListNames,
         NEW list \in Seq(Item),
         list = <<>> \/ (name = "dependencies") = (doc.view = "declared")
  PROVE  IsDocument([doc EXCEPT !.lists[name] = list])
BY ChangedDocument, Zenon

LEMMA ProjectedDocument ==
  ASSUME NEW doc, IsDocument(doc), NEW filter \in Projection
  PROVE  IsDocument([doc EXCEPT !.completeness = "projected",
                       !.parent_graph_digest = doc.graph_digest,
                       !.projection = filter,
                       !.lists["edges"] = <<>>])
<1> DEFINE first == [doc EXCEPT !.completeness = "projected"]
           second == [first EXCEPT !.parent_graph_digest = doc.graph_digest]
           third == [second EXCEPT !.projection = filter]
           fourth == [third EXCEPT !.lists["edges"] = <<>>]
<1>1. IsDocument(first) /\ IsDigest(doc.graph_digest)
  BY ChangedDocument DEF IsDocument
<1>2. ASSUME NEW d, IsDocument(d)
      PROVE  /\ IsDocument([d EXCEPT !.parent_graph_digest = doc.graph_digest])
             /\ IsDocument([d EXCEPT !.projection = filter])
             /\ IsDocument([d EXCEPT !.lists["edges"] = <<>>])
  <2>1. "edges" \in ListNames /\ <<>> \in Seq(Item)
    BY DEF ListNames
  <2> QED
    BY <1>1, <1>2, <2>1, ChangedDocument
<1> HIDE DEF first
<1>3. IsDocument(second)
  BY <1>1, <1>2
<1> HIDE DEF second
<1>4. IsDocument(third)
  BY <1>2, <1>3
<1> HIDE DEF third
<1>5. IsDocument(fourth)
  BY <1>2, <1>4
<1> QED
  BY <1>5 DEF first, second, third

(* A producer's document is replaced, the others keep theirs. *)
LEMMA ReplacedDraft ==
  ASSUME IInv, NEW p \in Producers, NEW doc, IsDocument(doc),
         draft' = [draft EXCEPT ![p] = doc], UNCHANGED <<wire, accepted>>
  PROVE  IInv'
<1>1. \A q \in Producers : draft'[q] = IF q = p THEN doc ELSE draft[q]
  BY DEF IInv
<1>2. draft' = [q \in Producers |-> draft'[q]]
  BY DEF IInv
<1>3. /\ wire' = Nothing \/ IsBytes(wire')
      /\ \A bytes \in accepted' :
            IsBytes(bytes) /\ StrictProblem(bytes) = "ok"
  BY DEF IInv
<1>4. \A q \in Producers : IsDocument(draft'[q])
  BY <1>1 DEF IInv
<1> QED
  BY <1>2, <1>3, <1>4 DEF IInv

(* The bytes on the wire change. *)
LEMMA ReplacedWire ==
  ASSUME IInv, IsBytes(wire'), UNCHANGED <<draft, accepted>>
  PROVE  IInv'
BY DEF IInv

(* Reversing a list. *)
LEMMA ReversedList ==
  ASSUME NEW list \in Seq(Item)
  PROVE  Reverse(list) \in Seq(Item) /\ (list = <<>> => Reverse(list) = <<>>)
BY DEF Reverse

LEMMA InvariantHolds == Spec => []IInv
<1> USE DocumentsAssumption
<1>1. Init => IInv
  BY DEF Init, IInv
<1>2. IInv /\ [Next]_vars => IInv'
  <2> SUFFICES ASSUME IInv, [Next]_vars
               PROVE  IInv'
    OBVIOUS
  <2>1. ASSUME NEW p \in Producers, NEW doc \in Starts, Start(p, doc)
        PROVE  IInv'
    BY <2>1, ReplacedDraft DEF Start
  <2>2. ASSUME NEW p \in Producers, NEW name \in ListNames,
               NEW item \in Offered[name], Add(p, name, item)
        PROVE  IInv'
    <3> DEFINE list == Append(draft[p].lists[name], item)
               doc == [draft[p] EXCEPT !.lists[name] = list]
    <3>1. IsDocument(draft[p]) /\ draft[p].lists[name] \in Seq(Item)
      BY DocumentParts DEF IInv
    <3>2. item \in Item
      OBVIOUS
    <3>3. list \in Seq(Item)
      BY <3>1, <3>2
    <3>4. draft' = [draft EXCEPT ![p] = doc]
      BY <2>2 DEF Add
    <3> HIDE DEF list
    <3>5. IsDocument(doc)
      BY <2>2, <3>1, <3>3, ChangedList, Zenon DEF Add
    <3> HIDE DEF doc
    <3> QED
      BY <2>2, <3>4, <3>5, ReplacedDraft DEF Add
  <2>3. ASSUME NEW p \in Producers, NEW filter \in Filters,
               Project(p, filter)
        PROVE  IInv'
    <3> DEFINE doc == [draft[p] EXCEPT
                          !.completeness = "projected",
                          !.parent_graph_digest = draft[p].graph_digest,
                          !.projection = filter,
                          !.lists["edges"] = <<>>]
    <3>1. IsDocument(draft[p]) /\ filter \in Projection
      BY DEF IInv
    <3>2. IsDocument(doc)
      BY <2>3, <3>1, ProjectedDocument, Zenon DEF Project
    <3>3. draft' = [draft EXCEPT ![p] = doc] /\ UNCHANGED <<wire, accepted>>
      BY <2>3 DEF Project
    <3> HIDE DEF doc
    <3> QED
      BY <3>2, <3>3, ReplacedDraft
  <2>4. ASSUME NEW p \in Producers, Finalize(p)
        PROVE  IInv'
    <3>1. IsDocument(Payload(draft[p]))
      BY NormalForm DEF IInv
    <3>2. IsDigest(Digest(Payload(draft[p])))
      BY DEF IsDigest, Digest
    <3>3. IsDocument(Finalized(draft[p]))
      BY <3>1, <3>2, ChangedDigest, Zenon DEF Finalized
    <3> QED
      BY <2>4, <3>3, ReplacedDraft DEF Finalize
  <2>5. ASSUME NEW p \in Producers, Send(p)
        PROVE  IInv'
    <3>1. IsDocument(Normalized(draft[p]))
      BY NormalForm DEF IInv
    <3>2. IsBytes(Encoding(draft[p]))
      BY <3>1 DEF IsBytes, Encoding
    <3> QED
      BY <2>5, <3>2, ReplacedWire DEF Send
  <2>6. ASSUME NEW p \in Producers, Load(p)
        PROVE  IInv'
    <3>1. IsDocument(wire.document)
      BY <2>6 DEF Load, Readable, IInv, IsBytes
    <3> QED
      BY <2>6, <3>1, ReplacedDraft DEF Load
  <2>7. ASSUME NEW form \in {"canonical", "other", "garbage"}, Respell(form)
        PROVE  IInv'
    <3>1. IsBytes(wire)
      BY <2>7 DEF Respell, Readable, IInv
    <3>2. IsBytes(wire')
      BY <2>7, <3>1 DEF Respell, IsBytes
    <3> QED
      BY <2>7, <3>2, ReplacedWire DEF Respell
  <2>8. ASSUME NEW name \in ListNames, TurnRound(name)
        PROVE  IInv'
    <3> DEFINE old == wire.document
               list == Reverse(old.lists[name])
               doc == [old EXCEPT !.lists[name] = list]
               bytes == [form |-> wire.form, document |-> old]
    <3>1. /\ bytes = wire /\ IsDocument(old)
          /\ wire.form \in {"canonical", "other", "garbage"}
      BY <2>8 DEF TurnRound, Readable, IInv, IsBytes
    <3>2. list \in Seq(Item) /\ (old.lists[name] = <<>> => list = <<>>)
      BY <3>1, DocumentParts, ReversedList
    <3>3. wire' = [wire EXCEPT !.document.lists[name] = list]
      BY <2>8 DEF TurnRound
    <3>4. \/ old.lists[name] = <<>>
          \/ (name = "dependencies") = (old.view = "declared")
      BY <3>1 DEF IsDocument
    <3> HIDE DEF list, old
    <3>5. IsDocument(doc)
      BY <3>1, <3>2, <3>4, ChangedList, Zenon
    <3>6. [bytes EXCEPT !.document.lists[name] = list]
             = [form |-> wire.form, document |-> doc]
      OBVIOUS
    <3> HIDE DEF bytes, doc
    <3>7. wire' = [form |-> wire.form, document |-> doc]
      BY <3>1, <3>3, <3>6
    <3>8. IsBytes(wire')
      BY <3>1, <3>5, <3>7 DEF IsBytes
    <3> QED
      BY <2>8, <3>8, ReplacedWire DEF TurnRound
  <2>9. CASE DropDigest
    <3> DEFINE old == wire.document
               doc == [old EXCEPT !.graph_digest = NoDigest]
               bytes == [form |-> wire.form, document |-> old]
    <3>1. /\ bytes = wire /\ IsDocument(old)
          /\ wire.form \in {"canonical", "other", "garbage"}
      BY <2>9 DEF DropDigest, Readable, IInv, IsBytes
    <3>2. IsDocument(doc)
      <4>1. IsDigest(NoDigest)
        BY DEF IsDigest, NoDigest
      <4> QED
        BY <3>1, <4>1, ChangedDigest, Zenon
    <3>3. wire' = [wire EXCEPT !.document.graph_digest = NoDigest]
      BY <2>9 DEF DropDigest
    <3> HIDE DEF old
    <3>4. [bytes EXCEPT !.document.graph_digest = NoDigest]
             = [form |-> wire.form, document |-> doc]
      OBVIOUS
    <3> HIDE DEF bytes, doc
    <3>5. wire' = [form |-> wire.form, document |-> doc]
      BY <3>1, <3>3, <3>4
    <3>6. IsBytes(wire')
      BY <3>1, <3>2, <3>5 DEF IsBytes
    <3> QED
      BY <2>9, <3>6, ReplacedWire DEF DropDigest
  <2>10. CASE Verify
    <3>1. IsBytes(wire) /\ StrictProblem(wire) = "ok"
      BY <2>10 DEF Verify, IInv
    <3> QED
      BY <2>10, <3>1 DEF Verify, IInv
  <2>11. CASE UNCHANGED vars
    BY <2>11 DEF vars, IInv
  <2> QED
    BY <2>1, <2>2, <2>3, <2>4, <2>5, <2>6, <2>7, <2>8, <2>9, <2>10, <2>11
       DEF Next
<1> QED
  BY <1>1, <1>2, PTL DEF Spec

-----------------------------------------------------------------------------
(* What the run checks, for every value of the constants *)

(* A digest names what a document says, of any two documents held by       *)
(* anyone (compute_graph_digest, normalize_in_place).                      *)
THEOREM DigestsNameMeaning == Spec => []DigestNamesMeaning
<1>1. IInv => DigestNamesMeaning
  <2> SUFFICES ASSUME IInv, NEW d \in Held, NEW e \in Held,
                      StructureIsSound(Payload(d)),
                      StructureIsSound(Payload(e))
               PROVE  Digest(d) = Digest(e) <=> Meaning(d) = Meaning(e)
    BY DEF DigestNamesMeaning
  <2>1. \A doc \in Held : IsDocument(doc)
    BY DEF Held, Readable, IInv, IsBytes
  <2> QED
    BY <2>1, DigestsNameMeanings
<1> QED
  BY <1>1, InvariantHolds, PTL

(* A document that validates carries no digest, or the one it has.         *)
LEMMA SoundDocument ==
  ASSUME NEW doc, Problem(doc) = "ok", doc.graph_digest # NoDigest
  PROVE  StructureIsSound(Payload(doc)) /\ doc.graph_digest = Digest(doc)
BY DEF Problem

(* Bytes that are accepted encode a document whose digest is its own.      *)
LEMMA AcceptedBytes ==
  ASSUME NEW bytes, StrictProblem(bytes) = "ok"
  PROVE  /\ bytes = Encoding(bytes.document)
         /\ StructureIsSound(Payload(bytes.document))
         /\ bytes.document.graph_digest = Digest(bytes.document)
<1>1. DigestProblem(bytes.document) = "ok" /\ bytes = Encoding(bytes.document)
  BY DEF StrictProblem
<1>2. /\ bytes.document.graph_digest # NoDigest
      /\ Problem(bytes.document) = "ok"
  BY <1>1 DEF DigestProblem
<1> QED
  BY <1>1, <1>2, SoundDocument

(* Documents of one payload and one digest have one encoding. *)
LEMMA SamePayloadSameEncoding ==
  ASSUME NEW d, NEW e, IsDocument(d), IsDocument(e),
         Payload(d) = Payload(e), d.graph_digest = e.graph_digest
  PROVE  Encoding(d) = Encoding(e)
<1>1. ASSUME NEW doc, IsDocument(doc)
      PROVE  Normalized(doc) =
                [Payload(doc) EXCEPT !.graph_digest = doc.graph_digest]
  BY <1>1, NormalDocument DEF Like
<1>2. Normalized(d) = Normalized(e)
  BY <1>1
<1> QED
  BY <1>2 DEF Encoding

(* What can be encoded is accepted where it arrives, and bytes that are    *)
(* accepted are the only ones for their graph (canonical_document_bytes,   *)
(* parse_verified_canonical).                                              *)
THEOREM EncodingsAreUnique == Spec => []OneAcceptedEncoding
<1>1. IInv => SentIsAccepted
  <2> SUFFICES ASSUME IInv, NEW p \in Producers,
                      draft[p].graph_digest # NoDigest,
                      EncodingProblem(draft[p]) = "ok"
               PROVE  LET bytes == Encoding(draft[p])
                      IN  /\ StrictProblem(bytes) = "ok"
                          /\ Meaning(bytes.document) = Meaning(draft[p])
                          /\ Digest(bytes.document)
                                = bytes.document.graph_digest
    BY DEF SentIsAccepted
  <2> DEFINE doc == draft[p]
             normal == Normalized(doc)
             bytes == Encoding(doc)
  <2>1. /\ Normalized(normal) = normal
        /\ normal.graph_digest = doc.graph_digest
        /\ Meaning(normal) = Meaning(doc)
    BY NormalForm DEF IInv
  <2>2. /\ bytes.document = normal
        /\ bytes.form = "canonical"
    BY DEF Encoding
  <2>3. Problem(normal) = "ok"
    BY DEF EncodingProblem
  <2>4. Encoding(normal) = bytes
    BY <2>1 DEF Encoding
  <2> HIDE DEF normal, bytes
  <2>5. EncodingProblem(normal) = "ok"
    BY <2>1, <2>3 DEF EncodingProblem
  <2>6. DigestProblem(normal) = "ok" /\ Digest(normal) = normal.graph_digest
    BY <2>1, <2>3, SoundDocument DEF DigestProblem
  <2>7. StrictProblem(bytes) = "ok"
    BY <2>2, <2>4, <2>5, <2>6 DEF StrictProblem
  <2> QED
    BY <2>1, <2>2, <2>6, <2>7 DEF bytes
<1>2. IInv => OneEncodingPerGraph
  <2> SUFFICES ASSUME IInv, NEW b \in accepted, NEW c \in accepted \cup {wire},
                      c # Nothing, StrictProblem(c) = "ok",
                      \/ b.document.graph_digest = c.document.graph_digest
                      \/ Meaning(b.document) = Meaning(c.document)
               PROVE  b = c
    BY DEF OneEncodingPerGraph
  <2>1. /\ IsDocument(b.document) /\ IsDocument(c.document)
        /\ StrictProblem(b) = "ok"
    BY DEF IInv, IsBytes
  <2>2. /\ b = Encoding(b.document) /\ c = Encoding(c.document)
        /\ StructureIsSound(Payload(b.document))
        /\ StructureIsSound(Payload(c.document))
        /\ b.document.graph_digest = Digest(b.document)
        /\ c.document.graph_digest = Digest(c.document)
    BY <2>1, AcceptedBytes
  <2>3. Payload(b.document) = Payload(c.document)
    <3>1. \A x, y : <<x>> = <<y>> => x = y
      OBVIOUS
    <3>2. CASE b.document.graph_digest = c.document.graph_digest
      BY <2>2, <3>1, <3>2 DEF Digest
    <3>3. CASE Meaning(b.document) = Meaning(c.document)
      BY <2>1, <2>2, <3>3, MeaningNamesPayload
    <3> QED
      BY <3>2, <3>3
  <2>4. b.document.graph_digest = c.document.graph_digest
    BY <2>2, <2>3 DEF Digest
  <2> QED
    BY <2>1, <2>2, <2>3, <2>4, SamePayloadSameEncoding
<1> QED
  BY <1>1, <1>2, InvariantHolds, PTL DEF OneAcceptedEncoding
=============================================================================
