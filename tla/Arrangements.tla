---------------------------- MODULE Arrangements ----------------------------
(***************************************************************************)
(* Finite sets and parts of lists, put in an order: what the sort, retain  *)
(* and dedup of the code's vectors do.  An order is a set of pairs.  The   *)
(* element at a position is found by its rank, and not by exchanging       *)
(* elements step by step, so that what an arrangement holds can be proved  *)
(* by counting.                                                            *)
(***************************************************************************)
EXTENDS Integers, Sequences, FiniteSetTheorems, FunctionTheorems,
        WellFoundedInduction, TLAPS

Rank(S, before, x) == 1 + Cardinality({y \in S : <<y, x>> \in before})

(* A Vec, and a map, of whatever values. *)
IsList(s) == Len(s) \in Nat /\ s = [i \in 1..Len(s) |-> s[i]]
IsMap(f) == f = [x \in DOMAIN f |-> f[x]]

(* The elements of a set, in order. *)
InOrderOf(S, before) ==
    [p \in 1..Cardinality(S) |-> CHOOSE x \in S : Rank(S, before, x) = p]

(* The elements of a list at some of its positions, in an order of those. *)
Arranged(list, kept, before) ==
    LET order == InOrderOf(kept, before)
    IN  [p \in 1..Cardinality(kept) |-> list[order[p]]]

(* The positions of a list as they are: Vec::retain keeps this order.      *)
ByPosition(list) ==
    {pair \in (1..Len(list)) \X (1..Len(list)) : pair[1] < pair[2]}

StrictTotalOrder(S, before) ==
    /\ \A x \in S : <<x, x>> \notin before
    /\ \A x, y, z \in S :
          <<x, y>> \in before /\ <<y, z>> \in before => <<x, z>> \in before
    /\ \A x, y \in S : x # y => <<x, y>> \in before \/ <<y, x>> \in before

-----------------------------------------------------------------------------
(* Of natural numbers there is always a least. *)
LEMMA LeastNumber ==
  ASSUME NEW T, T \subseteq Nat, T # {}
  PROVE  \E x \in T : \A y \in T : x <= y
<1> DEFINE less == {pair \in Nat \X Nat : pair[1] < pair[2]}
<1>1. IsWellFoundedOn(less, Nat)
  BY NatLessThanWellFounded DEF OpToRel
<1>2. PICK x \in T : \A y \in T : <<y, x>> \notin less
  BY <1>1, WFMin
<1>3. ASSUME NEW y \in T
      PROVE  x <= y
  <2>1. <<y, x>> \in Nat \X Nat /\ x \in Nat /\ y \in Nat
    OBVIOUS
  <2>2. ~(y < x)
    BY <1>2, <2>1
  <2> QED
    BY <2>1, <2>2
<1> QED
  BY <1>3

(* Ranks number the elements of a set in their order. *)
LEMMA RanksNumber ==
  ASSUME NEW S, IsFiniteSet(S), NEW before, StrictTotalOrder(S, before)
  PROVE  /\ Cardinality(S) \in Nat
         /\ \A x \in S : Rank(S, before, x) \in 1..Cardinality(S)
         /\ \A x, y \in S : <<x, y>> \in before
                               <=> Rank(S, before, x) < Rank(S, before, y)
         /\ \A x, y \in S : Rank(S, before, x) = Rank(S, before, y) => x = y
         /\ \A p \in 1..Cardinality(S) :
               \E x \in S : Rank(S, before, x) = p
<1> DEFINE Below(x) == {y \in S : <<y, x>> \in before}
           n == Cardinality(S)
           R(x) == Rank(S, before, x)
           rank == [x \in S |-> R(x)]
<1>0. \A x \in S : R(x) = 1 + Cardinality(Below(x))
  BY DEF Rank
<1> HIDE DEF R
<1>1. n \in Nat /\ \A x \in S : /\ IsFiniteSet(Below(x))
                                /\ Cardinality(Below(x)) \in Nat
  BY FS_CardinalityType, FS_Subset
<1>2. ASSUME NEW x \in S
      PROVE  R(x) \in 1..n
  <2>1. Below(x) # S /\ Below(x) \in SUBSET S
    BY DEF StrictTotalOrder
  <2>2. Cardinality(Below(x)) <= n /\ Cardinality(Below(x)) # n
    BY <2>1, FS_Subset
  <2> QED
    BY <2>2, <1>0, <1>1
<1>3. ASSUME NEW x \in S, NEW y \in S, <<x, y>> \in before
      PROVE  R(x) < R(y)
  <2>1. Below(x) \subseteq Below(y) /\ x \in Below(y) /\ x \notin Below(x)
    BY <1>3 DEF StrictTotalOrder
  <2>2. /\ Cardinality(Below(x)) <= Cardinality(Below(y))
        /\ Cardinality(Below(x)) # Cardinality(Below(y))
    BY <2>1, <1>1, FS_Subset
  <2> HIDE DEF Below
  <2> QED
    BY <2>2, <1>0, <1>1
<1>4. \A x \in S : R(x) \in Int
  BY <1>2, <1>1
<1>5. \A x, y \in S : x = y \/ <<x, y>> \in before \/ <<y, x>> \in before
  BY DEF StrictTotalOrder
<1>6. ASSUME NEW x \in S, NEW y \in S
      PROVE  /\ R(x) = R(y) => x = y
             /\ <<x, y>> \in before <=> R(x) < R(y)
  <2>1. R(x) \in Int /\ R(y) \in Int
    BY <1>4
  <2>2. <<x, y>> \in before => R(x) < R(y)
    BY <1>3
  <2>3. <<y, x>> \in before => R(y) < R(x)
    BY <1>3
  <2>4. x = y => <<x, y>> \notin before
    BY DEF StrictTotalOrder
  <2>5. x = y => R(x) = R(y)
    OBVIOUS
  <2> QED
    BY <2>1, <2>2, <2>3, <2>4, <2>5, <1>5
<1>8. rank \in Injection(S, 1..n)
  <2>1. rank \in [S -> 1..n]
    BY <1>2
  <2>2. \A x, y \in S : rank[x] = rank[y] => x = y
    BY <1>6
  <2> HIDE DEF rank
  <2> QED
    BY <2>1, <2>2, Fun_IsInj
<1>9. IsFiniteSet(1..n) /\ Cardinality(1..n) = n
  BY <1>1, FS_Interval
<1>10. rank \in Surjection(S, 1..n)
  <2> HIDE DEF rank
  <2> QED
    BY <1>8, <1>9, FS_Injection
<1>11. \A p \in 1..n : \E x \in S : R(x) = p
  <2>1. \A p \in 1..n : \E x \in S : rank[x] = p
    <3> HIDE DEF rank
    <3> QED
      BY <1>10, Fun_SurjectionProperties
  <2> QED
    BY <2>1
<1> QED
  BY <1>1, <1>2, <1>6, <1>11 DEF R

(* An arrangement of a set has each of its elements once, in order. *)
LEMMA InOrderOfSet ==
  ASSUME NEW S, IsFiniteSet(S), NEW before, StrictTotalOrder(S, before)
  PROVE  LET list == InOrderOf(S, before)
         IN  /\ Cardinality(S) \in Nat
             /\ list \in [1..Cardinality(S) -> S]
             /\ \A p, q \in 1..Cardinality(S) :
                   p < q <=> <<list[p], list[q]>> \in before
             /\ \A p, q \in 1..Cardinality(S) : list[p] = list[q] => p = q
             /\ \A x \in S : \E p \in 1..Cardinality(S) : list[p] = x
<1> DEFINE list == InOrderOf(S, before)
           n == Cardinality(S)
           R(x) == Rank(S, before, x)
<1>1. /\ n \in Nat
      /\ \A x \in S : R(x) \in 1..n
      /\ \A x, y \in S : <<x, y>> \in before <=> R(x) < R(y)
      /\ \A x, y \in S : R(x) = R(y) => x = y
      /\ \A p \in 1..n : \E x \in S : R(x) = p
  BY RanksNumber
<1> HIDE DEF R
<1>2. \A p \in 1..n : list[p] \in S /\ R(list[p]) = p
  <2> SUFFICES ASSUME NEW p \in 1..n
               PROVE  list[p] \in S /\ R(list[p]) = p
    OBVIOUS
  <2>1. list[p] = CHOOSE x \in S : R(x) = p
    BY DEF InOrderOf, R
  <2> QED
    BY <1>1, <2>1
<1>3. list \in [1..n -> S]
  <2>1. list = [p \in 1..n |-> list[p]]
    BY DEF InOrderOf
  <2> HIDE DEF list
  <2> QED
    BY <1>2, <2>1
<1> HIDE DEF list, n
<1>4. \A p, q \in 1..n : p < q <=> <<list[p], list[q]>> \in before
  BY <1>1, <1>2
<1>5. \A p, q \in 1..n : list[p] = list[q] => p = q
  BY <1>2
<1>6. \A x \in S : \E p \in 1..n : list[p] = x
  BY <1>1, <1>2
<1> QED
  BY <1>1, <1>3, <1>4, <1>5, <1>6 DEF list, n

(* A finite set that is in order has a last element. *)
LEMMA LastOfSet ==
  ASSUME NEW T, NEW before, StrictTotalOrder(T, before),
         NEW S, IsFiniteSet(S), S \subseteq T, S # {}
  PROVE  \E x \in S : \A y \in S : y = x \/ <<y, x>> \in before
<1> DEFINE n == Cardinality(S)
           list == InOrderOf(S, before)
<1>1. StrictTotalOrder(S, before)
  BY DEF StrictTotalOrder
<1>2. /\ n \in Nat /\ list \in [1..n -> S]
      /\ \A p, q \in 1..n : p < q <=> <<list[p], list[q]>> \in before
      /\ \A x \in S : \E p \in 1..n : list[p] = x
  BY <1>1, InOrderOfSet
<1> HIDE DEF n, list
<1>3. n \in 1..n
  BY <1>2
<1>4. list[n] \in S
  BY <1>2, <1>3
<1>5. ASSUME NEW y \in S
      PROVE  y = list[n] \/ <<y, list[n]>> \in before
  <2>1. PICK p \in 1..n : list[p] = y
    BY <1>2
  <2>2. p = n \/ p < n
    BY <1>2
  <2> QED
    BY <1>2, <1>3, <2>1, <2>2
<1> QED
  BY <1>4, <1>5

(* `list` has the n elements of S in order, and no others. *)
Arranges(list, n, S, before) ==
    /\ list \in [1..n -> S]
    /\ \A p, q \in 1..n : p < q => <<list[p], list[q]>> \in before
    /\ \A x \in S : \E p \in 1..n : list[p] = x

(* A list that has each element of a set once, in order, is its            *)
(* arrangement: there is no other.                                         *)
LEMMA OnlyArrangement ==
  ASSUME NEW S, IsFiniteSet(S), NEW before, StrictTotalOrder(S, before),
         NEW n \in Nat, NEW list, Arranges(list, n, S, before)
  PROVE  n = Cardinality(S) /\ list = InOrderOf(S, before)
<1> USE DEF Arranges
<1> DEFINE R(x) == Rank(S, before, x)
<1>1. \A p, q \in 1..n : list[p] = list[q] => p = q
  <2> SUFFICES ASSUME NEW p \in 1..n, NEW q \in 1..n, p < q
               PROVE  list[p] # list[q]
    OBVIOUS
  <2> QED
    BY DEF StrictTotalOrder
<1>2. \A p, q \in 1..n : <<list[p], list[q]>> \in before => p < q
  <2> SUFFICES ASSUME NEW p \in 1..n, NEW q \in 1..n,
                      <<list[p], list[q]>> \in before, ~(p < q)
               PROVE  FALSE
    OBVIOUS
  <2>1. CASE p = q
    BY <2>1 DEF StrictTotalOrder
  <2>2. CASE q < p
    BY <2>2 DEF StrictTotalOrder
  <2> QED
    BY <2>1, <2>2
<1>3. list \in Bijection(1..n, S)
  BY <1>1, Fun_IsBij
<1>4. n = Cardinality(S)
  BY <1>3, FS_CountingElements DEF ExistsBijection
<1>5. \A p \in 1..n : R(list[p]) = p
  <2> SUFFICES ASSUME NEW p \in 1..n
               PROVE  R(list[p]) = p
    OBVIOUS
  <2> DEFINE below == {y \in S : <<y, list[p]>> \in before}
             first == [q \in 1..(p - 1) |-> list[q]]
  <2>1. first \in [1..(p - 1) -> below]
    OBVIOUS
  <2>2. \A q, r \in 1..(p - 1) : first[q] = first[r] => q = r
    BY <1>1
  <2>3. \A y \in below : \E q \in 1..(p - 1) : first[q] = y
    BY <1>2
  <2> HIDE DEF first, below
  <2>4. first \in Bijection(1..(p - 1), below)
    BY <2>1, <2>2, <2>3, Fun_IsBij
  <2>5. Cardinality(below) = p - 1
    BY <2>4, FS_CountingElements, p - 1 \in Nat DEF ExistsBijection
  <2> QED
    BY <2>5 DEF Rank, below
<1>6. \A p \in 1..n : InOrderOf(S, before)[p] = list[p]
  <2> SUFFICES ASSUME NEW p \in 1..n
               PROVE  InOrderOf(S, before)[p] = list[p]
    OBVIOUS
  <2>1. InOrderOf(S, before)[p] = CHOOSE x \in S : R(x) = p
    BY <1>4 DEF InOrderOf
  <2>2. \A x, y \in S : R(x) = R(y) => x = y
    BY RanksNumber
  <2> HIDE DEF R
  <2> QED
    BY <1>5, <2>1, <2>2
<1>7. InOrderOf(S, before) = [p \in 1..n |-> InOrderOf(S, before)[p]]
  BY <1>4 DEF InOrderOf
<1> QED
  BY <1>4, <1>6, <1>7
-----------------------------------------------------------------------------
(* Vec::sort_by: in the order of what is compared; elements that compare   *)
(* as equal keep theirs.                                                   *)
Stably(n, less) ==
    {pair \in (1..n) \X (1..n) :
        \/ pair \in less
        \/ <<pair[2], pair[1]>> \notin less /\ pair[1] < pair[2]}
Positions(list, Before(_, _)) ==
    {pair \in (1..Len(list)) \X (1..Len(list)) :
        Before(list[pair[1]], list[pair[2]])}
SortedBy(list, Before(_, _)) ==
    Arranged(list, 1..Len(list),
             Stably(Len(list), Positions(list, Before)))

(* What a comparison may be: elements that compare as equal stand in one   *)
(* place.                                                                  *)
WeakOrder(S, less) ==
    /\ \A x, y \in S : <<x, y>> \in less => <<y, x>> \notin less
    /\ \A x, y, z \in S :
          <<x, y>> \in less => <<x, z>> \in less \/ <<z, y>> \in less

(* A comparison and the positions together leave nothing open. *)
LEMMA StableOrder ==
  ASSUME NEW n \in Nat, NEW less, WeakOrder(1..n, less)
  PROVE  StrictTotalOrder(1..n, Stably(n, less))
<1> DEFINE before == Stably(n, less)
<1>1. \A x, y \in 1..n : <<x, y>> \in before
         <=> <<x, y>> \in less \/ (<<y, x>> \notin less /\ x < y)
  BY DEF Stably
<1> HIDE DEF before
<1>2. \A x, y \in 1..n : ~(<<x, y>> \in less /\ <<y, x>> \in less)
  BY DEF WeakOrder
<1>3. \A x, y, z \in 1..n :
         <<x, y>> \in before /\ <<y, z>> \in before => <<x, z>> \in before
  <2> SUFFICES ASSUME NEW x \in 1..n, NEW y \in 1..n, NEW z \in 1..n,
                      <<x, y>> \in before, <<y, z>> \in before
               PROVE  <<x, z>> \in before
    OBVIOUS
  <2>1. <<y, x>> \notin less /\ <<z, y>> \notin less
    BY <1>1, <1>2
  <2>2. <<z, x>> \notin less
    BY <2>1 DEF WeakOrder
  <2>3. CASE <<x, y>> \in less
    BY <1>1, <2>1, <2>3 DEF WeakOrder
  <2>4. CASE <<y, z>> \in less
    BY <1>1, <2>1, <2>4 DEF WeakOrder
  <2>5. CASE x < y /\ y < z
    BY <1>1, <2>2, <2>5
  <2> QED
    BY <1>1, <2>3, <2>4, <2>5
<1>4. \A x \in 1..n : <<x, x>> \notin before
  BY <1>1 DEF WeakOrder
<1>5. \A x, y \in 1..n : x # y => <<x, y>> \in before \/ <<y, x>> \in before
  BY <1>1
<1> QED
  BY <1>3, <1>4, <1>5 DEF StrictTotalOrder, before

(* `t` is `s` with its elements in another order, g. *)
Reorders(t, s, g) ==
    /\ g \in [1..Len(s) -> 1..Len(s)]
    /\ t = [p \in 1..Len(s) |-> s[g[p]]]
    /\ \A p, q \in 1..Len(s) : g[p] = g[q] => p = q
    /\ \A i \in 1..Len(s) : \E p \in 1..Len(s) : g[p] = i

SameElements(s, t) ==
    /\ Len(t) = Len(s)
    /\ \E g \in [1..Len(s) -> 1..Len(s)] : Reorders(t, s, g)

(* A list that is sorted holds what it held, with nothing after what is    *)
(* greater.                                                                *)
LEMMA SortedLists ==
  ASSUME NEW s, IsList(s), NEW less, WeakOrder(1..Len(s), less)
  PROVE  LET t == Arranged(s, 1..Len(s), Stably(Len(s), less))
         IN  \E g : /\ Reorders(t, s, g)
                    /\ \A p, q \in 1..Len(s) :
                          p < q => <<g[q], g[p]>> \notin less
<1> DEFINE n == Len(s)
           before == Stably(n, less)
           t == Arranged(s, 1..n, before)
           g == InOrderOf(1..n, before)
<1>1. n \in Nat
  BY DEF IsList
<1>2. IsFiniteSet(1..n) /\ Cardinality(1..n) = n
  BY <1>1, FS_Interval
<1>3. StrictTotalOrder(1..n, before)
  BY <1>1, StableOrder
<1>4. \A x, y \in 1..n : <<x, y>> \in before
         => <<x, y>> \in less \/ <<y, x>> \notin less
  BY DEF Stably
<1>5. \A x, y \in 1..n : ~(<<x, y>> \in less /\ <<y, x>> \in less)
  BY DEF WeakOrder
<1> HIDE DEF before
<1>6. /\ g \in [1..n -> 1..n]
      /\ \A p, q \in 1..n : p < q <=> <<g[p], g[q]>> \in before
      /\ \A p, q \in 1..n : g[p] = g[q] => p = q
      /\ \A i \in 1..n : \E p \in 1..n : g[p] = i
  BY <1>1, <1>2, <1>3, InOrderOfSet
<1>7. t = [p \in 1..n |-> s[g[p]]]
  BY <1>2 DEF Arranged
<1> HIDE DEF g, t
<1>8. Reorders(t, s, g)
  BY <1>6, <1>7 DEF Reorders
<1>9. \A p, q \in 1..n : p < q => <<g[q], g[p]>> \notin less
  BY <1>4, <1>5, <1>6
<1> QED
  BY <1>8, <1>9 DEF t, before

(* A list in another order is a list of the same length and values. *)
LEMMA ReorderedLists ==
  ASSUME NEW s, IsList(s), NEW t, NEW g, Reorders(t, s, g)
  PROVE  /\ IsList(t) /\ Len(t) = Len(s) /\ DOMAIN t = 1..Len(s)
         /\ \A p \in 1..Len(s) : \E i \in 1..Len(s) : t[p] = s[i]
         /\ \A i \in 1..Len(s) : \E p \in 1..Len(s) : t[p] = s[i]
<1>1. Len(s) \in Nat /\ DOMAIN t = 1..Len(s)
  BY DEF IsList, Reorders
<1>2. Len(t) = Len(s)
  BY <1>1
<1>3. t = [p \in 1..Len(t) |-> t[p]]
  BY <1>1, <1>2 DEF Reorders
<1> QED
  BY <1>1, <1>2, <1>3 DEF IsList, Reorders

(* What tells values apart also compares the positions of a list.          *)
LEMMA PositionsCompare ==
  ASSUME NEW s, NEW n \in Nat, NEW S, \A i \in 1..n : s[i] \in S,
         NEW before, StrictTotalOrder(S, before), NEW less,
         \A i, j \in 1..n : <<i, j>> \in less <=> <<s[i], s[j]>> \in before
  PROVE  WeakOrder(1..n, less)
<1>1. \A x, y \in 1..n : <<x, y>> \in less => <<y, x>> \notin less
  <2> SUFFICES ASSUME NEW x \in 1..n, NEW y \in 1..n,
                      <<x, y>> \in less, <<y, x>> \in less
               PROVE  FALSE
    OBVIOUS
  <2>1. <<s[x], s[y]>> \in before /\ <<s[y], s[x]>> \in before
    OBVIOUS
  <2> QED
    BY <2>1 DEF StrictTotalOrder
<1>2. ASSUME NEW x \in 1..n, NEW y \in 1..n, NEW z \in 1..n,
             <<x, y>> \in less
      PROVE  <<x, z>> \in less \/ <<z, y>> \in less
  <2>1. <<s[x], s[y]>> \in before
    BY <1>2
  <2>2. CASE x = z
    BY <1>2, <2>2
  <2>3. CASE x # z
    <3>1. s[x] = s[z] \/ <<s[x], s[z]>> \in before \/ <<s[z], s[x]>> \in before
      BY <2>3 DEF StrictTotalOrder
    <3>2. <<s[z], s[x]>> \in before => <<s[z], s[y]>> \in before
      BY <2>1 DEF StrictTotalOrder
    <3> QED
      BY <2>1, <3>1, <3>2
  <2> QED
    BY <2>2, <2>3
<1> QED
  BY <1>1, <1>2 DEF WeakOrder

-----------------------------------------------------------------------------
(* Nothing in a list comes after what is greater. *)
Ordered(list, before) ==
    \A p, q \in 1..Len(list) : p < q => <<list[q], list[p]>> \notin before

(* A list of values of one kind; what is in it; that it has nothing twice. *)
ListOf(list, S) == IsList(list) /\ \A i \in 1..Len(list) : list[i] \in S
Elements(list) == {list[i] : i \in 1..Len(list)}
Once(list) == \A i, j \in 1..Len(list) : list[i] = list[j] => i = j

(* A list in another order has the same elements, as often. *)
LEMMA ReorderedElements ==
  ASSUME NEW s, IsList(s), NEW t, NEW g, Reorders(t, s, g)
  PROVE  /\ IsList(t) /\ Len(t) = Len(s)
         /\ Elements(t) = Elements(s)
         /\ Once(s) => Once(t)
         /\ SameElements(s, t)
<1>1. /\ IsList(t) /\ Len(t) = Len(s)
      /\ \A p \in 1..Len(s) : \E i \in 1..Len(s) : t[p] = s[i]
      /\ \A i \in 1..Len(s) : \E p \in 1..Len(s) : t[p] = s[i]
  BY ReorderedLists
<1>2. \A p \in 1..Len(s) : g[p] \in 1..Len(s) /\ t[p] = s[g[p]]
  BY DEF Reorders
<1>3. \A p, q \in 1..Len(s) : g[p] = g[q] => p = q
  BY DEF Reorders
<1>4. Once(s) => Once(t)
  <2> SUFFICES ASSUME Once(s), NEW i \in 1..Len(s), NEW j \in 1..Len(s),
                      t[i] = t[j]
               PROVE  i = j
    BY <1>1 DEF Once
  <2>1. g[i] = g[j]
    BY <1>2 DEF Once
  <2> QED
    BY <1>3, <2>1
<1>5. Elements(t) = Elements(s)
  <2>1. Len(t) = Len(s)
    BY <1>1
  <2>2. \A x : x \in Elements(t) <=> \E p \in 1..Len(s) : x = t[p]
    BY <2>1 DEF Elements
  <2>3. \A x : x \in Elements(s) <=> \E p \in 1..Len(s) : x = s[p]
    BY DEF Elements
  <2> QED
    BY <1>1, <2>2, <2>3
<1>6. SameElements(s, t)
  BY <1>1 DEF SameElements, Reorders
<1> QED
  BY <1>1, <1>4, <1>5, <1>6

(* A sorted list has the elements it had, in their order. *)
LEMMA SortedValues ==
  ASSUME NEW S, NEW s, ListOf(s, S),
         NEW before, StrictTotalOrder(S, before), NEW less,
         \A i, j \in 1..Len(s) :
            <<i, j>> \in less <=> <<s[i], s[j]>> \in before
  PROVE  LET t == Arranged(s, 1..Len(s), Stably(Len(s), less))
         IN  /\ ListOf(t, S) /\ Len(t) = Len(s) /\ Ordered(t, before)
             /\ Elements(t) = Elements(s)
             /\ Once(s) => Once(t)
             /\ SameElements(s, t)
<1> DEFINE n == Len(s)
           t == Arranged(s, 1..n, Stably(n, less))
<1>1. n \in Nat /\ IsList(s) /\ \A i \in 1..n : s[i] \in S
  BY DEF IsList, ListOf
<1>2. WeakOrder(1..n, less)
  BY <1>1, PositionsCompare
<1>3. PICK g : /\ Reorders(t, s, g)
               /\ \A p, q \in 1..n : p < q => <<g[q], g[p]>> \notin less
  BY <1>1, <1>2, SortedLists
<1> HIDE DEF t
<1>4. /\ IsList(t) /\ Len(t) = n /\ Elements(t) = Elements(s)
      /\ Once(s) => Once(t)
      /\ SameElements(s, t)
  BY <1>1, <1>3, ReorderedElements
<1>5. \A p \in 1..n : g[p] \in 1..n /\ t[p] = s[g[p]]
  BY <1>3 DEF Reorders
<1>6. \A p, q \in 1..n : p < q => <<t[q], t[p]>> \notin before
  BY <1>3, <1>5
<1>7. ListOf(t, S)
  BY <1>1, <1>4, <1>5 DEF ListOf
<1>8. Ordered(t, before)
  BY <1>4, <1>6 DEF Ordered
<1> HIDE DEF n
<1> QED
  BY <1>4, <1>7, <1>8 DEF t, n

(* A list has as many positions as it is long. *)
LEMMA AsManyPositions ==
  ASSUME NEW m \in Nat
  PROVE  IsFiniteSet(1..m) /\ Cardinality(1..m) = m
BY FS_Interval

(* As many things as one place more have do not all have their own place.  *)
Crowded(p, f) == \E q, r \in 1..p : q # r /\ f[q] = f[r]
LEMMA TooFewPlaces ==
  ASSUME NEW p \in Nat, 1 <= p, NEW f \in [1..p -> 1..(p - 1)]
  PROVE  Crowded(p, f)
<1> DEFINE A == 1..p
           m == p - 1
           B == 1..m
<1>1. m \in Nat /\ m < p /\ f \in [A -> B]
  OBVIOUS
<1> HIDE DEF m
<1>2. /\ IsFiniteSet(A) /\ Cardinality(A) = p
      /\ IsFiniteSet(B) /\ Cardinality(B) = m
  BY <1>1, AsManyPositions
<1> HIDE DEF A, B
<1>3. Cardinality(B) < Cardinality(A)
  BY <1>1, <1>2
<1>4. f \in [A -> B] /\ IsFiniteSet(A) /\ IsFiniteSet(B)
  BY <1>1, <1>2
<1>5. \E q, r \in A : q # r /\ f[q] = f[r]
  BY <1>3, <1>4, FS_PigeonHole
<1> QED
  BY <1>5 DEF A, Crowded

(* Two ordered lists of the same elements: at no position does one have    *)
(* less than the other, for all it has up to there would be among fewer    *)
(* positions of the other.                                                 *)
LEMMA NothingLess ==
  ASSUME NEW n \in Nat, NEW s, NEW t, NEW S,
         \A i \in 1..n : s[i] \in S /\ t[i] \in S,
         NEW before, StrictTotalOrder(S, before),
         \A p, q \in 1..n : p < q => <<s[q], s[p]>> \notin before,
         \A p, q \in 1..n : p < q => <<t[q], t[p]>> \notin before,
         NEW g \in [1..n -> 1..n], \A p, q \in 1..n : g[p] = g[q] => p = q,
         \A p \in 1..n : t[p] = s[g[p]],
         NEW p \in 1..n
  PROVE  <<t[p], s[p]>> \notin before
<1> SUFFICES ASSUME <<t[p], s[p]>> \in before
             PROVE  FALSE
  OBVIOUS
<1>1. ASSUME NEW q \in 1..p
      PROVE  g[q] \in 1..(p - 1)
  <2>1. q \in 1..n /\ g[q] \in 1..n /\ p \in 1..n
    OBVIOUS
  <2>2. t[q] = t[p] \/ <<t[q], t[p]>> \in before
    <3>1. q = p \/ q < p
      BY <2>1
    <3> QED
      BY <2>1, <3>1 DEF StrictTotalOrder
  <2>3. <<s[g[q]], s[p]>> \in before
    BY <2>1, <2>2 DEF StrictTotalOrder
  <2>4. g[q] # p
    BY <2>1, <2>3 DEF StrictTotalOrder
  <2>5. ~(p < g[q])
    BY <2>1, <2>3
  <2> QED
    BY <2>1, <2>4, <2>5
<1> DEFINE f == [q \in 1..p |-> g[q]]
<1>2. f \in [1..p -> 1..(p - 1)]
  BY <1>1
<1>3. Crowded(p, f)
  <2>1. p \in Nat /\ 1 <= p
    OBVIOUS
  <2> HIDE DEF f
  <2> QED
    BY <1>2, <2>1, TooFewPlaces
<1>4. \A q, r \in 1..p : f[q] = f[r] => q = r
  OBVIOUS
<1> QED
  BY <1>3, <1>4 DEF Crowded

(* Ordered lists of the same elements, each as often, are the same.        *)
LEMMA SameElementsSameList ==
  ASSUME NEW S, NEW s, ListOf(s, S), NEW t, IsList(t), SameElements(s, t),
         NEW before, StrictTotalOrder(S, before),
         Ordered(s, before), Ordered(t, before)
  PROVE  s = t
<1> DEFINE n == Len(s)
<1>1. n \in Nat /\ Len(t) = n
  BY DEF IsList, ListOf, SameElements
<1>2. PICK g \in [1..n -> 1..n] : Reorders(t, s, g)
  BY DEF SameElements
<1>3. /\ \A p \in 1..n : t[p] = s[g[p]]
      /\ \A p, q \in 1..n : g[p] = g[q] => p = q
      /\ \A i \in 1..n : \E p \in 1..n : g[p] = i
  BY <1>2 DEF Reorders
<1> DEFINE h == [i \in 1..n |-> CHOOSE p \in 1..n : g[p] = i]
<1>4. \A i \in 1..n : h[i] \in 1..n /\ g[h[i]] = i
  BY <1>3
<1>5. /\ h \in [1..n -> 1..n]
      /\ \A p, q \in 1..n : h[p] = h[q] => p = q
      /\ \A p \in 1..n : s[p] = t[h[p]]
  <2>1. h \in [1..n -> 1..n]
    BY <1>4
  <2>2. \A p \in 1..n : s[p] = t[h[p]]
    BY <1>3, <1>4
  <2>3. \A p, q \in 1..n : h[p] = h[q] => p = q
    BY <1>4
  <2> QED
    BY <2>1, <2>2, <2>3
<1>6. \A i \in 1..n : s[i] \in S /\ t[i] \in S
  BY <1>3 DEF ListOf
<1>7. /\ \A p, q \in 1..n : p < q => <<s[q], s[p]>> \notin before
      /\ \A p, q \in 1..n : p < q => <<t[q], t[p]>> \notin before
  BY <1>1 DEF Ordered
<1> HIDE DEF h, n
<1>8. ASSUME NEW p \in 1..n
      PROVE  s[p] = t[p]
  <2>1. <<t[p], s[p]>> \notin before
    <3>1. /\ \A q \in 1..n : t[q] = s[g[q]]
          /\ \A q, r \in 1..n : g[q] = g[r] => q = r
      BY <1>3
    <3> QED
      BY <1>1, <1>2, <1>6, <1>7, <3>1, NothingLess
  <2>2. <<s[p], t[p]>> \notin before
    BY <1>1, <1>5, <1>6, <1>7, NothingLess
  <2> QED
    BY <1>6, <2>1, <2>2 DEF StrictTotalOrder
<1>9. s = [i \in 1..n |-> s[i]] /\ t = [i \in 1..n |-> t[i]]
  BY <1>1 DEF IsList, ListOf, n
<1> QED
  BY <1>8, <1>9

(* Ordered lists of the same elements, each once, are the same.            *)
LEMMA SameSetSameList ==
  ASSUME NEW S, NEW s, ListOf(s, S), NEW t, IsList(t),
         Elements(s) = Elements(t), Once(s), Once(t),
         NEW before, StrictTotalOrder(S, before),
         Ordered(s, before), Ordered(t, before)
  PROVE  s = t
<1> DEFINE T == Elements(s)
<1>1. Len(s) \in Nat /\ Len(t) \in Nat
  BY DEF IsList, ListOf
<1>2. StrictTotalOrder(T, before)
  <2>1. T \subseteq S
    BY DEF Elements, ListOf
  <2> QED
    BY <2>1 DEF StrictTotalOrder
<1>3. IsFiniteSet(T)
  <2> DEFINE f == [i \in 1..Len(s) |-> s[i]]
  <2>1. f \in Surjection(1..Len(s), T)
    BY DEF Surjection, Elements
  <2>2. IsFiniteSet(1..Len(s))
    BY <1>1, FS_Interval
  <2> HIDE DEF f
  <2> QED
    BY <2>1, <2>2, FS_Surjection
<1>4. /\ \A i \in 1..Len(s) : s[i] \in T
      /\ \A x \in T : \E i \in 1..Len(s) : s[i] = x
  BY DEF Elements
<1>5. /\ \A i \in 1..Len(t) : t[i] \in T
      /\ \A x \in T : \E i \in 1..Len(t) : t[i] = x
  BY DEF Elements
<1> HIDE DEF T
<1>6. Arranges(s, Len(s), T, before)
  <2>1. s \in [1..Len(s) -> T]
    BY <1>4 DEF IsList, ListOf
  <2>2. ASSUME NEW p \in 1..Len(s), NEW q \in 1..Len(s), p < q
        PROVE  <<s[p], s[q]>> \in before
    <3>1. s[p] # s[q] /\ <<s[q], s[p]>> \notin before
      BY <2>2 DEF Ordered, Once
    <3> QED
      BY <1>2, <1>4, <3>1 DEF StrictTotalOrder
  <2> QED
    BY <1>4, <2>1, <2>2 DEF Arranges
<1>7. Arranges(t, Len(t), T, before)
  <2>1. t \in [1..Len(t) -> T]
    BY <1>5 DEF IsList
  <2>2. ASSUME NEW p \in 1..Len(t), NEW q \in 1..Len(t), p < q
        PROVE  <<t[p], t[q]>> \in before
    <3>1. t[p] # t[q] /\ <<t[q], t[p]>> \notin before
      BY <2>2 DEF Ordered, Once
    <3> QED
      BY <1>2, <1>5, <3>1 DEF StrictTotalOrder
  <2> QED
    BY <1>5, <2>1, <2>2 DEF Arranges
<1>8. s = InOrderOf(T, before) /\ t = InOrderOf(T, before)
  BY <1>1, <1>2, <1>3, <1>6, <1>7, OnlyArrangement
<1> QED
  BY <1>8

-----------------------------------------------------------------------------
(* Lists together, and parts of lists. *)

(* A list is a sequence of its elements. *)
LEMMA ListIsSeq ==
  ASSUME NEW s, IsList(s)
  PROVE  /\ s \in Seq(Elements(s)) /\ DOMAIN s = 1..Len(s)
         /\ Len(s) \in Nat
<1>1. s \in [1..Len(s) -> Elements(s)]
  BY DEF IsList, Elements
<1> QED
  BY <1>1 DEF IsList

(* A list made position by position. *)
LEMMA MadeList ==
  ASSUME NEW n \in Nat, NEW s, s = [i \in 1..n |-> s[i]]
  PROVE  IsList(s) /\ Len(s) = n /\ DOMAIN s = 1..n
BY DEF IsList

(* Nothing, one thing and two things are lists. *)
LEMMA ShortLists ==
  /\ IsList(<<>>) /\ Len(<<>>) = 0 /\ Elements(<<>>) = {}
  /\ \A x : /\ IsList(<<x>>) /\ Len(<<x>>) = 1 /\ <<x>>[1] = x
            /\ Elements(<<x>>) = {x}
  /\ \A x, y : /\ IsList(<<x, y>>) /\ Len(<<x, y>>) = 2
               /\ <<x, y>>[1] = x /\ <<x, y>>[2] = y
<1>1. IsList(<<>>) /\ Len(<<>>) = 0 /\ Elements(<<>>) = {}
  BY DEF IsList, Elements
<1>2. \A x : /\ IsList(<<x>>) /\ Len(<<x>>) = 1 /\ <<x>>[1] = x
             /\ Elements(<<x>>) = {x}
  BY DEF IsList, Elements
<1>3. \A x, y : /\ IsList(<<x, y>>) /\ Len(<<x, y>>) = 2
                /\ <<x, y>>[1] = x /\ <<x, y>>[2] = y
  BY DEF IsList
<1> QED
  BY <1>1, <1>2, <1>3

(* A sequence is a list. *)
LEMMA SequenceLists ==
  ASSUME NEW T, NEW v \in Seq(T)
  PROVE  IsList(v) /\ Elements(v) \subseteq T
<1>1. Len(v) \in Nat /\ v = [i \in 1..Len(v) |-> v[i]]
  OBVIOUS
<1>2. \A i \in 1..Len(v) : v[i] \in T
  OBVIOUS
<1> QED
  BY <1>1, <1>2 DEF IsList, Elements

(* What two lists make together. *)
LEMMA Concatenated ==
  ASSUME NEW s, IsList(s), NEW t, IsList(t)
  PROVE  /\ IsList(s \o t) /\ Len(s \o t) = Len(s) + Len(t)
         /\ DOMAIN (s \o t) = 1..(Len(s) + Len(t))
         /\ \A i \in 1..(Len(s) + Len(t)) :
               (s \o t)[i] = IF i <= Len(s) THEN s[i] ELSE t[i - Len(s)]
<1> DEFINE S == Elements(s) \cup Elements(t)
           u == s \o t
<1>1. s \in Seq(S) /\ t \in Seq(S)
  BY ListIsSeq
<1> HIDE DEF S
<1>2. /\ u \in Seq(S) /\ Len(u) = Len(s) + Len(t)
      /\ DOMAIN u = 1..(Len(s) + Len(t))
      /\ \A i \in 1..(Len(s) + Len(t)) :
            u[i] = IF i <= Len(s) THEN s[i] ELSE t[i - Len(s)]
  BY <1>1
<1> HIDE DEF u
<1>3. IsList(u)
  BY <1>2 DEF IsList
<1> QED
  BY <1>2, <1>3 DEF u

(* What both hold, the lists together hold. *)
LEMMA ElementsOfBoth ==
  ASSUME NEW s, IsList(s), NEW t, IsList(t)
  PROVE  /\ IsList(s \o t)
         /\ Elements(s \o t) = Elements(s) \cup Elements(t)
<1> DEFINE u == s \o t
           m == Len(s)
           n == Len(t)
<1>1. m \in Nat /\ n \in Nat
  BY ListIsSeq
<1>2. /\ IsList(u) /\ Len(u) = m + n
      /\ \A i \in 1..(m + n) : u[i] = IF i <= m THEN s[i] ELSE t[i - m]
  BY Concatenated
<1> HIDE DEF u, m, n
<1>3. \A i \in 1..(m + n) : /\ i <= m => i \in 1..m
                            /\ ~(i <= m) => i - m \in 1..n
  BY <1>1
<1>4. Elements(u) \subseteq Elements(s) \cup Elements(t)
  <2>1. \A i \in 1..(m + n) : u[i] \in Elements(s) \cup Elements(t)
    BY <1>2, <1>3 DEF Elements, m, n
  <2> QED
    BY <1>2, <2>1 DEF Elements
<1>5. \A i \in 1..m : i \in 1..(m + n) /\ u[i] = s[i]
  BY <1>1, <1>2
<1>6. \A i \in 1..n : i + m \in 1..(m + n) /\ u[i + m] = t[i]
  BY <1>1, <1>2
<1>7. Elements(s) \subseteq Elements(u)
  BY <1>2, <1>5 DEF Elements, m
<1>8. Elements(t) \subseteq Elements(u)
  BY <1>2, <1>6 DEF Elements, n
<1> QED
  BY <1>2, <1>4, <1>7, <1>8 DEF u

(* What retain leaves of a list: the elements at the kept positions, once  *)
(* if they were there once.                                                *)
Keeps(t, s, kept) ==
    /\ IsList(t)
    /\ \A x : x \in Elements(t) <=> \E i \in kept : s[i] = x
    /\ \A p, q \in 1..Len(t) :
          t[p] = t[q] /\ p # q =>
             \E i, j \in kept : i < j /\ s[i] = t[p] /\ s[j] = t[p]
LEMMA KeptElements ==
  ASSUME NEW s, IsList(s), NEW kept \in SUBSET (1..Len(s))
  PROVE  Keeps(Arranged(s, kept, ByPosition(s)), s, kept)
<1> DEFINE before == ByPosition(s)
           n == Cardinality(kept)
           g == InOrderOf(kept, before)
           t == Arranged(s, kept, before)
<1>1. Len(s) \in Nat /\ IsFiniteSet(1..Len(s))
  BY FS_Interval DEF IsList
<1>2. IsFiniteSet(kept) /\ \A i \in kept : i \in 1..Len(s)
  BY <1>1, FS_Subset
<1>3. StrictTotalOrder(kept, before)
  BY <1>1, <1>2 DEF StrictTotalOrder, ByPosition
<1>4. \A i, j \in kept : <<i, j>> \in before <=> i < j
  BY <1>2 DEF ByPosition
<1> HIDE DEF before
<1>5. /\ n \in Nat /\ g \in [1..n -> kept]
      /\ \A p, q \in 1..n : p < q <=> <<g[p], g[q]>> \in before
      /\ \A i \in kept : \E p \in 1..n : g[p] = i
  BY <1>2, <1>3, InOrderOfSet
<1>6. t = [p \in 1..n |-> s[g[p]]]
  BY DEF Arranged
<1> HIDE DEF n, g, t
<1>7. IsList(t) /\ Len(t) = n
  BY <1>5, <1>6 DEF IsList
<1>8. \A x : x \in Elements(t) <=> \E i \in kept : s[i] = x
  BY <1>5, <1>6, <1>7 DEF Elements
<1>9. ASSUME NEW p \in 1..Len(t), NEW q \in 1..Len(t), t[p] = t[q], p # q
      PROVE  \E i, j \in kept : i < j /\ s[i] = t[p] /\ s[j] = t[p]
  <2>1. g[p] \in kept /\ g[q] \in kept /\ s[g[p]] = t[p] /\ s[g[q]] = t[p]
    BY <1>5, <1>6, <1>7, <1>9
  <2>2. g[p] < g[q] \/ g[q] < g[p]
    <3>1. p < q \/ q < p
      BY <1>5, <1>7, <1>9
    <3> QED
      BY <1>4, <1>5, <1>7, <2>1, <3>1
  <2> QED
    BY <2>1, <2>2
<1> QED
  BY <1>7, <1>8, <1>9 DEF Keeps, t, before

-----------------------------------------------------------------------------
(* Lists of numbers. *)
LessNumbers == {pair \in Int \X Int : pair[1] < pair[2]}

(* Numbers are in a total order. *)
LEMMA NumbersTotal == StrictTotalOrder(Int, LessNumbers)
BY DEF StrictTotalOrder, LessNumbers

(* What the sort of a list of numbers leaves. *)
LEMMA NumbersSorted ==
  ASSUME NEW s, ListOf(s, Int)
  PROVE  LET t == SortedBy(s, LAMBDA a, b : a < b)
         IN  /\ ListOf(t, Int) /\ Ordered(t, LessNumbers)
             /\ Elements(t) = Elements(s)
             /\ Once(s) => Once(t)
<1> DEFINE less == Positions(s, LAMBDA a, b : a < b)
           t == SortedBy(s, LAMBDA a, b : a < b)
<1>1. \A i \in 1..Len(s) : s[i] \in Int
  BY DEF ListOf
<1>2. \A i, j \in 1..Len(s) :
         <<i, j>> \in less <=> <<s[i], s[j]>> \in LessNumbers
  BY <1>1 DEF Positions, LessNumbers
<1>3. t = Arranged(s, 1..Len(s), Stably(Len(s), less))
  BY DEF SortedBy
<1> HIDE DEF less, t
<1>4. /\ ListOf(t, Int) /\ Ordered(t, LessNumbers)
      /\ Elements(t) = Elements(s)
      /\ Once(s) => Once(t)
  BY <1>2, <1>3, NumbersTotal, SortedValues
<1> QED
  BY <1>4 DEF t

(* Numbers each greater than the one before ascend all the way. *)
LEMMA AscendAllTheWay ==
  ASSUME NEW n \in Nat, NEW s, \A i \in 1..n : s[i] \in Int,
         \A i \in 2..n : s[i - 1] < s[i]
  PROVE  \A i, j \in 1..n : i < j => s[i] < s[j]
<1> SUFFICES ASSUME NEW i \in 1..n,
                    {j \in (i + 1)..n : ~(s[i] < s[j])} # {}
             PROVE  FALSE
  OBVIOUS
<1> DEFINE B == {j \in (i + 1)..n : ~(s[i] < s[j])}
<1>1. B \subseteq Nat
  OBVIOUS
<1>2. B # {}
  OBVIOUS
<1> HIDE DEF B
<1>3. PICK k \in B : \A j \in B : k <= j
  BY <1>1, <1>2, LeastNumber
<1>4. k \in (i + 1)..n /\ ~(s[i] < s[k]) /\ k \in Nat
  BY <1>1 DEF B
<1>5. k \in 2..n /\ k - 1 \in i..n /\ k - 1 \in Nat /\ ~(k <= k - 1)
  BY <1>4
<1>6. s[k - 1] < s[k] /\ s[k - 1] \in Int /\ s[k] \in Int /\ s[i] \in Int
  BY <1>5
<1>7. k - 1 # i
  BY <1>4, <1>6
<1>8. k - 1 \in (i + 1)..n /\ k - 1 \notin B
  BY <1>3, <1>5, <1>7
<1>9. s[i] < s[k - 1]
  BY <1>8 DEF B
<1> QED
  BY <1>4, <1>6, <1>9

(* A list as long as its set is large, with nothing twice, lists it all.   *)
LEMMA AllAreListed ==
  ASSUME NEW S, IsFiniteSet(S), NEW list \in [1..Cardinality(S) -> S],
         \A p, q \in 1..Cardinality(S) : p # q => list[p] # list[q]
  PROVE  \A x \in S : \E p \in 1..Cardinality(S) : list[p] = x
<1> DEFINE n == Cardinality(S)
           D == 1..n
<1>1. n \in Nat
  BY FS_CardinalityType
<1>2. IsFiniteSet(D) /\ Cardinality(D) = n
  BY <1>1, AsManyPositions
<1>3. list \in Injection(D, S)
  BY DEF Injection, IsInjective
<1>4. list \in Surjection(D, S)
  BY <1>2, <1>3, FS_Injection
<1> QED
  BY <1>4 DEF Surjection

(* Steps from one number to the next, among some values: there is a        *)
(* function that takes them.                                               *)
TakesSteps(f, n, zero, step) ==
    f[0] = zero /\ \A i \in 1..n : f[i] = step[i][f[i - 1]]
LEMMA StepsAreTaken ==
  ASSUME NEW V, NEW zero \in V, NEW n \in Nat, NEW step \in [1..n -> [V -> V]]
  PROVE  \E f \in [0..n -> V] : TakesSteps(f, n, zero, step)
<1> DEFINE Taken(m, f) == TakesSteps(f, m, zero, step)
           B == {m \in 0..n : \A f \in [0..m -> V] : ~Taken(m, f)}
<1>1. B = {}
  <2> SUFFICES ASSUME B # {}
               PROVE  FALSE
    OBVIOUS
  <2>1. B \subseteq Nat
    OBVIOUS
  <2>2. PICK k \in B : \A m \in B : k <= m
    BY <2>1, LeastNumber
  <2>3. k # 0
    <3> DEFINE f == [i \in 0..0 |-> zero]
    <3>1. f \in [0..0 -> V] /\ Taken(0, f)
      BY DEF TakesSteps
    <3> HIDE DEF f, Taken
    <3> QED
      BY <2>2, <3>1
  <2>4. k \in 1..n /\ k - 1 \in 0..n /\ ~(k <= k - 1)
    BY <2>3
  <2>5. k - 1 \notin B
    BY <2>2, <2>4
  <2>6. PICK g \in [0..(k - 1) -> V] : Taken(k - 1, g)
    BY <2>4, <2>5
  <2> DEFINE f == [i \in 0..k |-> IF i = k THEN step[k][g[k - 1]] ELSE g[i]]
  <2>7. f \in [0..k -> V]
    BY <2>4
  <2>8. f[0] = zero
    BY <2>4, <2>6 DEF TakesSteps
  <2>9. ASSUME NEW i \in 1..k
        PROVE  f[i] = step[i][f[i - 1]]
    <3>1. f[i - 1] = g[i - 1]
      BY <2>4
    <3>2. CASE i = k
      BY <3>1, <3>2
    <3>3. CASE i # k
      <4>1. i \in 1..(k - 1)
        BY <2>4, <3>3
      <4> QED
        BY <2>6, <3>1, <3>3, <4>1 DEF TakesSteps
    <3> QED
      BY <3>2, <3>3
  <2> HIDE DEF f
  <2>10. Taken(k, f)
    BY <2>7, <2>8, <2>9 DEF TakesSteps
  <2> HIDE DEF Taken
  <2> QED
    BY <2>2, <2>7, <2>10
<1> HIDE DEF B, Taken
<1>2. n \in 0..n /\ n \notin B
  BY <1>1
<1> QED
  BY <1>2 DEF B, Taken
=============================================================================
