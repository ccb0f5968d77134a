-------------------------- MODULE EnvironmentProofs --------------------------
(***************************************************************************)
(* What environment plans and the files they are shared in keep.  Two      *)
(* parts: the files, for any hosts, plans and resolutions; and the         *)
(* validation of tasks, for every plan.                                    *)
(*                                                                         *)
(* Files.  The normal form of a plan means what the plan means, and        *)
(* what a plan means determines its normal form, so that the digest, of    *)
(* the normal form, is one of the meaning.  Both are shown for each part   *)
(* of a plan, from checksums to tasks, and again for a lock.  The          *)
(* invariant Held then says that every lock, wherever it is, goes back to  *)
(* a resolution of a valid plan with the digest the lock names.            *)
(*                                                                         *)
(* Tasks.  EnvironmentTasks implements TaskVerdict.  The heart of the      *)
(* invariant is about the set `visited`: it is closed under successors and *)
(* every nonempty subset of it has a sink, which a task keeps true when it *)
(* joins after its successors.                                             *)
(***************************************************************************)
EXTENDS EnvironmentFiles, EnvironmentTasks, FiniteSetTheorems,
        FunctionTheorems, SequenceTheorems, TLAPS


-----------------------------------------------------------------------------
(* Lists: what sort, dedup and retain of the crate do to them. *)

(* A list is the function of its elements, and its values are those. *)
LEMMA ListElements ==
  ASSUME NEW s, IsList(s)
  PROVE  /\ Len(s) \in Nat /\ DOMAIN s = 1..Len(s)
         /\ s = [i \in 1..Len(s) |-> s[i]]
         /\ \A i \in 1..Len(s) : s[i] \in ToSet(s)
         /\ \A x \in ToSet(s) : \E i \in 1..Len(s) : s[i] = x
<1>1. Len(s) \in Nat /\ s = [i \in 1..Len(s) |-> s[i]]
  BY DEF IsList
<1>2. DOMAIN s = 1..Len(s)
  BY <1>1
<1> QED
  BY <1>1, <1>2 DEF ToSet

(* A list has finitely many positions and values. *)
LEMMA ListFinite ==
  ASSUME NEW s, IsList(s)
  PROVE  IsFiniteSet(1..Len(s)) /\ IsFiniteSet(ToSet(s))
<1> DEFINE n == Len(s)
<1>1. /\ n \in Nat /\ s = [i \in 1..n |-> s[i]]
      /\ \A i \in 1..n : s[i] \in ToSet(s)
      /\ \A x \in ToSet(s) : \E i \in 1..n : s[i] = x
  BY ListElements
<1> HIDE DEF n
<1>2. s \in [1..n -> ToSet(s)]
  BY <1>1
<1>3. s \in Surjection(1..n, ToSet(s))
  BY <1>1, <1>2 DEF Surjection
<1>4. IsFiniteSet(1..n)
  BY <1>1, FS_Interval
<1> QED
  BY <1>3, <1>4, FS_Surjection DEF n

(* A function on 1..n is a list of length n. *)
LEMMA ListMade ==
  ASSUME NEW n \in Nat, NEW s, s = [i \in 1..n |-> s[i]]
  PROVE  IsList(s) /\ Len(s) = n
<1>1. s \in Seq({s[i] : i \in 1..n})
  OBVIOUS
<1>2. Len(s) = n
  BY <1>1
<1> QED
  BY <1>2 DEF IsList

(* Lists with the same elements are equal. *)
LEMMA ListsEqual ==
  ASSUME NEW s, NEW t, IsList(s), IsList(t), Len(s) = Len(t),
         \A i \in 1..Len(s) : s[i] = t[i]
  PROVE  s = t
BY DEF IsList

(* The list of a finite set holds each of its values once. *)
LEMMA ListOfSet ==
  ASSUME NEW S, IsFiniteSet(S)
  PROVE  /\ IsList(SetToSeq(S)) /\ ToSet(SetToSeq(S)) = S
         /\ \A i, j \in 1..Len(SetToSeq(S)) :
               SetToSeq(S)[i] = SetToSeq(S)[j] => i = j
<1> DEFINE n == Cardinality(S)
           s == SetToSeq(S)
<1>1. n \in Nat /\ ExistsBijection(1..n, S)
  BY FS_CardinalityType
<1>2. PICK f : f \in Bijection(1..n, S)
  BY <1>1 DEF ExistsBijection
<1>3. f \in [1..n -> S] /\ IsInjective(f)
  BY <1>2, Fun_BijectionProperties DEF IsInjective, Bijection, Injection
<1>4. s \in [1..n -> S] /\ IsInjective(s)
  BY <1>3 DEF SetToSeq
<1> HIDE DEF s, n
<1>5. \A i, j \in 1..n : s[i] = s[j] => i = j
  BY <1>4 DEF IsInjective
<1>6. s \in Injection(1..n, S)
  BY <1>4, <1>5, Fun_IsInj
<1>7. Cardinality(1..n) = n
  BY <1>1, FS_Interval
<1>8. s \in Surjection(1..n, S)
  <2>1. Cardinality(1..n) = Cardinality(S) <=> s \in Surjection(1..n, S)
    BY <1>6, FS_Injection, Zenon
  <2> QED
    BY <1>7, <2>1 DEF n
<1>9. \A x \in S : \E i \in 1..n : s[i] = x
  BY <1>8 DEF Surjection
<1>10. IsList(s) /\ Len(s) = n
  <2>1. s = [i \in 1..n |-> s[i]]
    BY <1>4
  <2> QED
    BY <1>1, <2>1, ListMade
<1>11. ToSet(s) = S
  <2>1. \A x \in ToSet(s) : x \in S
    BY <1>4, <1>10, ListElements
  <2>2. \A x \in S : x \in ToSet(s)
    BY <1>9, <1>10, ListElements
  <2> QED
    BY <2>1, <2>2
<1>12. \A i, j \in 1..Len(s) : s[i] = s[j] => i = j
  BY <1>5, <1>10
<1> QED
  BY <1>10, <1>11, <1>12 DEF s

(* Sorting a list without repetitions keeps its values. *)
LEMMA StringsSorted ==
  ASSUME NEW s, IsList(s)
  PROVE  /\ IsList(SortedStrings(s)) /\ ToSet(SortedStrings(s)) = ToSet(s)
BY ListFinite, ListOfSet DEF SortedStrings

(* The kept positions of a list are in a strict total order. *)
LEMMA PositionsInOrder ==
  ASSUME NEW s, IsList(s), NEW kept \in SUBSET (1..Len(s))
  PROVE  /\ IsFiniteSet(kept) /\ StrictTotalOrder(kept, ByPosition(s))
<1> DEFINE n == Len(s)
<1>1. n \in Nat /\ IsFiniteSet(1..n)
  BY ListElements, ListFinite
<1>2. \A i, j \in 1..n : <<i, j>> \in ByPosition(s) <=> i < j
  BY DEF ByPosition
<1>3. \A i \in kept : i \in 1..n
  OBVIOUS
<1> HIDE DEF n
<1>4. StrictTotalOrder(kept, ByPosition(s))
  <2>1. \A i \in kept : <<i, i>> \notin ByPosition(s)
    BY <1>1, <1>2, <1>3
  <2>2. \A i, j, k \in kept :
           <<i, j>> \in ByPosition(s) /\ <<j, k>> \in ByPosition(s)
              => <<i, k>> \in ByPosition(s)
    BY <1>1, <1>2, <1>3
  <2>3. \A i, j \in kept : i # j => \/ <<i, j>> \in ByPosition(s)
                                    \/ <<j, i>> \in ByPosition(s)
    BY <1>1, <1>2, <1>3
  <2> QED
    BY <2>1, <2>2, <2>3 DEF StrictTotalOrder
<1>5. IsFiniteSet(kept)
  BY <1>1, FS_Subset DEF n
<1> QED
  BY <1>4, <1>5

(* What retain leaves of a list: the values at the kept positions, in the  *)
(* order of the positions.                                                 *)
LEMMA KeptList ==
  ASSUME NEW s, IsList(s), NEW kept \in SUBSET (1..Len(s))
  PROVE  LET t == Arranged(s, kept, ByPosition(s))
             g == InOrderOf(kept, ByPosition(s))
         IN  /\ IsList(t)
             /\ \A x : x \in ToSet(t) <=> \E i \in kept : s[i] = x
             /\ g \in [1..Len(t) -> kept]
             /\ \A p \in 1..Len(t) : t[p] = s[g[p]]
             /\ \A p, q \in 1..Len(t) : p < q <=> g[p] < g[q]
             /\ \A i \in kept : \E p \in 1..Len(t) : g[p] = i
<1> DEFINE n == Cardinality(kept)
           g == InOrderOf(kept, ByPosition(s))
           t == Arranged(s, kept, ByPosition(s))
<1>1. /\ n \in Nat /\ g \in [1..n -> kept]
      /\ \A p, q \in 1..n : p < q <=> <<g[p], g[q]>> \in ByPosition(s)
      /\ \A i \in kept : \E p \in 1..n : g[p] = i
  <2>1. IsFiniteSet(kept) /\ StrictTotalOrder(kept, ByPosition(s))
    BY PositionsInOrder
  <2> DEFINE before == ByPosition(s)
             list == InOrderOf(kept, before)
             m == Cardinality(kept)
  <2>2. /\ m \in Nat /\ list \in [1..m -> kept]
        /\ \A p, q \in 1..m : p < q <=> <<list[p], list[q]>> \in before
        /\ \A x \in kept : \E p \in 1..m : list[p] = x
    <3> HIDE DEF before
    <3> QED
      BY <2>1, InOrderOfSet DEF before
  <2> QED
    BY <2>2
<1>2. \A i, j \in kept : <<i, j>> \in ByPosition(s) <=> i < j
  BY DEF ByPosition
<1>3. t = [p \in 1..n |-> s[g[p]]]
  BY DEF Arranged
<1> HIDE DEF n, g, t
<1>4. IsList(t) /\ Len(t) = n
  BY <1>1, <1>3, ListMade
<1>5. \A x : x \in ToSet(t) <=> \E i \in kept : s[i] = x
  <2>1. \A x \in ToSet(t) : \E i \in kept : s[i] = x
    <3>1. \A x \in ToSet(t) : \E p \in 1..n : t[p] = x
      BY <1>4, ListElements
    <3> QED
      BY <1>1, <1>3, <3>1
  <2>2. \A i \in kept : s[i] \in ToSet(t)
    <3>1. \A p \in 1..n : t[p] \in ToSet(t)
      BY <1>4, ListElements
    <3> QED
      BY <1>1, <1>3, <3>1
  <2> QED
    BY <2>1, <2>2
<1>6. /\ g \in [1..Len(t) -> kept]
      /\ \A p \in 1..Len(t) : t[p] = s[g[p]]
      /\ \A i \in kept : \E p \in 1..Len(t) : g[p] = i
  BY <1>1, <1>3, <1>4
<1>7. \A p, q \in 1..Len(t) : p < q <=> g[p] < g[q]
  BY <1>1, <1>2, <1>4
<1> QED
  BY <1>4, <1>5, <1>6, <1>7 DEF g, t

-----------------------------------------------------------------------------
(* Deduplication, and the order in which values are first met. *)

(* The first of a value's positions. *)
LEMMA FirstOf ==
  ASSUME NEW s, IsList(s), NEW i \in 1..Len(s)
  PROVE  \E k \in Firsts(s) : k \in 1..Len(s) /\ k <= i /\ s[k] = s[i]
<1> DEFINE at == {j \in 1..Len(s) : s[j] = s[i]}
<1>1. Len(s) \in Nat
  BY ListElements
<1>2. at \subseteq Nat /\ at # {} /\ i \in at
  BY <1>1
<1>3. PICK k \in at : \A j \in at : k <= j
  BY <1>2, LeastNumber, Zenon
<1>4. k \in 1..Len(s) /\ s[k] = s[i] /\ k <= i
  BY <1>2, <1>3
<1>5. \A j \in 1..(k - 1) : s[j] # s[k]
  BY <1>1, <1>3, <1>4
<1> QED
  BY <1>4, <1>5 DEF Firsts

(* Deduplication keeps the values, each once, and their order, even when   *)
(* the order is that of what the values mean.                              *)
LEMMA DedupKeeps ==
  ASSUME NEW s, IsList(s)
  PROVE  /\ IsList(StableDedup(s))
         /\ ToSet(StableDedup(s)) = ToSet(s)
         /\ \A p, q \in 1..Len(StableDedup(s)) :
               StableDedup(s)[p] = StableDedup(s)[q] => p = q
<1> DEFINE d == StableDedup(s)
           kept == Firsts(s)
           g == InOrderOf(kept, ByPosition(s))
<1>1. kept \in SUBSET (1..Len(s))
  BY DEF Firsts
<1>2. /\ IsList(d)
      /\ \A x : x \in ToSet(d) <=> \E i \in kept : s[i] = x
      /\ g \in [1..Len(d) -> kept]
      /\ \A p \in 1..Len(d) : d[p] = s[g[p]]
      /\ \A p, q \in 1..Len(d) : p < q <=> g[p] < g[q]
  BY <1>1, KeptList DEF StableDedup
<1>3. \A i, j \in kept : s[i] = s[j] => i = j
  <2> SUFFICES ASSUME NEW i \in kept, NEW j \in kept, i < j, s[i] = s[j]
               PROVE  FALSE
    BY <1>1
  <2>1. i \in 1..(j - 1)
    BY <1>1
  <2> QED
    BY <2>1 DEF Firsts
<1>4. ToSet(d) = ToSet(s)
  <2>1. \A x \in ToSet(s) : x \in ToSet(d)
    BY <1>2, FirstOf, ListElements
  <2>2. \A x \in ToSet(d) : x \in ToSet(s)
    BY <1>1, <1>2, ListElements
  <2> QED
    BY <2>1, <2>2
<1>5. Len(d) \in Nat
  BY <1>2, ListElements
<1> HIDE DEF d, kept, g
<1>6. \A p, q \in 1..Len(d) : d[p] = d[q] => p = q
  BY <1>2, <1>3, <1>5
<1> QED
  BY <1>2, <1>4, <1>6 DEF d

(* The list of what F says of the values of s. *)
Told(F, s) == [i \in 1..Len(s) |-> F[s[i]]]

(* What is said of the values of a list is a list of the same length. *)
LEMMA ToldIsList ==
  ASSUME NEW s, IsList(s), NEW F
  PROVE  /\ IsList(Told(F, s)) /\ Len(Told(F, s)) = Len(s)
         /\ \A i \in 1..Len(s) : Told(F, s)[i] = F[s[i]]
<1> DEFINE t == Told(F, s)
<1>1. Len(s) \in Nat
  BY ListElements
<1>2. \A i \in 1..Len(s) : t[i] = F[s[i]]
  BY DEF Told
<1>3. t = [i \in 1..Len(s) |-> t[i]]
  BY DEF Told
<1> HIDE DEF t
<1>4. IsList(t) /\ Len(t) = Len(s)
  BY <1>1, <1>3, ListMade
<1> QED
  BY <1>2, <1>4 DEF t

(* What the order of a list relates: x is met, and no y before it. *)
Leads(s, x, y) ==
    \E i \in 1..Len(s) : s[i] = x /\ \A j \in 1..(i - 1) : s[j] # y

(* Order holds the pairs whose first value leads the second. *)
LEMMA OrderRelates ==
  ASSUME NEW s, IsList(s), NEW x, NEW y
  PROVE  <<x, y>> \in Order(s) <=> y \in ToSet(s) /\ Leads(s, x, y)
<1>1. \A i \in 1..Len(s) : s[i] \in ToSet(s)
  BY ListElements
<1> QED
  BY <1>1 DEF Order, Leads

(* Orders that hold the same pairs are equal. *)
LEMMA SameOrders ==
  ASSUME NEW s, NEW t,
         \A x, y : <<x, y>> \in Order(s) <=> <<x, y>> \in Order(t)
  PROVE  Order(s) = Order(t)
<1>1. \A o \in Order(s) : \E x, y : o = <<x, y>>
  BY DEF Order
<1>2. \A o \in Order(t) : \E x, y : o = <<x, y>>
  BY DEF Order
<1>3. ASSUME NEW o \in Order(s)
      PROVE  o \in Order(t)
  <2>1. PICK x, y : o = <<x, y>>
    BY <1>1
  <2> QED
    BY <2>1
<1>4. ASSUME NEW o \in Order(t)
      PROVE  o \in Order(s)
  <2>1. PICK x, y : o = <<x, y>>
    BY <1>2
  <2> QED
    BY <2>1
<1> QED
  BY <1>3, <1>4

(* Lists of the same values that lead each other alike have one order. *)
LEMMA SameRelations ==
  ASSUME NEW s, NEW t, IsList(s), IsList(t), ToSet(s) = ToSet(t),
         \A x, y : Leads(s, x, y) <=> Leads(t, x, y)
  PROVE  Order(s) = Order(t)
<1>1. \A x, y : <<x, y>> \in Order(s) <=> <<x, y>> \in Order(t)
  BY OrderRelates
<1> QED
  BY <1>1, SameOrders

(* Deduplication keeps the order of what F says of the values: a later     *)
(* repetition never comes first.                                           *)
LEMMA DedupKeepsOrder ==
  ASSUME NEW s, IsList(s), NEW F
  PROVE  Order(Told(F, StableDedup(s))) = Order(Told(F, s))
<1> DEFINE d == StableDedup(s)
           kept == Firsts(s)
           g == InOrderOf(kept, ByPosition(s))
           fs == Told(F, s)
           fd == Told(F, d)
<1>1. kept \in SUBSET (1..Len(s)) /\ Len(s) \in Nat
  BY ListElements DEF Firsts
<1>2. /\ IsList(d)
      /\ g \in [1..Len(d) -> kept]
      /\ \A p \in 1..Len(d) : d[p] = s[g[p]]
      /\ \A p, q \in 1..Len(d) : p < q <=> g[p] < g[q]
      /\ \A i \in kept : \E p \in 1..Len(d) : g[p] = i
  BY <1>1, KeptList DEF StableDedup
<1>3. Len(d) \in Nat
  BY <1>2, ListElements
<1> HIDE DEF d, kept, g
<1>4. /\ IsList(fs) /\ Len(fs) = Len(s)
      /\ \A i \in 1..Len(s) : fs[i] = F[s[i]]
      /\ IsList(fd) /\ Len(fd) = Len(d)
      /\ \A p \in 1..Len(d) : fd[p] = F[d[p]]
  <2> HIDE DEF fs, fd
  <2>1. /\ IsList(fs) /\ Len(fs) = Len(s)
        /\ \A i \in 1..Len(s) : fs[i] = F[s[i]]
    BY ToldIsList DEF fs
  <2>2. IsList(d)
    BY <1>2
  <2>3. /\ IsList(fd) /\ Len(fd) = Len(d)
        /\ \A p \in 1..Len(d) : fd[p] = F[d[p]]
    BY <2>2, ToldIsList DEF fd
  <2> QED
    BY <2>1, <2>3
<1>5. \A i \in 1..Len(s) :
         \E k \in kept : k \in 1..Len(s) /\ k <= i /\ s[k] = s[i]
  BY FirstOf DEF kept
<1> HIDE DEF fs, fd
<1>6. \A i \in 1..Len(s) :
         \E p \in 1..Len(d) : g[p] \in 1..Len(s) /\ g[p] <= i /\ d[p] = s[i]
  <2> TAKE i \in 1..Len(s)
  <2>1. PICK k \in kept : k \in 1..Len(s) /\ k <= i /\ s[k] = s[i]
    BY <1>5
  <2>2. PICK p \in 1..Len(d) : g[p] = k
    BY <1>2
  <2>3. d[p] = s[k]
    BY <1>2, <2>2
  <2> QED
    BY <2>1, <2>2, <2>3
<1>7. ToSet(fd) = ToSet(fs)
  <2>1. ASSUME NEW y \in ToSet(fs)
        PROVE  y \in ToSet(fd)
    <3>1. PICK i \in 1..Len(s) : F[s[i]] = y
      BY <1>4, ListElements
    <3>2. PICK p \in 1..Len(d) : d[p] = s[i]
      BY <1>6
    <3> QED
      BY <1>4, <3>1, <3>2, ListElements
  <2>2. ASSUME NEW y \in ToSet(fd)
        PROVE  y \in ToSet(fs)
    <3>1. PICK p \in 1..Len(d) : F[d[p]] = y
      BY <1>4, ListElements
    <3>2. g[p] \in 1..Len(s) /\ s[g[p]] = d[p]
      BY <1>1, <1>2
    <3> QED
      BY <1>4, <3>1, <3>2, ListElements
  <2> QED
    BY <2>1, <2>2
<1>8. ASSUME NEW x, NEW y, Leads(fs, x, y)
      PROVE  Leads(fd, x, y)
  <2>0. PICK i \in 1..Len(s) :
           fs[i] = x /\ \A j \in 1..(i - 1) : fs[j] # y
    BY <1>4, <1>8 DEF Leads
  <2>1. PICK p \in 1..Len(d) :
           g[p] \in 1..Len(s) /\ g[p] <= i /\ d[p] = s[i]
    BY <1>6
  <2>2. fd[p] = x
    BY <1>4, <2>0, <2>1
  <2>3. ASSUME NEW q \in 1..(p - 1)
        PROVE  fd[q] # y
    <3>1. q \in 1..Len(d) /\ q < p
      BY <1>3
    <3>2. g[q] \in 1..Len(s) /\ g[q] < g[p]
      BY <1>1, <1>2, <3>1
    <3>3. g[q] \in 1..(i - 1)
      BY <1>1, <2>1, <3>2
    <3>4. fd[q] = fs[g[q]]
      BY <1>2, <1>4, <3>1, <3>2
    <3> QED
      BY <2>0, <3>3, <3>4
  <2> QED
    BY <1>4, <2>2, <2>3 DEF Leads
<1>9. ASSUME NEW x, NEW y, Leads(fd, x, y)
      PROVE  Leads(fs, x, y)
  <2>0. PICK p \in 1..Len(d) :
           fd[p] = x /\ \A q \in 1..(p - 1) : fd[q] # y
    BY <1>4, <1>9 DEF Leads
  <2>1. g[p] \in 1..Len(s) /\ fs[g[p]] = x
    <3>1. g[p] \in 1..Len(s) /\ d[p] = s[g[p]]
      BY <1>1, <1>2
    <3>2. fd[p] = F[d[p]] /\ fs[g[p]] = F[s[g[p]]]
      BY <1>4, <3>1
    <3> QED
      BY <2>0, <3>1, <3>2
  <2>2. ASSUME NEW j \in 1..(g[p] - 1)
        PROVE  fs[j] # y
    <3>1. j \in 1..Len(s) /\ j < g[p]
      BY <1>1, <2>1
    <3>2. PICK q \in 1..Len(d) :
             g[q] \in 1..Len(s) /\ g[q] <= j /\ d[q] = s[j]
      BY <1>6, <3>1
    <3>3. g[q] < g[p]
      BY <2>1, <3>1, <3>2
    <3>4. q \in 1..(p - 1)
      BY <1>2, <1>3, <3>2, <3>3
    <3>5. fd[q] = fs[j]
      BY <1>4, <3>1, <3>2
    <3> QED
      BY <2>0, <3>4, <3>5
  <2> QED
    BY <1>4, <2>1, <2>2 DEF Leads
<1>10. Order(fd) = Order(fs)
  BY <1>4, <1>7, <1>8, <1>9, SameRelations
<1> QED
  BY <1>10 DEF fs, fd, d

(* The pairs of an order that relate two values. *)
Strictly(order) == {pair \in order : pair[1] # pair[2]}

(* A list without repetitions is told by its order. *)
LEMMA OrderTells ==
  ASSUME NEW d, IsList(d),
         \A p, q \in 1..Len(d) : d[p] = d[q] => p = q
  PROVE  d = InOrderOf(ToSet(d), Strictly(Order(d)))
<1> DEFINE n == Len(d)
           S == ToSet(d)
           before == Strictly(Order(d))
<1>1. /\ n \in Nat /\ IsFiniteSet(S)
      /\ d = [i \in 1..n |-> d[i]] /\ \A i \in 1..n : d[i] \in S
      /\ \A x \in S : \E i \in 1..n : d[i] = x
  BY ListElements, ListFinite
<1>2. \A p, q \in 1..n : d[p] = d[q] => p = q
  OBVIOUS
<1> HIDE DEF n, S, before
<1>3. \A p, q \in 1..n : <<d[p], d[q]>> \in before <=> p < q
  <2> SUFFICES ASSUME NEW p \in 1..n, NEW q \in 1..n
               PROVE  <<d[p], d[q]>> \in before <=> p < q
    OBVIOUS
  <2>1. <<d[p], d[q]>> \in Order(d) <=> Leads(d, d[p], d[q])
    BY <1>1, OrderRelates DEF S
  <2>2. Leads(d, d[p], d[q]) <=> \A j \in 1..(p - 1) : d[j] # d[q]
    BY <1>2 DEF Leads, n
  <2>3. (\A j \in 1..(p - 1) : d[j] # d[q]) <=> p <= q
    <3>1. CASE p <= q
      <4>1. \A j \in 1..(p - 1) : j \in 1..n /\ j # q
        BY <1>1, <3>1
      <4> QED
        BY <1>2, <3>1, <4>1
    <3>2. CASE ~(p <= q)
      <4>1. q \in 1..(p - 1)
        BY <1>1, <3>2
      <4> QED
        BY <3>2, <4>1
    <3> QED
      BY <3>1, <3>2
  <2>4. <<d[p], d[q]>> \in before <=>
           <<d[p], d[q]>> \in Order(d) /\ d[p] # d[q]
    BY DEF before, Strictly
  <2>5. d[p] # d[q] <=> p # q
    BY <1>2
  <2> QED
    BY <1>1, <2>1, <2>2, <2>3, <2>4, <2>5, SMTT(30)
<1>4. d \in [1..n -> S]
  BY <1>1
<1>5. Arranges(d, n, S, before)
  BY <1>1, <1>3, <1>4 DEF Arranges
<1>6. StrictTotalOrder(S, before)
  <2>1. ASSUME NEW x \in S
        PROVE  <<x, x>> \notin before
    <3>1. PICK p \in 1..n : d[p] = x
      BY <1>1
    <3>2. ~(p < p)
      BY <1>1
    <3> QED
      BY <1>3, <3>1, <3>2
  <2>2. ASSUME NEW x \in S, NEW y \in S, NEW z \in S,
               <<x, y>> \in before, <<y, z>> \in before
        PROVE  <<x, z>> \in before
    <3>1. PICK p \in 1..n : d[p] = x
      BY <1>1
    <3>2. PICK q \in 1..n : d[q] = y
      BY <1>1
    <3>3. PICK r \in 1..n : d[r] = z
      BY <1>1
    <3>4. p < q /\ q < r
      BY <1>3, <2>2, <3>1, <3>2, <3>3
    <3>5. p < r
      BY <1>1, <3>4
    <3> QED
      BY <1>3, <3>1, <3>3, <3>5
  <2>3. ASSUME NEW x \in S, NEW y \in S, x # y
        PROVE  <<x, y>> \in before \/ <<y, x>> \in before
    <3>1. PICK p \in 1..n : d[p] = x
      BY <1>1
    <3>2. PICK q \in 1..n : d[q] = y
      BY <1>1
    <3>3. p < q \/ q < p
      BY <1>1, <2>3, <3>1, <3>2
    <3> QED
      BY <1>3, <3>1, <3>2, <3>3
  <2> QED
    BY <2>1, <2>2, <2>3 DEF StrictTotalOrder
<1>7. d = InOrderOf(S, before)
  BY <1>1, <1>5, <1>6, OnlyArrangement
<1> QED
  BY <1>7 DEF S, before

(* The values of a list are those that its order relates to themselves. *)
LEMMA OrderHasValues ==
  ASSUME NEW s, IsList(s)
  PROVE  \A x : x \in ToSet(s) <=> <<x, x>> \in Order(s)
<1> TAKE x
<1>1. <<x, x>> \in Order(s) <=> x \in ToSet(s) /\ Leads(s, x, x)
  BY OrderRelates
<1>2. ASSUME x \in ToSet(s)
      PROVE  Leads(s, x, x)
  <2>1. PICK i \in 1..Len(s) : s[i] = x
    BY <1>2, ListElements
  <2>2. PICK k \in Firsts(s) : k \in 1..Len(s) /\ s[k] = s[i]
    BY FirstOf
  <2> QED
    BY <2>1, <2>2 DEF Leads, Firsts
<1> QED
  BY <1>1, <1>2

(* Deduplication depends on the order alone. *)
LEMMA SameOrderSameDedup ==
  ASSUME NEW s, NEW t, IsList(s), IsList(t), Order(s) = Order(t)
  PROVE  StableDedup(s) = StableDedup(t)
<1>1. ASSUME NEW u, IsList(u)
      PROVE  Order(StableDedup(u)) = Order(u)
  <2> DEFINE F == [x \in ToSet(u) |-> x]
             d == StableDedup(u)
  <2>1. IsList(d) /\ ToSet(d) = ToSet(u)
    BY <1>1, DedupKeeps
  <2>2. Order(Told(F, d)) = Order(Told(F, u))
    BY <1>1, DedupKeepsOrder
  <2>3. \A x \in ToSet(u) : F[x] = x
    OBVIOUS
  <2> HIDE DEF F, d
  <2>4. Told(F, d) = d
    <3>1. /\ d = [i \in 1..Len(d) |-> d[i]]
          /\ \A i \in 1..Len(d) : d[i] \in ToSet(u)
      BY <2>1, ListElements
    <3> QED
      BY <2>3, <3>1 DEF Told
  <2>5. Told(F, u) = u
    <3>1. /\ u = [i \in 1..Len(u) |-> u[i]]
          /\ \A i \in 1..Len(u) : u[i] \in ToSet(u)
      BY <1>1, ListElements
    <3> QED
      BY <2>3, <3>1 DEF Told
  <2> QED
    BY <2>2, <2>4, <2>5 DEF d
<1> DEFINE d == StableDedup(s)
           e == StableDedup(t)
<1>2. Order(d) = Order(e)
  BY <1>1
<1>3. ToSet(d) = ToSet(e)
  <2>1. ToSet(d) = ToSet(s) /\ ToSet(e) = ToSet(t)
    BY DedupKeeps
  <2>2. \A x : x \in ToSet(s) <=> x \in ToSet(t)
    BY OrderHasValues
  <2> QED
    BY <2>1, <2>2
<1>4. d = InOrderOf(ToSet(d), Strictly(Order(d)))
  <2>1. /\ IsList(d)
        /\ \A p, q \in 1..Len(d) : d[p] = d[q] => p = q
    BY DedupKeeps
  <2> HIDE DEF d
  <2> QED
    BY <2>1, OrderTells
<1>5. e = InOrderOf(ToSet(e), Strictly(Order(e)))
  <2>1. /\ IsList(e)
        /\ \A p, q \in 1..Len(e) : e[p] = e[q] => p = q
    BY DedupKeeps
  <2> HIDE DEF e
  <2> QED
    BY <2>1, OrderTells
<1> HIDE DEF d, e
<1>6. d = e
  BY <1>2, <1>3, <1>4, <1>5
<1> QED
  BY <1>6 DEF d, e

(* If what F says of values tells them apart, the order of what it says    *)
(* tells theirs.                                                           *)
LEMMA ToldOrder ==
  ASSUME NEW s, NEW t, IsList(s), IsList(t), NEW F,
         \A x, y \in ToSet(s) \cup ToSet(t) : F[x] = F[y] => x = y,
         Order(Told(F, s)) = Order(Told(F, t))
  PROVE  Order(s) = Order(t)
<1> DEFINE U == ToSet(s) \cup ToSet(t)
<1>1. ASSUME NEW u, IsList(u), ToSet(u) \subseteq U
      PROVE  /\ \A x \in U : x \in ToSet(u) <=> F[x] \in ToSet(Told(F, u))
             /\ \A x, y \in U : Leads(u, x, y)
                                   <=> Leads(Told(F, u), F[x], F[y])
  <2> DEFINE fu == Told(F, u)
  <2>1. /\ IsList(fu) /\ Len(fu) = Len(u)
        /\ \A i \in 1..Len(u) : fu[i] = F[u[i]]
    BY <1>1, ToldIsList
  <2>2. /\ \A i \in 1..Len(u) : u[i] \in U
        /\ \A i \in 1..Len(u) : u[i] \in ToSet(u)
        /\ \A x \in ToSet(u) : \E i \in 1..Len(u) : u[i] = x
        /\ Len(u) \in Nat
    BY <1>1, ListElements
  <2> HIDE DEF fu, U
  <2>3. \A i \in 1..Len(u) : \A x \in U : u[i] = x <=> fu[i] = F[x]
    BY <2>1, <2>2 DEF U
  <2>4. ASSUME NEW x \in U
        PROVE  x \in ToSet(u) <=> F[x] \in ToSet(fu)
    <3>1. /\ \A i \in 1..Len(u) : fu[i] \in ToSet(fu)
          /\ \A y \in ToSet(fu) : \E i \in 1..Len(u) : fu[i] = y
      BY <2>1, ListElements
    <3> QED
      BY <2>2, <2>3, <3>1
  <2>5. ASSUME NEW x \in U, NEW y \in U
        PROVE  Leads(u, x, y) <=> Leads(fu, F[x], F[y])
    <3>1. \A i \in 1..Len(u) : \A j \in 1..(i - 1) : j \in 1..Len(u)
      BY <2>2
    <3>2. \A i \in 1..Len(u) : u[i] = x <=> fu[i] = F[x]
      BY <2>3
    <3>3. \A i \in 1..Len(u) : u[i] = y <=> fu[i] = F[y]
      BY <2>3
    <3> QED
      BY <2>1, <3>1, <3>2, <3>3 DEF Leads
  <2> QED
    BY <2>4, <2>5 DEF fu
<1> DEFINE fs == Told(F, s)
           ft == Told(F, t)
<1>2. /\ \A x \in U : x \in ToSet(s) <=> F[x] \in ToSet(fs)
      /\ \A x, y \in U : Leads(s, x, y) <=> Leads(fs, F[x], F[y])
  BY <1>1
<1>3. /\ \A x \in U : x \in ToSet(t) <=> F[x] \in ToSet(ft)
      /\ \A x, y \in U : Leads(t, x, y) <=> Leads(ft, F[x], F[y])
  BY <1>1
<1>4. IsList(fs) /\ IsList(ft) /\ Order(fs) = Order(ft)
  BY ToldIsList
<1> HIDE DEF fs, ft, U
<1>5. ToSet(fs) = ToSet(ft)
  <2>1. \A x : x \in ToSet(fs) <=> x \in ToSet(ft)
    BY <1>4, OrderHasValues
  <2> QED
    BY <2>1
<1>6. \A x, y : y \in ToSet(fs) => (Leads(fs, x, y) <=> Leads(ft, x, y))
  BY <1>4, <1>5, OrderRelates
<1>7. ToSet(s) = ToSet(t)
  BY <1>2, <1>3, <1>5 DEF U
<1>8. \A x, y \in ToSet(s) : Leads(s, x, y) <=> Leads(t, x, y)
  <2> SUFFICES ASSUME NEW x \in ToSet(s), NEW y \in ToSet(s)
               PROVE  Leads(s, x, y) <=> Leads(t, x, y)
    OBVIOUS
  <2>1. x \in U /\ y \in U
    BY DEF U
  <2> QED
    BY <1>2, <1>3, <1>6, <2>1
<1>9. \A x, y : <<x, y>> \in Order(s) <=> <<x, y>> \in Order(t)
  <2> SUFFICES ASSUME NEW x, NEW y
               PROVE  <<x, y>> \in Order(s) <=> <<x, y>> \in Order(t)
    OBVIOUS
  <2>1. \A u : IsList(u) /\ <<x, y>> \in Order(u)
                  => x \in ToSet(u) /\ y \in ToSet(u)
    BY DEF Order
  <2>2. <<x, y>> \in Order(s) <=> y \in ToSet(s) /\ Leads(s, x, y)
    BY OrderRelates
  <2>3. <<x, y>> \in Order(t) <=> y \in ToSet(t) /\ Leads(t, x, y)
    BY OrderRelates
  <2> QED
    BY <1>7, <1>8, <2>1, <2>2, <2>3
<1> QED
  BY <1>9, SameOrders

-----------------------------------------------------------------------------
(* Paths of tasks. *)

(* A path that is present has a segment. *)
LEMMA NotEmpty ==
  ASSUME NEW path, IsList(path), path # NoPath
  PROVE  Len(path) \in Nat /\ Len(path) > 0
<1>1. Len(path) \in Nat /\ path = [i \in 1..Len(path) |-> path[i]]
  BY ListElements
<1>2. ASSUME Len(path) = 0
      PROVE  path = NoPath
  <2>1. path \in Seq({path[i] : i \in 1..Len(path)})
    BY <1>1
  <2> QED
    BY <1>2, <2>1 DEF NoPath
<1> QED
  BY <1>1, <1>2

(* What normalize_project_path strips is a number of dots. *)
Strips(path, n) ==
    /\ n \in 0..(Len(path) - 1)
    /\ \A i \in 1..n : path[i] = "."
    /\ n + 1 < Len(path) => path[n + 1] # "."

(* What is left of a path once leading dots are stripped: its last         *)
(* segments.                                                               *)
LEMMA Stripped ==
  ASSUME NEW path, IsList(path), path # NoPath
  PROVE  \E n : /\ Strips(path, n)
                /\ IsList(ProjectPath(path))
                /\ Len(ProjectPath(path)) = Len(path) - n
                /\ \A i \in 1..(Len(path) - n) :
                      ProjectPath(path)[i] = path[i + n]
<1>1. Len(path) \in Nat /\ Len(path) > 0
  BY NotEmpty
<1> DEFINE Dots(n) == \A i \in 1..n : path[i] = "."
           Fits(n) == Dots(n) /\ (n + 1 < Len(path) => ~Dots(n + 1))
           ends == {n \in 0..(Len(path) - 1) :
                       n + 1 < Len(path) => path[n + 1] # "."}
           m == CHOOSE n \in 0..(Len(path) - 1) : Fits(n)
<1>2. Len(path) - 1 \in ends /\ ends \subseteq Nat
  BY <1>1
<1>3. PICK least \in ends : \A n \in ends : least <= n
  BY <1>2, LeastNumber, Zenon
<1>4. least \in 0..(Len(path) - 1)
  OBVIOUS
<1>5. ASSUME NEW i \in 1..least
      PROVE  path[i] = "."
  <2>1. i - 1 \in 0..(Len(path) - 1) /\ ~(least <= i - 1) /\ i < Len(path)
    BY <1>1, <1>4
  <2>2. i - 1 \notin ends
    BY <1>3, <2>1
  <2> QED
    BY <1>1, <2>1, <2>2
<1>6. Fits(least)
  <2>1. least + 1 < Len(path) => path[least + 1] # "."
    OBVIOUS
  <2>2. least + 1 \in 1..(least + 1)
    BY <1>1, <1>4
  <2> QED
    BY <1>5, <2>1, <2>2
<1>7. m \in 0..(Len(path) - 1) /\ Fits(m)
  BY <1>4, <1>6
<1>8. Strips(path, m)
  <2>1. \A i \in 1..(m + 1) : i \in 1..m \/ i = m + 1
    BY <1>1, <1>7
  <2> QED
    BY <1>7, <2>1 DEF Strips
<1>9. ProjectPath(path) = SubSeq(path, m + 1, Len(path))
  BY DEF ProjectPath
<1> HIDE DEF m, Fits, ends
<1> DEFINE r == ProjectPath(path)
           l == Len(path) - m
<1>10. r = [i \in 1..l |-> path[i + m]]
  <2>1. /\ m + 1 \in Int /\ Len(path) \in Int /\ m + 1 <= Len(path)
        /\ Len(path) - (m + 1) + 1 = l
    BY <1>1, <1>7
  <2>2. \A i \in (m + 1)..Len(path) : path[i] \in ToSet(path)
    BY <1>1, <1>7, ListElements
  <2> DEFINE u == SubSeq(path, m + 1, Len(path))
  <2>3. /\ u \in Seq(ToSet(path))
        /\ Len(u) = IF m + 1 <= Len(path) THEN Len(path) - (m + 1) + 1 ELSE 0
        /\ \A i \in 1..(Len(path) - (m + 1) + 1) : u[i] = path[(m + 1) + i - 1]
    BY <2>1, <2>2, SubSeqProperties
  <2> HIDE DEF u
  <2>4. \A i \in 1..l : u[i] = path[i + m]
    <3> TAKE i \in 1..l
    <3>1. (m + 1) + i - 1 = i + m
      BY <1>7, <2>1
    <3> QED
      BY <2>1, <2>3, <3>1
  <2>5. u = [i \in 1..l |-> u[i]]
    BY <2>1, <2>3
  <2> QED
    BY <1>9, <2>4, <2>5 DEF u
<1>11. l \in Nat
  BY <1>1, <1>7
<1> HIDE DEF l, r
<1>12. r = [i \in 1..l |-> r[i]] /\ \A i \in 1..l : r[i] = path[i + m]
  BY <1>10
<1>13. IsList(r) /\ Len(r) = l
  BY <1>11, <1>12, ListMade
<1> QED
  BY <1>8, <1>12, <1>13 DEF r, l

(* The names in the first n segments. *)
NamesIn(path, n) == {i \in 1..n : path[i] # "."}

(* A path and what is left of it mean one place. *)
LEMMA SamePlace ==
  ASSUME NEW path, IsList(path), path # NoPath
  PROVE  Place(ProjectPath(path)) = Place(path)
<1> DEFINE r == ProjectPath(path)
           Depth(p, i) == Cardinality(NamesIn(p, i))
<1>1. PICK n : /\ Strips(path, n) /\ IsList(r) /\ Len(r) = Len(path) - n
               /\ \A i \in 1..(Len(path) - n) : r[i] = path[i + n]
  BY Stripped
<1>2. /\ Len(path) \in Nat /\ n \in Nat /\ n < Len(path)
      /\ \A i \in 1..n : path[i] = "."
  BY <1>1, NotEmpty DEF Strips
<1> HIDE DEF r
<1>3. ASSUME NEW k \in 1..Len(r)
      PROVE  Depth(r, k) = Depth(path, k + n)
  <2> DEFINE A == NamesIn(r, k)
             B == NamesIn(path, k + n)
             f == [i \in A |-> i + n]
  <2>1. k \in Nat /\ k <= Len(path) - n
    BY <1>1, <1>2
  <2>2. \A i \in A : i \in 1..k /\ r[i] # "." /\ r[i] = path[i + n]
    BY <1>1, <1>2, <2>1 DEF NamesIn
  <2>3. f \in [A -> B]
    BY <1>2, <2>1, <2>2 DEF NamesIn
  <2>4. \A i, j \in A : f[i] = f[j] => i = j
    BY <1>2, <2>1, <2>2
  <2>5. ASSUME NEW j \in B
        PROVE  \E i \in A : f[i] = j
    <3>1. j \in 1..(k + n) /\ path[j] # "."
      BY DEF NamesIn
    <3>2. ~(j \in 1..n)
      BY <1>2, <3>1
    <3>3. j - n \in 1..k /\ (j - n) + n = j
      BY <1>2, <2>1, <3>1, <3>2
    <3>4. r[j - n] = path[j]
      <4>1. j - n \in 1..(Len(path) - n)
        BY <1>2, <2>1, <3>3
      <4>2. r[j - n] = path[(j - n) + n]
        BY <1>1, <4>1
      <4> QED
        BY <3>3, <4>2
    <3>5. j - n \in A
      BY <3>1, <3>3, <3>4 DEF NamesIn
    <3> QED
      BY <3>3, <3>5
  <2>6. IsFiniteSet(A)
    <3>1. IsFiniteSet(1..k)
      BY <2>1, FS_Interval
    <3>2. A \subseteq 1..k
      BY <2>2
    <3> QED
      BY <3>1, <3>2, FS_Subset, Zenon
  <2> HIDE DEF A, B, f
  <2>7. f \in Bijection(A, B)
    BY <2>3, <2>4, <2>5, Fun_IsBij
  <2> QED
    BY <2>6, <2>7, FS_Bijection DEF ExistsBijection, A, B
<1> HIDE DEF Depth
<1>4. \A p, e : e \in Place(p) <=>
         \E i \in 1..Len(p) : p[i] # "." /\ e = <<Depth(p, i), p[i]>>
  BY DEF Place, Depth, NamesIn
<1>5. ASSUME NEW e \in Place(r)
      PROVE  e \in Place(path)
  <2>1. PICK i \in 1..Len(r) : r[i] # "." /\ e = <<Depth(r, i), r[i]>>
    BY <1>4
  <2>2. i + n \in 1..Len(path) /\ r[i] = path[i + n]
    BY <1>1, <1>2
  <2> QED
    BY <1>3, <1>4, <2>1, <2>2
<1>6. ASSUME NEW e \in Place(path)
      PROVE  e \in Place(r)
  <2>1. PICK j \in 1..Len(path) :
           path[j] # "." /\ e = <<Depth(path, j), path[j]>>
    BY <1>4
  <2>2. ~(j \in 1..n)
    BY <1>2, <2>1
  <2>3. j - n \in 1..Len(r) /\ (j - n) + n = j
    BY <1>1, <1>2, <2>2
  <2>4. r[j - n] = path[j]
    BY <1>1, <2>3
  <2>5. Depth(r, j - n) = Depth(path, j)
    BY <1>3, <2>3
  <2> QED
    BY <1>4, <2>1, <2>3, <2>4, <2>5
<1>7. Place(r) = Place(path)
  BY <1>5, <1>6
<1> QED
  BY <1>7 DEF r

(* Stripping again strips nothing. *)
LEMMA StrippedOnce ==
  ASSUME NEW path, IsList(path), path # NoPath
  PROVE  /\ IsList(ProjectPath(path)) /\ ProjectPath(path) # NoPath
         /\ ProjectPath(ProjectPath(path)) = ProjectPath(path)
<1> DEFINE r == ProjectPath(path)
           q == ProjectPath(r)
<1>1. PICK n : /\ Strips(path, n) /\ IsList(r) /\ Len(r) = Len(path) - n
               /\ \A i \in 1..(Len(path) - n) : r[i] = path[i + n]
  BY Stripped
<1>2. /\ Len(path) \in Nat /\ n \in Nat /\ n < Len(path)
      /\ n + 1 < Len(path) => path[n + 1] # "."
  BY <1>1, NotEmpty DEF Strips
<1> HIDE DEF r
<1>3. r # NoPath
  <2>1. Len(NoPath) = 0
    BY DEF NoPath
  <2> QED
    BY <1>1, <1>2, <2>1
<1>4. PICK m : /\ Strips(r, m) /\ IsList(q) /\ Len(q) = Len(r) - m
               /\ \A i \in 1..(Len(r) - m) : q[i] = r[i + m]
  BY <1>1, <1>3, Stripped
<1>5. m = 0
  <2>1. m \in 0..(Len(r) - 1) /\ \A i \in 1..m : r[i] = "."
    BY <1>4 DEF Strips
  <2>2. ASSUME m # 0
        PROVE  FALSE
    <3>1. r[1] = "." /\ 1 < Len(r)
      BY <1>1, <1>2, <2>1, <2>2
    <3>2. r[1] = path[n + 1] /\ n + 1 < Len(path)
      BY <1>1, <1>2, <3>1
    <3> QED
      BY <1>2, <3>1, <3>2
  <2> QED
    BY <2>2
<1> HIDE DEF q
<1>6. q = r
  <2>1. Len(r) \in Nat
    BY <1>1, <1>2
  <2>2. Len(q) = Len(r) /\ \A i \in 1..Len(r) : q[i] = r[i]
    BY <1>4, <1>5, <2>1
  <2> QED
    BY <1>1, <1>4, <2>2, ListsEqual
<1> QED
  BY <1>1, <1>3, <1>6 DEF q, r

-----------------------------------------------------------------------------
(* Checksums and sources. *)

(* What a list of normalized values holds. *)
LEMMA ToldValues ==
  ASSUME NEW s, IsList(s), NEW F
  PROVE  \A x : x \in ToSet(Told(F, s)) <=> \E y \in ToSet(s) : F[y] = x
<1> DEFINE t == Told(F, s)
<1>1. /\ IsList(t) /\ Len(t) = Len(s)
      /\ \A i \in 1..Len(s) : t[i] = F[s[i]]
  BY ToldIsList
<1> HIDE DEF t
<1>2. /\ \A i \in 1..Len(s) : s[i] \in ToSet(s)
      /\ \A y \in ToSet(s) : \E i \in 1..Len(s) : s[i] = y
      /\ \A i \in 1..Len(t) : t[i] \in ToSet(t)
      /\ \A x \in ToSet(t) : \E i \in 1..Len(t) : t[i] = x
  BY <1>1, ListElements
<1>3. \A x \in ToSet(t) : \E y \in ToSet(s) : F[y] = x
  BY <1>1, <1>2
<1>4. \A y \in ToSet(s) : F[y] \in ToSet(t)
  BY <1>1, <1>2
<1> QED
  BY <1>3, <1>4 DEF t

(* normalize_checksum writes small letters without spaces. *)
LEMMA ChecksumNormal ==
  ASSUME NEW c, IsChecksum(c)
  PROVE  NormalizedChecksum(c) =
            [algorithm |-> c.algorithm, of |-> c.of, whole |-> c.whole,
             upper |-> FALSE, padded |-> FALSE]
BY DEF NormalizedChecksum

(* The normalized checksums of a list hold each of them, and nothing else. *)
LEMMA ChecksumsListed ==
  ASSUME NEW s, AreChecksums(s)
  PROVE  /\ IsList(NormalizedChecksums(s))
         /\ \A x : x \in ToSet(NormalizedChecksums(s))
                      <=> \E c \in ToSet(s) : NormalizedChecksum(c) = x
         /\ \A c \in ToSet(s) : IsChecksum(c)
         /\ ValidChecksums(s) <=> \A c \in ToSet(s) : c.whole
<1> DEFINE F == [c \in ToSet(s) |-> NormalizedChecksum(c)]
           t == Told(F, s)
<1>1. /\ IsList(s) /\ Len(s) \in Nat
      /\ \A i \in 1..Len(s) : s[i] \in ToSet(s)
      /\ \A c \in ToSet(s) : \E i \in 1..Len(s) : s[i] = c
  BY ListElements DEF AreChecksums
<1>2. /\ IsList(t)
      /\ \A x : x \in ToSet(t) <=> \E c \in ToSet(s) : F[c] = x
  <2> HIDE DEF F
  <2> QED
    BY <1>1, ToldIsList, ToldValues
<1>3. t = [i \in 1..Len(s) |-> NormalizedChecksum(s[i])]
  BY <1>1 DEF Told
<1>4. NormalizedChecksums(s) = SortedStrings(t)
  BY <1>3 DEF NormalizedChecksums
<1>5. \A c \in ToSet(s) : F[c] = NormalizedChecksum(c)
  OBVIOUS
<1> HIDE DEF t, F
<1>6. IsList(SortedStrings(t)) /\ ToSet(SortedStrings(t)) = ToSet(t)
  BY <1>2, StringsSorted
<1>7. \A c \in ToSet(s) : IsChecksum(c)
  BY <1>1 DEF AreChecksums
<1>8. ValidChecksums(s) <=> \A c \in ToSet(s) : c.whole
  BY <1>1 DEF ValidChecksums, ValidChecksum
<1> QED
  BY <1>2, <1>4, <1>5, <1>6, <1>7, <1>8

(* Normalized checksums mean the same and are as valid. *)
LEMMA ChecksumsNormal ==
  ASSUME NEW s, AreChecksums(s)
  PROVE  /\ AreChecksums(NormalizedChecksums(s))
         /\ ChecksumMeaning(NormalizedChecksums(s)) = ChecksumMeaning(s)
         /\ ValidChecksums(NormalizedChecksums(s)) <=> ValidChecksums(s)
<1> DEFINE t == NormalizedChecksums(s)
<1>1. /\ IsList(t)
      /\ \A x : x \in ToSet(t)
                   <=> \E c \in ToSet(s) : NormalizedChecksum(c) = x
      /\ \A c \in ToSet(s) : IsChecksum(c)
      /\ ValidChecksums(s) <=> \A c \in ToSet(s) : c.whole
  BY ChecksumsListed
<1> HIDE DEF t
<1>2. \A c \in ToSet(s) :
         LET n == NormalizedChecksum(c)
         IN  /\ n \in ToSet(t) /\ IsChecksum(n)
             /\ n.algorithm = c.algorithm /\ n.of = c.of /\ n.whole = c.whole
  BY <1>1, ChecksumNormal DEF IsChecksum
<1>3. AreChecksums(t)
  <2>1. \A i \in 1..Len(t) : t[i] \in ToSet(t)
    BY <1>1, ListElements
  <2>2. \A x \in ToSet(t) : IsChecksum(x)
    BY <1>1, <1>2
  <2> QED
    BY <1>1, <2>1, <2>2 DEF AreChecksums
<1>4. ValidChecksums(t) <=> \A x \in ToSet(t) : x.whole
  BY <1>3, ChecksumsListed
<1>5. ChecksumMeaning(t) = ChecksumMeaning(s)
  <2>1. ASSUME NEW m \in ChecksumMeaning(t)
        PROVE  m \in ChecksumMeaning(s)
    <3>1. PICK x \in ToSet(t) : m = <<x.algorithm, x.of>>
      BY DEF ChecksumMeaning
    <3>2. PICK c \in ToSet(s) : NormalizedChecksum(c) = x
      BY <1>1
    <3> QED
      BY <1>2, <3>1, <3>2 DEF ChecksumMeaning
  <2>2. ASSUME NEW m \in ChecksumMeaning(s)
        PROVE  m \in ChecksumMeaning(t)
    <3>1. PICK c \in ToSet(s) : m = <<c.algorithm, c.of>>
      BY DEF ChecksumMeaning
    <3> QED
      BY <1>2, <3>1 DEF ChecksumMeaning
  <2> QED
    BY <2>1, <2>2
<1>6. ValidChecksums(t) <=> ValidChecksums(s)
  BY <1>1, <1>2, <1>4
<1> QED
  BY <1>3, <1>5, <1>6 DEF t

(* Checksums that mean the same have one normal form, in whatever order    *)
(* and case they come.                                                     *)
LEMMA ChecksumsTold ==
  ASSUME NEW s, NEW t, AreChecksums(s), AreChecksums(t),
         ValidChecksums(s), ValidChecksums(t),
         ChecksumMeaning(s) = ChecksumMeaning(t)
  PROVE  NormalizedChecksums(s) = NormalizedChecksums(t)
<1>1. ASSUME NEW a, NEW b, AreChecksums(a), AreChecksums(b),
             ValidChecksums(a), ValidChecksums(b),
             ChecksumMeaning(a) = ChecksumMeaning(b),
             NEW x \in ToSet(NormalizedChecksums(a))
      PROVE  x \in ToSet(NormalizedChecksums(b))
  <2>1. /\ \A y : y \in ToSet(NormalizedChecksums(a))
                    <=> \E c \in ToSet(a) : NormalizedChecksum(c) = y
        /\ \A c \in ToSet(a) : IsChecksum(c) /\ c.whole
    BY <1>1, ChecksumsListed
  <2>2. /\ \A y : y \in ToSet(NormalizedChecksums(b))
                    <=> \E c \in ToSet(b) : NormalizedChecksum(c) = y
        /\ \A c \in ToSet(b) : IsChecksum(c) /\ c.whole
    BY <1>1, ChecksumsListed
  <2>3. PICK c \in ToSet(a) : NormalizedChecksum(c) = x
    BY <1>1, <2>1
  <2>4. <<c.algorithm, c.of>> \in ChecksumMeaning(b)
    BY <1>1, <2>3 DEF ChecksumMeaning
  <2>5. PICK d \in ToSet(b) : <<c.algorithm, c.of>> = <<d.algorithm, d.of>>
    BY <2>4 DEF ChecksumMeaning
  <2>6. c.whole = TRUE /\ d.whole = TRUE
    BY <2>1, <2>2 DEF IsChecksum
  <2>7. NormalizedChecksum(c) = NormalizedChecksum(d)
    BY <2>5, <2>6 DEF NormalizedChecksum
  <2> QED
    BY <2>2, <2>3, <2>7
<1>2. ToSet(NormalizedChecksums(s)) = ToSet(NormalizedChecksums(t))
  <2>1. \A x \in ToSet(NormalizedChecksums(s)) :
           x \in ToSet(NormalizedChecksums(t))
    BY <1>1
  <2>2. \A x \in ToSet(NormalizedChecksums(t)) :
           x \in ToSet(NormalizedChecksums(s))
    BY <1>1
  <2> QED
    BY <2>1, <2>2
<1>3. ASSUME NEW a, AreChecksums(a)
      PROVE  NormalizedChecksums(a) = SetToSeq(ToSet(NormalizedChecksums(a)))
  <2> DEFINE u == [i \in 1..Len(a) |-> NormalizedChecksum(a[i])]
  <2>1. IsList(u)
    <3>1. Len(a) \in Nat
      BY <1>3, ListElements DEF AreChecksums
    <3>2. u = [i \in 1..Len(a) |-> u[i]]
      OBVIOUS
    <3> HIDE DEF u
    <3> QED
      BY <3>1, <3>2, ListMade
  <2>2. NormalizedChecksums(a) = SortedStrings(u)
    BY DEF NormalizedChecksums
  <2> HIDE DEF u
  <2>3. ToSet(SortedStrings(u)) = ToSet(u)
    BY <2>1, StringsSorted
  <2> QED
    BY <2>2, <2>3 DEF SortedStrings
<1> QED
  BY <1>2, <1>3

(* A path that is valid relative to the project has no dots to strip. *)
LEMMA RelativeStays ==
  ASSUME NEW path, IsList(path), ValidRelativePath(path)
  PROVE  NormalizedPath(path) = path
<1> SUFFICES ASSUME path # NoPath
             PROVE  ProjectPath(path) = path
  BY DEF NormalizedPath
<1> DEFINE r == ProjectPath(path)
<1>1. PICK n : /\ Strips(path, n) /\ IsList(r) /\ Len(r) = Len(path) - n
               /\ \A i \in 1..(Len(path) - n) : r[i] = path[i + n]
  BY Stripped
<1> HIDE DEF r
<1>2. /\ Len(path) \in Nat /\ n \in Nat /\ n < Len(path)
      /\ \A i \in 1..n : path[i] = "."
  BY <1>1, NotEmpty DEF Strips
<1>3. n = 0
  <2> SUFFICES ASSUME n # 0
               PROVE  FALSE
    OBVIOUS
  <2>1. 1 \in 1..n /\ 1 \in 1..Len(path)
    BY <1>2
  <2>2. path[1] = "." /\ path[1] # "."
    BY <1>2, <2>1 DEF ValidRelativePath
  <2> QED
    BY <2>2
<1>4. Len(r) = Len(path) /\ \A i \in 1..Len(path) : r[i] = path[i]
  BY <1>1, <1>2, <1>3
<1>5. r = path
  BY <1>1, <1>4, ListsEqual
<1> QED
  BY <1>5 DEF r

(* A source is no absence of one. *)
LEMMA SomeSource ==
  /\ \A a, b, c, d : [url |-> a, revision |-> b, subdir |-> c,
                      checksums |-> d] # NoSource
  /\ \A x : IsSource(x) => x # NoSource /\ SourceMeaning(x) # NoSource
<1>1. \A a, b, c, d : [url |-> a, revision |-> b, subdir |-> c,
                       checksums |-> d] # NoSource
  <2> SUFFICES ASSUME NEW a, NEW b, NEW c, NEW d,
                      [url |-> a, revision |-> b, subdir |-> c,
                       checksums |-> d] = [url |-> BlankText]
               PROVE  FALSE
    BY DEF NoSource
  <2>1. "subdir" \in DOMAIN [url |-> a, revision |-> b, subdir |-> c,
                             checksums |-> d]
    OBVIOUS
  <2>2. "subdir" \notin DOMAIN [url |-> BlankText]
    OBVIOUS
  <2> QED
    BY <2>1, <2>2
<1>2. ASSUME NEW x, IsSource(x)
      PROVE  x # NoSource /\ SourceMeaning(x) # NoSource
  <2>1. x # NoSource
    <3>1. PICK a, b, c, d : x = [url |-> a, revision |-> b, subdir |-> c,
                                 checksums |-> d]
      BY <1>2 DEF IsSource
    <3> QED
      BY <1>1, <3>1
  <2>2. \E a, b, c, d : SourceMeaning(x) =
           [url |-> a, revision |-> b, subdir |-> c, checksums |-> d]
    BY <2>1, Zenon DEF SourceMeaning
  <2> QED
    BY <1>1, <2>1, <2>2
<1> QED
  BY <1>1, <1>2

(* A source in normal form means the same and is as valid, in every mode. *)
LEMMA SourceNormal ==
  ASSUME NEW x, IsSource(x), ValidImmutableSource(x, "authoring"),
         WholeSource(x)
  PROVE  LET n == NormalizedImmutableSource(x)
         IN  /\ IsSource(n) /\ n # NoSource /\ WholeSource(n)
             /\ SourceMeaning(n) = SourceMeaning(x)
             /\ \A mode : ValidImmutableSource(n, mode)
                             <=> ValidImmutableSource(x, mode)
<1> DEFINE n == NormalizedImmutableSource(x)
           checksums == NormalizedChecksums(x.checksums)
<1>1. x # NoSource
  BY SomeSource
<1>2. /\ IsText(x.url) /\ IsRevision(x.revision)
      /\ IsList(x.subdir) /\ AreChecksums(x.checksums)
  BY DEF IsSource
<1>3. NormalizedPath(x.subdir) = x.subdir
  <2>1. CASE x.subdir = NoPath
    BY <2>1 DEF NormalizedPath
  <2>2. CASE x.subdir # NoPath
    BY <1>2, <2>2, RelativeStays DEF ValidImmutableSource
  <2> QED
    BY <2>1, <2>2
<1>4. /\ AreChecksums(checksums)
      /\ ChecksumMeaning(checksums) = ChecksumMeaning(x.checksums)
      /\ ValidChecksums(checksums) <=> ValidChecksums(x.checksums)
  BY <1>2, ChecksumsNormal
<1> HIDE DEF checksums
<1>5. n = [url |-> [is |-> x.url.is, padded |-> FALSE],
           revision |-> [is |-> x.revision.is,
                         immutable |-> x.revision.immutable,
                         upper |-> FALSE, padded |-> FALSE],
           subdir |-> x.subdir, checksums |-> checksums]
  BY <1>3 DEF NormalizedImmutableSource, checksums, Trimmed
<1>6. n # NoSource
  BY <1>5, SomeSource
<1> HIDE DEF n
<1>7. /\ n.url.is = x.url.is /\ n.revision.is = x.revision.is
      /\ n.revision.immutable = x.revision.immutable
      /\ n.revision.upper = FALSE
      /\ n.subdir = x.subdir /\ n.checksums = checksums
      /\ x.revision.immutable \in BOOLEAN /\ x.revision.upper \in BOOLEAN
  BY <1>2, <1>5 DEF IsRevision
<1>8. IsSource(n)
  <2>1. IsText(n.url) /\ IsRevision(n.revision)
    BY <1>5, <1>7 DEF IsText, IsRevision
  <2>2. n = [url |-> n.url, revision |-> n.revision, subdir |-> n.subdir,
             checksums |-> n.checksums]
    BY <1>5
  <2> QED
    BY <1>2, <1>4, <1>7, <2>1, <2>2 DEF IsSource
<1>9. SourceMeaning(n) = SourceMeaning(x)
  <2>1. x.revision.upper /\ ~x.revision.immutable <=> FALSE
    BY <1>1, <1>7 DEF WholeSource
  <2>2. (n.revision.upper /\ ~n.revision.immutable) =
           (x.revision.upper /\ ~x.revision.immutable)
    BY <1>7, <2>1
  <2>3. ChecksumMeaning(n.checksums) = ChecksumMeaning(x.checksums)
    BY <1>4, <1>7
  <2> QED
    BY <1>1, <1>6, <1>7, <2>2, <2>3, Zenon DEF SourceMeaning
<1>10. \A mode : ValidImmutableSource(n, mode)
                    <=> ValidImmutableSource(x, mode)
  BY <1>4, <1>7 DEF ValidImmutableSource
<1>11. WholeSource(n)
  BY <1>7 DEF WholeSource
<1> QED
  BY <1>6, <1>8, <1>9, <1>10, <1>11 DEF n

(* Sources that mean the same have one normal form. *)
LEMMA SourceTold ==
  ASSUME NEW x, NEW y, IsSource(x), IsSource(y),
         ValidImmutableSource(x, "authoring"),
         ValidImmutableSource(y, "authoring"),
         SourceMeaning(x) = SourceMeaning(y)
  PROVE  NormalizedImmutableSource(x) = NormalizedImmutableSource(y)
<1>1. x # NoSource /\ y # NoSource
  BY SomeSource
<1>2. /\ x.url.is = y.url.is /\ x.subdir = y.subdir
      /\ x.revision.is = y.revision.is
      /\ x.revision.immutable = y.revision.immutable
      /\ ChecksumMeaning(x.checksums) = ChecksumMeaning(y.checksums)
  BY <1>1 DEF SourceMeaning
<1>3. NormalizedChecksums(x.checksums) = NormalizedChecksums(y.checksums)
  BY <1>2, ChecksumsTold DEF IsSource, ValidImmutableSource
<1> QED
  BY <1>2, <1>3 DEF NormalizedImmutableSource, Trimmed

-----------------------------------------------------------------------------
(* Versions and tools. *)

(* What may be asked of a version: type, validity, source. *)
SoundVersion(v) ==
    IsVersion(v) /\ ValidVersion(v, "authoring") /\ WholeSource(v.source)

(* A version in normal form is sound, means the same and is as valid, in   *)
(* every mode.                                                             *)
LEMMA VersionNormal ==
  ASSUME NEW v, SoundVersion(v)
  PROVE  LET n == NormalizedVersion(v)
         IN  /\ SoundVersion(n)
             /\ VersionMeaning(n) = VersionMeaning(v)
             /\ \A mode : ValidVersion(n, mode) <=> ValidVersion(v, mode)
<1> DEFINE n == NormalizedVersion(v)
           checksums == NormalizedChecksums(v.checksums)
           platforms == SortedStrings(v.platforms)
           source == IF v.source = NoSource THEN NoSource
                     ELSE NormalizedImmutableSource(v.source)
           exact == IF v.resolved = BlankText THEN Unresolved
                    ELSE v.resolved
<1>1. /\ IsText(v.requirement)
      /\ v.source = NoSource \/ IsSource(v.source)
      /\ AreChecksums(v.checksums) /\ IsList(v.platforms)
  BY DEF SoundVersion, IsVersion
<1>2. /\ AreChecksums(checksums)
      /\ ChecksumMeaning(checksums) = ChecksumMeaning(v.checksums)
      /\ ValidChecksums(checksums) <=> ValidChecksums(v.checksums)
  BY <1>1, ChecksumsNormal
<1>3. IsList(platforms) /\ ToSet(platforms) = ToSet(v.platforms)
  BY <1>1, StringsSorted
<1>4. /\ source = NoSource \/ IsSource(source)
      /\ source = NoSource <=> v.source = NoSource
      /\ WholeSource(source)
      /\ SourceMeaning(source) = SourceMeaning(v.source)
      /\ \A mode :
            (source # NoSource => ValidImmutableSource(source, mode))
               <=> (v.source # NoSource
                       => ValidImmutableSource(v.source, mode))
  <2>1. CASE v.source = NoSource
    BY <2>1 DEF WholeSource
  <2>2. CASE v.source # NoSource
    <3>1. source = NormalizedImmutableSource(v.source)
      BY <2>2
    <3>2. /\ IsSource(v.source) /\ WholeSource(v.source)
          /\ ValidImmutableSource(v.source, "authoring")
      BY <1>1, <2>2 DEF SoundVersion, ValidVersion
    <3> HIDE DEF source
    <3> QED
      BY <2>2, <3>1, <3>2, SourceNormal
  <2> QED
    BY <2>1, <2>2
<1>5. /\ exact # BlankText
      /\ exact = (IF v.resolved = BlankText THEN Unresolved
                     ELSE v.resolved)
      /\ \A mode : ValidResolution(v.requirement, exact, mode)
                      <=> ValidResolution(v.requirement, v.resolved, mode)
  BY DEF ValidResolution, BlankText, Unresolved, Moving, LocalPath
<1> HIDE DEF checksums, platforms, source, exact
<1>6. n = [requirement |-> [is |-> v.requirement.is, padded |-> FALSE],
           resolved |-> exact, source |-> source, checksums |-> checksums,
           platforms |-> platforms]
  BY DEF NormalizedVersion, Trimmed, checksums, platforms, source, exact
<1> HIDE DEF n
<1>7. /\ n.requirement = [is |-> v.requirement.is, padded |-> FALSE]
      /\ n.requirement.is = v.requirement.is
      /\ n.resolved = exact /\ n.source = source
      /\ n.checksums = checksums /\ n.platforms = platforms
      /\ n = [requirement |-> n.requirement, resolved |-> n.resolved,
              source |-> n.source, checksums |-> n.checksums,
              platforms |-> n.platforms]
  BY <1>6
<1>8. IsVersion(n)
  <2>1. IsText(n.requirement)
    BY <1>7 DEF IsText
  <2> QED
    BY <1>2, <1>3, <1>4, <1>7, <2>1 DEF IsVersion
<1>9. VersionMeaning(n) = VersionMeaning(v)
  <2>1. (IF n.resolved = BlankText THEN Unresolved ELSE n.resolved) =
        (IF v.resolved = BlankText THEN Unresolved ELSE v.resolved)
    BY <1>5, <1>7
  <2> QED
    BY <1>2, <1>3, <1>4, <1>7, <2>1 DEF VersionMeaning
<1>10. ASSUME NEW mode
       PROVE  ValidVersion(n, mode) <=> ValidVersion(v, mode)
  <2>1. ValidResolution(n.requirement, n.resolved, mode)
           <=> ValidResolution(v.requirement, v.resolved, mode)
    BY <1>5, <1>7 DEF ValidResolution
  <2>2. (\A i \in 1..Len(n.platforms) : ValidName(n.platforms[i]))
           <=> \A i \in 1..Len(v.platforms) : ValidName(v.platforms[i])
    <3>1. \A u : IsList(u) =>
             ((\A i \in 1..Len(u) : ValidName(u[i]))
                 <=> \A x \in ToSet(u) : ValidName(x))
      BY ListElements
    <3> QED
      BY <1>1, <1>3, <1>7, <3>1
  <2> QED
    BY <1>2, <1>4, <1>7, <2>1, <2>2 DEF ValidVersion
<1> QED
  BY <1>4, <1>7, <1>8, <1>9, <1>10 DEF n, SoundVersion

(* Versions that mean the same have one normal form. *)
LEMMA VersionTold ==
  ASSUME NEW v, NEW w, SoundVersion(v), SoundVersion(w),
         VersionMeaning(v) = VersionMeaning(w)
  PROVE  NormalizedVersion(v) = NormalizedVersion(w)
<1>1. /\ v.requirement.is = w.requirement.is
      /\ (IF v.resolved = BlankText THEN Unresolved ELSE v.resolved) =
         (IF w.resolved = BlankText THEN Unresolved ELSE w.resolved)
      /\ SourceMeaning(v.source) = SourceMeaning(w.source)
      /\ ChecksumMeaning(v.checksums) = ChecksumMeaning(w.checksums)
      /\ ToSet(v.platforms) = ToSet(w.platforms)
  BY DEF VersionMeaning
<1>2. NormalizedChecksums(v.checksums) = NormalizedChecksums(w.checksums)
  BY <1>1, ChecksumsTold DEF SoundVersion, IsVersion, ValidVersion
<1>3. SortedStrings(v.platforms) = SortedStrings(w.platforms)
  BY <1>1 DEF SortedStrings
<1>4. /\ v.source = NoSource <=> w.source = NoSource
      /\ v.source # NoSource =>
            NormalizedImmutableSource(v.source)
               = NormalizedImmutableSource(w.source)
  <2>1. /\ v.source = NoSource \/ IsSource(v.source)
        /\ w.source = NoSource \/ IsSource(w.source)
        /\ v.source # NoSource
              => ValidImmutableSource(v.source, "authoring")
        /\ w.source # NoSource
              => ValidImmutableSource(w.source, "authoring")
    BY DEF SoundVersion, IsVersion, ValidVersion
  <2>2. SourceMeaning(NoSource) = NoSource
    BY DEF SourceMeaning
  <2>3. v.source = NoSource <=> w.source = NoSource
    BY <1>1, <2>1, <2>2, SomeSource
  <2> QED
    BY <1>1, <2>1, <2>3, SourceTold
<1> QED
  BY <1>1, <1>2, <1>3, <1>4 DEF NormalizedVersion, Trimmed

(* The same of a tool, and of tools by name. *)
SoundTool(spec) ==
    IsTool(spec) /\ ValidTool(spec, "authoring") /\ WholeTool(spec)

(* The normalized versions of a tool before the repetitions go. *)
Versioned(spec) ==
    [i \in 1..Len(spec.versions) |-> NormalizedVersion(spec.versions[i])]

(* The parts of a tool in normal form. *)
LEMMA ToolParts ==
  ASSUME NEW spec, SoundTool(spec)
  PROVE  /\ IsList(spec.versions) /\ IsList(Versioned(spec))
         /\ Len(Versioned(spec)) = Len(spec.versions)
         /\ Len(spec.versions) \in Nat /\ Len(spec.versions) > 0
         /\ \A v \in ToSet(spec.versions) : SoundVersion(v)
         /\ \A x : x \in ToSet(Versioned(spec))
               <=> \E v \in ToSet(spec.versions) : NormalizedVersion(v) = x
         /\ \A x \in ToSet(Versioned(spec)) : SoundVersion(x)
         /\ NormalizedTool(spec) =
               [many |-> Len(StableDedup(Versioned(spec))) # 1,
                versions |-> StableDedup(Versioned(spec))]
         /\ IsList(StableDedup(Versioned(spec)))
         /\ ToSet(StableDedup(Versioned(spec))) = ToSet(Versioned(spec))
<1> DEFINE s == spec.versions
           F == [v \in ToSet(s) |-> NormalizedVersion(v)]
           t == Told(F, s)
<1>1. /\ IsList(s) /\ Len(s) \in Nat
      /\ \A i \in 1..Len(s) : s[i] \in ToSet(s)
      /\ \A v \in ToSet(s) : \E i \in 1..Len(s) : s[i] = v
  BY ListElements DEF SoundTool, IsTool
<1>2. \A v \in ToSet(s) : SoundVersion(v)
  BY <1>1 DEF SoundTool, IsTool, ValidTool, WholeTool, SoundVersion
<1>3. /\ IsList(t) /\ Len(t) = Len(s)
      /\ \A x : x \in ToSet(t) <=> \E v \in ToSet(s) : F[v] = x
  <2> HIDE DEF F
  <2> QED
    BY <1>1, ToldIsList, ToldValues
<1>4. t = Versioned(spec)
  BY <1>1 DEF Told, Versioned
<1>5. \A v \in ToSet(s) : F[v] = NormalizedVersion(v)
  OBVIOUS
<1> HIDE DEF F, t
<1>6. /\ NormalizedTool(spec) =
            [many |-> Len(StableDedup(Versioned(spec))) # 1,
             versions |-> StableDedup(Versioned(spec))]
  BY DEF NormalizedTool, Versioned
<1>7. \A x \in ToSet(t) : SoundVersion(x)
  BY <1>2, <1>3, <1>5, VersionNormal
<1>8. Len(s) > 0
  <2>1. s # NoPath
    BY DEF SoundTool, ValidTool, NoPath
  <2> QED
    BY <1>1, <2>1, NotEmpty
<1>9. IsList(StableDedup(t)) /\ ToSet(StableDedup(t)) = ToSet(t)
  BY <1>3, DedupKeeps
<1>10. \A x : x \in ToSet(Versioned(spec))
               <=> \E v \in ToSet(s) : NormalizedVersion(v) = x
  BY <1>3, <1>4, <1>5
<1> QED
  BY <1>1, <1>2, <1>3, <1>4, <1>6, <1>7, <1>8, <1>9, <1>10

(* What versions mean, of those in a set. *)
MeaningIn(S) == [v \in S |-> VersionMeaning(v)]

(* A tool means the order of what its versions mean. *)
LEMMA ToolMeaningTold ==
  ASSUME NEW spec, IsList(spec.versions), NEW S,
         ToSet(spec.versions) \subseteq S
  PROVE  ToolMeaning(spec) = Order(Told(MeaningIn(S), spec.versions))
<1>1. \A i \in 1..Len(spec.versions) : spec.versions[i] \in S
  BY ListElements
<1>2. Told(MeaningIn(S), spec.versions) =
         [i \in 1..Len(spec.versions) |-> VersionMeaning(spec.versions[i])]
  BY <1>1 DEF Told, MeaningIn
<1> QED
  BY <1>2 DEF ToolMeaning

(* A tool in normal form means the same: neither the order of its versions *)
(* nor one of them is lost.                                                *)
LEMMA ToolNormal ==
  ASSUME NEW spec, SoundTool(spec)
  PROVE  LET n == NormalizedTool(spec)
         IN  /\ SoundTool(n)
             /\ ToolMeaning(n) = ToolMeaning(spec)
             /\ ~spec.many => ~n.many
             /\ \A mode : ValidTool(n, mode) <=> ValidTool(spec, mode)
<1> DEFINE s == spec.versions
           t == Versioned(spec)
           d == StableDedup(t)
           n == NormalizedTool(spec)
<1>1. /\ IsList(s) /\ IsList(t) /\ Len(t) = Len(s)
      /\ Len(s) \in Nat /\ Len(s) > 0
      /\ \A v \in ToSet(s) : SoundVersion(v)
      /\ \A x : x \in ToSet(t) <=> \E v \in ToSet(s) : NormalizedVersion(v) = x
      /\ \A x \in ToSet(t) : SoundVersion(x)
      /\ n = [many |-> Len(d) # 1, versions |-> d]
      /\ IsList(d) /\ ToSet(d) = ToSet(t)
  BY ToolParts
<1>2. \A p, q \in 1..Len(d) : d[p] = d[q] => p = q
  BY <1>1, DedupKeeps
<1>3. \A i \in 1..Len(s) : t[i] = NormalizedVersion(s[i])
  BY DEF Versioned
<1>4. \A u : IsList(u) => /\ Len(u) \in Nat
                          /\ \A i \in 1..Len(u) : u[i] \in ToSet(u)
                          /\ \A x \in ToSet(u) : \E i \in 1..Len(u) : u[i] = x
  BY ListElements
<1> HIDE DEF t, d, n
<1>5. n.many = (Len(d) # 1) /\ n.versions = d
      /\ n = [many |-> n.many, versions |-> n.versions]
  BY <1>1
<1>6. Len(d) > 0
  <2>1. t[1] \in ToSet(t)
    BY <1>1, <1>4
  <2>2. \E i \in 1..Len(d) : d[i] = t[1]
    BY <1>1, <1>4, <2>1
  <2> QED
    BY <1>1, <1>4, <2>2
<1>7. IsTool(n)
  <2>1. ~n.many => Len(n.versions) = 1
    BY <1>5
  <2>2. \A i \in 1..Len(d) : IsVersion(d[i])
    BY <1>1, <1>4 DEF SoundVersion
  <2> QED
    BY <1>1, <1>5, <2>1, <2>2 DEF IsTool
<1>8. d # <<>>
  <2>1. Len(<<>>) = 0
    OBVIOUS
  <2> QED
    BY <1>6, <2>1
<1>9. ASSUME NEW mode
      PROVE  ValidTool(n, mode) <=> ValidTool(spec, mode)
  <2>1. ValidTool(n, mode) <=> \A x \in ToSet(t) : ValidVersion(x, mode)
    BY <1>1, <1>4, <1>5, <1>8, SMTT(30) DEF ValidTool
  <2>2. ValidTool(spec, mode) <=> \A v \in ToSet(s) : ValidVersion(v, mode)
    BY <1>1, <1>4 DEF ValidTool, SoundTool
  <2>3. \A v \in ToSet(s) : ValidVersion(NormalizedVersion(v), mode)
                               <=> ValidVersion(v, mode)
    BY <1>1, VersionNormal
  <2> QED
    BY <1>1, <2>1, <2>2, <2>3
<1>10. WholeTool(n)
  BY <1>1, <1>4, <1>5 DEF WholeTool, SoundVersion
<1>11. ValidTool(n, "authoring")
  BY <1>9 DEF SoundTool
<1>12. ~spec.many => ~n.many
  <2> SUFFICES ASSUME ~spec.many
               PROVE  Len(d) = 1
    BY <1>5
  <2>1. Len(t) = 1
    BY <1>1 DEF SoundTool, IsTool
  <2>2. \A i \in 1..Len(d) : d[i] = t[1]
    <3>1. \A x \in ToSet(t) : x = t[1]
      BY <1>1, <1>4, <2>1
    <3> QED
      BY <1>1, <1>4, <3>1
  <2>3. \A i, j \in 1..Len(d) : i = j
    BY <1>2, <2>2
  <2>4. Len(d) \in Nat
    BY <1>1, <1>4
  <2>5. 1 \in 1..Len(d) /\ Len(d) \in 1..Len(d)
    BY <1>6, <2>4
  <2> QED
    BY <2>3, <2>5
<1>13. ToolMeaning(n) = ToolMeaning(spec)
  <2> DEFINE S == ToSet(s) \cup ToSet(t)
             M == MeaningIn(S)
  <2>1. ToolMeaning(spec) = Order(Told(M, s))
    BY <1>1, ToolMeaningTold
  <2>2. ToolMeaning(n) = Order(Told(M, d))
    BY <1>1, <1>5, ToolMeaningTold
  <2>3. \A x \in S : M[x] = VersionMeaning(x)
    BY DEF MeaningIn
  <2> HIDE DEF M
  <2>4. Order(Told(M, d)) = Order(Told(M, t))
    BY <1>1, DedupKeepsOrder DEF d
  <2>5. Told(M, t) = Told(M, s)
    <3>1. ASSUME NEW i \in 1..Len(s)
          PROVE  M[t[i]] = M[s[i]]
      <4>1. s[i] \in ToSet(s) /\ t[i] \in ToSet(t)
        BY <1>1, <1>4
      <4>2. SoundVersion(s[i])
        BY <1>1, <4>1
      <4>3. VersionMeaning(NormalizedVersion(s[i])) = VersionMeaning(s[i])
        BY <4>2, VersionNormal
      <4>4. t[i] = NormalizedVersion(s[i])
        BY <1>3
      <4>5. M[t[i]] = VersionMeaning(t[i]) /\ M[s[i]] = VersionMeaning(s[i])
        BY <2>3, <4>1
      <4> QED
        BY <4>3, <4>4, <4>5
    <3> QED
      BY <1>1, <3>1 DEF Told
  <2> QED
    BY <2>1, <2>2, <2>4, <2>5
<1> QED
  BY <1>7, <1>9, <1>10, <1>11, <1>12, <1>13 DEF n, SoundTool

(* Tools that mean the same have one normal form. *)
LEMMA ToolTold ==
  ASSUME NEW a, NEW b, SoundTool(a), SoundTool(b),
         ToolMeaning(a) = ToolMeaning(b)
  PROVE  NormalizedTool(a) = NormalizedTool(b)
<1> DEFINE ta == Versioned(a)
           tb == Versioned(b)
           S == ToSet(ta) \cup ToSet(tb)
           M == MeaningIn(S)
<1>1. /\ IsList(ta) /\ IsList(tb)
      /\ \A x \in S : SoundVersion(x)
      /\ NormalizedTool(a) = [many |-> Len(StableDedup(ta)) # 1,
                              versions |-> StableDedup(ta)]
      /\ NormalizedTool(b) = [many |-> Len(StableDedup(tb)) # 1,
                              versions |-> StableDedup(tb)]
  BY ToolParts
<1>2. \A x \in S : NormalizedVersion(x) = x
  <2>1. ASSUME NEW spec, SoundTool(spec), NEW x \in ToSet(Versioned(spec))
        PROVE  NormalizedVersion(x) = x
    <3>1. PICK v \in ToSet(spec.versions) : NormalizedVersion(v) = x
      BY <2>1, ToolParts
    <3>2. SoundVersion(v)
      BY <2>1, ToolParts
    <3>3. SoundVersion(x) /\ VersionMeaning(x) = VersionMeaning(v)
      BY <3>1, <3>2, VersionNormal
    <3>4. NormalizedVersion(x) = NormalizedVersion(v)
      BY <3>2, <3>3, VersionTold
    <3> QED
      BY <3>1, <3>4
  <2> QED
    BY <2>1
<1>3. \A x \in S : M[x] = VersionMeaning(x)
  BY DEF MeaningIn
<1>4. \A x, y \in S : M[x] = M[y] => x = y
  <2> TAKE x, y \in S
  <2>1. SoundVersion(x) /\ SoundVersion(y)
    BY <1>1
  <2> QED
    BY <1>2, <1>3, <2>1, VersionTold
<1>5. ASSUME NEW spec, SoundTool(spec)
      PROVE  ToolMeaning(spec) =
                Order([i \in 1..Len(Versioned(spec)) |->
                         VersionMeaning(Versioned(spec)[i])])
  <2> DEFINE s == spec.versions
             t == Versioned(spec)
  <2>1. /\ IsList(s) /\ Len(t) = Len(s)
        /\ \A v \in ToSet(s) : SoundVersion(v)
    BY <1>5, ToolParts
  <2>2. \A i \in 1..Len(s) : s[i] \in ToSet(s)
    BY <2>1, ListElements
  <2>3. \A i \in 1..Len(s) : t[i] = NormalizedVersion(s[i])
    BY DEF Versioned
  <2>4. \A i \in 1..Len(s) : VersionMeaning(t[i]) = VersionMeaning(s[i])
    BY <2>1, <2>2, <2>3, VersionNormal
  <2> HIDE DEF t
  <2>5. [i \in 1..Len(t) |-> VersionMeaning(t[i])]
           = [i \in 1..Len(s) |-> VersionMeaning(s[i])]
    BY <2>1, <2>4
  <2> QED
    BY <2>5, Zenon DEF ToolMeaning, t
<1>6. /\ ToolMeaning(a) = Order(Told(M, ta))
      /\ ToolMeaning(b) = Order(Told(M, tb))
  <2>1. /\ \A i \in 1..Len(ta) : ta[i] \in S
        /\ \A i \in 1..Len(tb) : tb[i] \in S
    BY <1>1, ListElements
  <2> HIDE DEF ta, tb, S, M
  <2>2. Told(M, ta) = [i \in 1..Len(ta) |-> VersionMeaning(ta[i])]
    BY <1>3, <2>1 DEF Told
  <2>3. Told(M, tb) = [i \in 1..Len(tb) |-> VersionMeaning(tb[i])]
    BY <1>3, <2>1 DEF Told
  <2> QED
    BY <1>5, <2>2, <2>3 DEF ta, tb
<1> HIDE DEF ta, tb, M
<1>7. Order(ta) = Order(tb)
  <2>1. Order(Told(M, ta)) = Order(Told(M, tb))
    BY <1>6
  <2>2. IsList(ta) /\ IsList(tb)
    BY <1>1
  <2> QED
    BY <1>4, <2>1, <2>2, ToldOrder, ZenonT(30)
<1>8. StableDedup(ta) = StableDedup(tb)
  BY <1>1, <1>7, SameOrderSameDedup
<1> QED
  BY <1>1, <1>8

(* Tools that are typed, valid and kept whole by normalizing. *)
SoundTools(tools) ==
    /\ AreTools(tools) /\ ValidTools(tools, "authoring") /\ WholeTools(tools)

(* The tools of a plan or a task in normal form mean the same. *)
LEMMA ToolsNormal ==
  ASSUME NEW tools, SoundTools(tools)
  PROVE  LET n == NormalizedTools(tools)
         IN  /\ SoundTools(n) /\ DOMAIN n = DOMAIN tools
             /\ ToolsMeaning(n) = ToolsMeaning(tools)
             /\ \A tool \in DOMAIN tools : ~tools[tool].many => ~n[tool].many
             /\ \A mode : ValidTools(n, mode) <=> ValidTools(tools, mode)
<1> DEFINE n == NormalizedTools(tools)
<1>1. /\ DOMAIN n = DOMAIN tools /\ n = [tool \in DOMAIN n |-> n[tool]]
      /\ \A tool \in DOMAIN tools : n[tool] = NormalizedTool(tools[tool])
  BY DEF NormalizedTools
<1> HIDE DEF n
<1>2. \A tool \in DOMAIN tools : SoundTool(tools[tool])
  BY DEF SoundTools, AreTools, ValidTools, WholeTools, SoundTool
<1>3. \A tool \in DOMAIN tools :
         /\ SoundTool(n[tool])
         /\ ToolMeaning(n[tool]) = ToolMeaning(tools[tool])
         /\ ~tools[tool].many => ~n[tool].many
         /\ \A mode : ValidTool(n[tool], mode) <=> ValidTool(tools[tool], mode)
  BY <1>1, <1>2, ToolNormal
<1>4. ToolsMeaning(n) = ToolsMeaning(tools)
  BY <1>1, <1>3 DEF ToolsMeaning
<1>5. \A mode : ValidTools(n, mode) <=> ValidTools(tools, mode)
  BY <1>1, <1>3 DEF ValidTools
<1>6. SoundTools(n)
  <2>1. AreTools(n)
    BY <1>1, <1>3 DEF AreTools, IsMap, SoundTool
  <2>2. WholeTools(n)
    BY <1>1, <1>3 DEF WholeTools, SoundTool
  <2> QED
    BY <1>5, <2>1, <2>2 DEF SoundTools
<1> QED
  BY <1>1, <1>3, <1>4, <1>5, <1>6 DEF n

(* Tools by name that mean the same have one normal form. *)
LEMMA ToolsTold ==
  ASSUME NEW a, NEW b, SoundTools(a), SoundTools(b),
         ToolsMeaning(a) = ToolsMeaning(b)
  PROVE  NormalizedTools(a) = NormalizedTools(b)
<1>1. DOMAIN a = DOMAIN b
  <2>1. /\ DOMAIN ToolsMeaning(a) = DOMAIN a
        /\ DOMAIN ToolsMeaning(b) = DOMAIN b
    BY DEF ToolsMeaning
  <2> QED
    BY <2>1
<1>2. \A tool \in DOMAIN a : NormalizedTool(a[tool]) = NormalizedTool(b[tool])
  <2> TAKE tool \in DOMAIN a
  <2>1. /\ ToolsMeaning(a)[tool] = ToolMeaning(a[tool])
        /\ ToolsMeaning(b)[tool] = ToolMeaning(b[tool])
    BY <1>1 DEF ToolsMeaning
  <2>2. SoundTool(a[tool]) /\ SoundTool(b[tool])
    BY <1>1 DEF SoundTools, AreTools, ValidTools, WholeTools, SoundTool
  <2> QED
    BY <2>1, <2>2, ToolTold
<1> QED
  BY <1>1, <1>2 DEF NormalizedTools

-----------------------------------------------------------------------------
(* Origins and steps. *)

(* The empty list is the list without values. *)
LEMMA EmptyList ==
  ASSUME NEW s, IsList(s)
  PROVE  s = <<>> <=> \A x : x \notin ToSet(s)
<1>1. /\ Len(s) \in Nat /\ \A i \in 1..Len(s) : s[i] \in ToSet(s)
      /\ \A x \in ToSet(s) : \E i \in 1..Len(s) : s[i] = x
  BY ListElements
<1>2. ASSUME s = <<>>
      PROVE  Len(s) = 0
  BY <1>2
<1>3. ASSUME s # <<>>
      PROVE  1 \in 1..Len(s)
  BY <1>3, NotEmpty DEF NoPath
<1>4. Len(s) = 0 => ~\E i \in 1..Len(s) : TRUE
  OBVIOUS
<1> QED
  BY <1>1, <1>2, <1>3, <1>4

SoundOrigin(origin) == IsOrigin(origin) /\ ValidOrigin(origin)

(* An origin in normal form is valid and means the same. *)
LEMMA OriginNormal ==
  ASSUME NEW x, SoundOrigin(x)
  PROVE  LET n == NormalizedOrigin(x)
         IN  SoundOrigin(n) /\ OriginMeaning(n) = OriginMeaning(x)
<1> DEFINE n == NormalizedOrigin(x)
           digest == NormalizedChecksums(x.digest)
<1>1. /\ NormalizedPath(x.path) = x.path
      /\ NormalizedPath(x.lock) = x.lock
  BY RelativeStays DEF SoundOrigin, IsOrigin, ValidOrigin
<1>2. /\ AreChecksums(digest)
      /\ ChecksumMeaning(digest) = ChecksumMeaning(x.digest)
      /\ ValidChecksums(digest)
  BY ChecksumsNormal DEF SoundOrigin, IsOrigin, ValidOrigin
<1> HIDE DEF digest
<1>3. n = [manager |-> x.manager, path |-> x.path, lock |-> x.lock,
           digest |-> digest]
  BY <1>1 DEF NormalizedOrigin, digest
<1> HIDE DEF n
<1>4. /\ n.manager = x.manager /\ n.path = x.path /\ n.lock = x.lock
      /\ n.digest = digest
      /\ n = [manager |-> n.manager, path |-> n.path, lock |-> n.lock,
              digest |-> n.digest]
  BY <1>3
<1>5. IsOrigin(n)
  BY <1>2, <1>4 DEF SoundOrigin, IsOrigin
<1>6. ValidOrigin(n)
  BY <1>2, <1>4 DEF SoundOrigin, ValidOrigin
<1>7. OriginMeaning(n) = OriginMeaning(x)
  BY <1>2, <1>4 DEF OriginMeaning
<1> QED
  BY <1>5, <1>6, <1>7 DEF n, SoundOrigin

(* Origins that mean the same have one normal form. *)
LEMMA OriginTold ==
  ASSUME NEW x, NEW y, SoundOrigin(x), SoundOrigin(y),
         OriginMeaning(x) = OriginMeaning(y)
  PROVE  NormalizedOrigin(x) = NormalizedOrigin(y)
<1>1. /\ x.manager = y.manager /\ x.path = y.path /\ x.lock = y.lock
      /\ ChecksumMeaning(x.digest) = ChecksumMeaning(y.digest)
  BY DEF OriginMeaning
<1>2. NormalizedChecksums(x.digest) = NormalizedChecksums(y.digest)
  BY <1>1, ChecksumsTold DEF SoundOrigin, IsOrigin, ValidOrigin
<1> QED
  BY <1>1, <1>2 DEF NormalizedOrigin

(* A step in normal form refers to the same tasks and means the same: only *)
(* a parallel group is sorted.                                             *)
LEMMA StepNormal ==
  ASSUME NEW x, IsStep(x)
  PROVE  LET n == NormalizedStep(x)
         IN  /\ IsStep(n) /\ StepMeaning(n) = StepMeaning(x)
             /\ n.kind = x.kind /\ ToSet(n.tasks) = ToSet(x.tasks)
             /\ ValidStep(n) <=> ValidStep(x)
<1> DEFINE n == NormalizedStep(x)
           tasks == IF x.parallel THEN SortedStrings(x.tasks)
                    ELSE StableDedup(x.tasks)
<1>1. CASE x.kind # "group"
  BY <1>1 DEF NormalizedStep
<1>2. CASE x.kind = "group"
  <2>1. IsList(x.tasks)
    BY DEF IsStep
  <2>2. /\ IsList(tasks) /\ ToSet(tasks) = ToSet(x.tasks)
        /\ ~x.parallel => Order(tasks) = Order(x.tasks)
    <3>1. CASE x.parallel
      BY <2>1, <3>1, StringsSorted
    <3>2. CASE ~x.parallel
      <4> DEFINE F == [y \in ToSet(x.tasks) |-> y]
                 d == StableDedup(x.tasks)
      <4>1. IsList(d) /\ ToSet(d) = ToSet(x.tasks)
        BY <2>1, DedupKeeps
      <4>2. Order(Told(F, d)) = Order(Told(F, x.tasks))
        BY <2>1, DedupKeepsOrder
      <4>3. \A y \in ToSet(x.tasks) : F[y] = y
        OBVIOUS
      <4> HIDE DEF F, d
      <4>4. \A u : IsList(u) /\ ToSet(u) = ToSet(x.tasks) => Told(F, u) = u
        <5> SUFFICES ASSUME NEW u, IsList(u), ToSet(u) = ToSet(x.tasks)
                     PROVE  Told(F, u) = u
          OBVIOUS
        <5>1. /\ u = [i \in 1..Len(u) |-> u[i]]
              /\ \A i \in 1..Len(u) : u[i] \in ToSet(u)
          BY ListElements
        <5> QED
          BY <4>3, <5>1 DEF Told
      <4>5. Told(F, d) = d /\ Told(F, x.tasks) = x.tasks
        BY <2>1, <4>1, <4>4
      <4> QED
        BY <3>2, <4>1, <4>2, <4>5 DEF d
    <3> QED
      BY <3>1, <3>2
  <2>3. n = [kind |-> x.kind, parallel |-> x.parallel, tasks |-> tasks]
    BY <1>2 DEF NormalizedStep
  <2> HIDE DEF tasks, n
  <2>4. /\ n.kind = "group" /\ n.parallel = x.parallel /\ n.tasks = tasks
        /\ n = [kind |-> n.kind, tasks |-> n.tasks, parallel |-> n.parallel]
    BY <1>2, <2>3
  <2>5. IsStep(n)
    BY <2>2, <2>4 DEF IsStep
  <2>6. StepMeaning(n) = StepMeaning(x)
    BY <1>2, <2>2, <2>4 DEF StepMeaning
  <2>7. ValidStep(n) <=> ValidStep(x)
    <3>1. tasks = <<>> <=> x.tasks = <<>>
      BY <2>1, <2>2, EmptyList
    <3>2. \A u : IsList(u) =>
             ((\A i \in 1..Len(u) : ValidName(u[i]))
                 <=> \A y \in ToSet(u) : ValidName(y))
      BY ListElements
    <3> QED
      BY <1>2, <2>1, <2>2, <2>4, <3>1, <3>2 DEF ValidStep
  <2> QED
    BY <1>2, <2>2, <2>4, <2>5, <2>6, <2>7 DEF n
<1> QED
  BY <1>1, <1>2

(* Steps that mean the same have one normal form. *)
LEMMA StepTold ==
  ASSUME NEW x, NEW y, IsStep(x), IsStep(y), StepMeaning(x) = StepMeaning(y)
  PROVE  NormalizedStep(x) = NormalizedStep(y)
<1>1. x.kind = y.kind /\ x.parallel = y.parallel
  BY DEF StepMeaning
<1>2. IsList(x.tasks) /\ IsList(y.tasks)
  BY DEF IsStep
<1>3. CASE x.kind = "group" /\ x.parallel
  <2>1. ToSet(x.tasks) = ToSet(y.tasks)
    BY <1>1, <1>3 DEF StepMeaning
  <2> QED
    BY <1>1, <1>3, <2>1 DEF NormalizedStep, SortedStrings
<1>4. CASE x.kind = "group" /\ ~x.parallel
  <2>1. Order(x.tasks) = Order(y.tasks)
    BY <1>1, <1>4 DEF StepMeaning
  <2>2. StableDedup(x.tasks) = StableDedup(y.tasks)
    BY <1>2, <2>1, SameOrderSameDedup
  <2> QED
    BY <1>1, <1>4, <2>2 DEF NormalizedStep
<1>5. CASE x.kind # "group"
  <2>1. Order(x.tasks) = Order(y.tasks)
    BY <1>1, <1>5 DEF StepMeaning
  <2>2. Len(x.tasks) = 1 /\ Len(y.tasks) = 1
    BY <1>1, <1>5 DEF IsStep
  <2>3. \A v : v \in ToSet(x.tasks) <=> v \in ToSet(y.tasks)
    BY <1>2, <2>1, OrderHasValues
  <2>4. x.tasks[1] = y.tasks[1]
    BY <1>2, <2>2, <2>3, ListElements
  <2>5. x.tasks = y.tasks
    BY <1>2, <2>2, <2>4, ListsEqual
  <2>6. x = y
    BY <1>1, <2>5 DEF IsStep
  <2> QED
    BY <2>6
<1> QED
  BY <1>3, <1>4, <1>5

-----------------------------------------------------------------------------
(* Paths again: which of them mean one place. *)

(* A path that names a place tells it. *)
LEMMA StraightNames ==
  ASSUME NEW path, IsList(path), path # NoPath, Straight(path)
  PROVE  LET r == ProjectPath(path)
         IN  \/ Len(r) = 1 /\ r[1] = "."
             \/ \A i \in 1..Len(r) : r[i] # "."
<1> DEFINE r == ProjectPath(path)
<1>1. PICK n : /\ Strips(path, n) /\ IsList(r) /\ Len(r) = Len(path) - n
               /\ \A i \in 1..(Len(path) - n) : r[i] = path[i + n]
  BY Stripped
<1>2. /\ Len(path) \in Nat /\ n \in Nat /\ n < Len(path)
      /\ n + 1 < Len(path) => path[n + 1] # "."
  BY <1>1, NotEmpty DEF Strips
<1> HIDE DEF r
<1> SUFFICES ASSUME ~(Len(r) = 1 /\ r[1] = "."),
                    NEW k \in 1..Len(r), r[k] = "."
             PROVE  FALSE
  BY DEF r
<1> DEFINE dots == {i \in 1..Len(r) : r[i] = "."}
<1>3. dots \subseteq Nat /\ dots # {}
  BY <1>1, <1>2, SMTT(30)
<1>4. PICK i \in dots : \A j \in dots : i <= j
  BY <1>3, LeastNumber, Zenon
<1>5. i \in 1..Len(r) /\ r[i] = "."
  OBVIOUS
<1>6. i # 1
  <2> SUFFICES ASSUME i = 1
               PROVE  FALSE
    OBVIOUS
  <2>1. r[1] = path[n + 1]
    BY <1>1, <1>2, <1>5
  <2> QED
    BY <1>1, <1>2, <1>5, <2>1
<1>7. i - 1 \in 1..Len(r) /\ i + n \in 2..Len(path)
  BY <1>1, <1>2, <1>5, <1>6
<1>8. path[i + n] = "." /\ (i + n) - 1 = (i - 1) + n
  BY <1>1, <1>2, <1>5
<1>9. path[(i + n) - 1] = "."
  BY <1>7, <1>8 DEF Straight
<1>10. r[i - 1] = "."
  BY <1>1, <1>7, <1>8, <1>9
<1>11. i - 1 \in dots
  BY <1>7, <1>10
<1> QED
  BY <1>4, <1>5, <1>11

(* The place of a path without dots. *)
LEMMA NamedPlace ==
  ASSUME NEW r, IsList(r), \A i \in 1..Len(r) : r[i] # "."
  PROVE  \A c, x : <<c, x>> \in Place(r) <=> c \in 1..Len(r) /\ x = r[c]
<1>1. Len(r) \in Nat
  BY ListElements
<1>2. ASSUME NEW i \in 1..Len(r)
      PROVE  Cardinality(NamesIn(r, i)) = i
  <2>1. NamesIn(r, i) = 1..i
    BY <1>1 DEF NamesIn
  <2> QED
    BY <1>1, <2>1, FS_Interval
<1>3. \A e : e \in Place(r) <=>
         \E i \in 1..Len(r) : e = <<Cardinality(NamesIn(r, i)), r[i]>>
  BY DEF Place, NamesIn
<1> QED
  BY <1>2, <1>3

(* Paths that mean one place have one normal form. *)
LEMMA PathTold ==
  ASSUME NEW p, NEW q, IsList(p), IsList(q), p # NoPath, q # NoPath,
         Straight(p), Straight(q), Place(p) = Place(q)
  PROVE  ProjectPath(p) = ProjectPath(q)
<1> DEFINE r == ProjectPath(p)
           s == ProjectPath(q)
           Dot(u) == Len(u) = 1 /\ u[1] = "."
           Named(u) == \A i \in 1..Len(u) : u[i] # "."
<1>1. IsList(r) /\ r # NoPath /\ IsList(s) /\ s # NoPath
  BY StrippedOnce
<1>2. Place(r) = Place(s)
  BY SamePlace
<1> HIDE DEF r, s
<1>3. IsList(r) /\ Len(r) \in Nat /\ Len(r) > 0
  BY <1>1, NotEmpty
<1>4. IsList(s) /\ Len(s) \in Nat /\ Len(s) > 0
  BY <1>1, NotEmpty
<1>5. Dot(r) \/ Named(r)
  BY StraightNames DEF r
<1>6. Dot(s) \/ Named(s)
  BY StraightNames DEF s
<1>7. ASSUME NEW u, Dot(u)
      PROVE  Place(u) = {}
  <2>1. \A e \in Place(u) : \E i \in 1..Len(u) : u[i] # "."
    BY DEF Place
  <2> QED
    BY <1>7, <2>1
<1>8. ASSUME NEW u, IsList(u), Len(u) \in Nat, Len(u) > 0, Named(u)
      PROVE  Place(u) # {}
  <2>1. <<1, u[1]>> \in Place(u)
    BY <1>8, NamedPlace
  <2> QED
    BY <2>1
<1>9. CASE Dot(r) /\ Dot(s)
  BY <1>3, <1>4, <1>9, ListsEqual DEF r, s
<1>10. CASE Named(r) /\ Named(s)
  <2>1. \A c, x : <<c, x>> \in Place(r) <=> c \in 1..Len(r) /\ x = r[c]
    BY <1>3, <1>10, NamedPlace
  <2>2. \A c, x : <<c, x>> \in Place(s) <=> c \in 1..Len(s) /\ x = s[c]
    BY <1>4, <1>10, NamedPlace
  <2>3. \A c, x : c \in 1..Len(r) /\ x = r[c] <=> c \in 1..Len(s) /\ x = s[c]
    BY <1>2, <2>1, <2>2
  <2>4. \A c \in 1..Len(r) : c \in 1..Len(s) /\ r[c] = s[c]
    BY <2>3
  <2>5. \A c \in 1..Len(s) : c \in 1..Len(r)
    BY <2>3
  <2>6. Len(r) \in 1..Len(s) /\ Len(s) \in 1..Len(r)
    BY <1>3, <1>4, <2>4, <2>5
  <2>7. Len(r) = Len(s)
    BY <1>3, <1>4, <2>6
  <2>8. r = s
    BY <1>3, <1>4, <2>4, <2>7, ListsEqual
  <2> QED
    BY <2>8 DEF r, s
<1>11. CASE Dot(r) /\ Named(s)
  BY <1>2, <1>4, <1>7, <1>8, <1>11
<1>12. CASE Named(r) /\ Dot(s)
  BY <1>2, <1>3, <1>7, <1>8, <1>12
<1> QED
  BY <1>5, <1>6, <1>9, <1>10, <1>11, <1>12

(* What is left of a plain path is as valid. *)
LEMMA PlainStaysValid ==
  ASSUME NEW path, IsList(path), path # NoPath, Plain(path),
         ValidPattern(path)
  PROVE  ValidPattern(ProjectPath(path))
<1> DEFINE r == ProjectPath(path)
<1>1. PICK n : /\ Strips(path, n) /\ IsList(r) /\ Len(r) = Len(path) - n
               /\ \A i \in 1..(Len(path) - n) : r[i] = path[i + n]
  BY Stripped
<1>2. /\ Len(path) \in Nat /\ n \in Nat /\ n < Len(path)
      /\ \A i \in 1..n : path[i] = "."
  BY <1>1, NotEmpty DEF Strips
<1> HIDE DEF r
<1>3. CASE n = 0
  <2>1. r = path
    BY <1>1, <1>2, <1>3, ListsEqual
  <2> QED
    BY <2>1 DEF r
<1>4. CASE n # 0
  <2>1. r[1] = path[n + 1] /\ n + 1 \in 2..Len(path) /\ n \in 1..n
        /\ (n + 1) - 1 = n
    BY <1>1, <1>2, <1>4
  <2>2. r[1] \notin {"", Home, Drive}
    BY <1>2, <2>1 DEF Plain
  <2>3. r # <<"">>
    <3>1. <<"">>[1] = ""
      OBVIOUS
    <3> QED
      BY <2>2, <3>1, Zenon
  <2>0. /\ \A i \in 1..Len(path) : path[i] # ".."
        /\ \A i \in 1..(Len(path) - 1) : path[i] # ""
    BY Zenon DEF ValidPattern
  <2>4. \A i \in 1..Len(r) : r[i] # ".."
    <3> TAKE i \in 1..Len(r)
    <3>1. i + n \in 1..Len(path) /\ r[i] = path[i + n]
      BY <1>1, <1>2
    <3> QED
      BY <2>0, <3>1
  <2>5. \A i \in 1..(Len(r) - 1) : r[i] # ""
    <3> TAKE i \in 1..(Len(r) - 1)
    <3>1. i + n \in 1..(Len(path) - 1) /\ r[i] = path[i + n]
      BY <1>1, <1>2
    <3> QED
      BY <2>0, <3>1
  <2>6. r[1] \notin {Home, Drive}
    BY <2>2
  <2>7. ValidPattern(r)
    BY <2>6, <2>3, <2>4, <2>5, Zenon DEF ValidPattern
  <2> QED
    BY <2>7 DEF r
<1> QED
  BY <1>3, <1>4

-----------------------------------------------------------------------------
(* Tasks. *)

(* A task that is typed, valid and kept whole by normalizing. *)
SoundTask(task) ==
    IsTask(task) /\ ValidTask(task, "authoring") /\ WholeTask(task)

(* The normalized sources of a task hold each source but "./". *)
LEMMA PathsListed ==
  ASSUME NEW s, IsList(s),
         \A i \in 1..Len(s) : IsList(s[i]) /\ s[i] # NoPath
  PROVE  /\ IsList(SortedPaths(s))
         /\ \A x : x \in ToSet(SortedPaths(s))
               <=> x # <<"">> /\ \E p \in ToSet(s) : ProjectPath(p) = x
         /\ \A p \in ToSet(s) :
               /\ IsList(p) /\ p # NoPath
               /\ IsList(ProjectPath(p)) /\ ProjectPath(p) # NoPath
               /\ ProjectPath(ProjectPath(p)) = ProjectPath(p)
               /\ Place(ProjectPath(p)) = Place(p)
<1> DEFINE F == [p \in ToSet(s) |-> ProjectPath(p)]
           t == Told(F, s)
           S == ToSet(t) \ {<<"">>}
<1>1. \A p \in ToSet(s) : IsList(p) /\ p # NoPath
  BY ListElements
<1>2. /\ IsList(t)
      /\ \A x : x \in ToSet(t) <=> \E p \in ToSet(s) : F[p] = x
  <2> HIDE DEF F
  <2> QED
    BY ToldIsList, ToldValues
<1>3. \A p \in ToSet(s) : F[p] = ProjectPath(p)
  OBVIOUS
<1> HIDE DEF t, F
<1>4. IsFiniteSet(S)
  <2>1. IsFiniteSet(ToSet(t)) /\ S \subseteq ToSet(t)
    BY <1>2, ListFinite
  <2> QED
    BY <2>1, FS_Subset, Zenon
<1>5. S = {ProjectPath(p) : p \in ToSet(s)} \ {<<"">>}
  <2>1. \A x : x \in ToSet(t) <=> x \in {ProjectPath(p) : p \in ToSet(s)}
    BY <1>2, <1>3
  <2> QED
    BY <2>1
<1>6. SortedPaths(s) = SetToSeq(S)
  BY <1>5, Zenon DEF SortedPaths
<1>7. \A x : x \in S <=> x # <<"">> /\ \E p \in ToSet(s) : ProjectPath(p) = x
  BY <1>2, <1>3
<1> HIDE DEF S
<1>8. IsList(SetToSeq(S)) /\ ToSet(SetToSeq(S)) = S
  BY <1>4, ListOfSet
<1>9. \A p \in ToSet(s) :
         /\ IsList(ProjectPath(p)) /\ ProjectPath(p) # NoPath
         /\ ProjectPath(ProjectPath(p)) = ProjectPath(p)
         /\ Place(ProjectPath(p)) = Place(p)
  BY <1>1, StrippedOnce, SamePlace
<1> QED
  BY <1>1, <1>6, <1>7, <1>8, <1>9

(* A missing path stays so. *)
LEMMA PathNormal ==
  ASSUME NEW p, IsList(p)
  PROVE  /\ IsList(NormalizedPath(p))
         /\ NormalizedPath(p) = NoPath <=> p = NoPath
         /\ NormalizedPath(NormalizedPath(p)) = NormalizedPath(p)
         /\ Place(NormalizedPath(p)) = Place(p)
<1>1. CASE p = NoPath
  BY <1>1 DEF NormalizedPath
<1>2. CASE p # NoPath
  BY <1>2, StrippedOnce, SamePlace DEF NormalizedPath
<1> QED
  BY <1>1, <1>2

(* The parts of a task in normal form. *)
LEMMA TaskParts ==
  ASSUME NEW task, SoundTask(task)
  PROVE  LET n == NormalizedTask(task)
         IN  /\ n = [aliases |-> n.aliases, depends |-> n.depends,
                     run |-> n.run, tools |-> n.tools, dir |-> n.dir,
                     sources |-> n.sources]
             /\ n.aliases = SortedStrings(task.aliases)
             /\ n.depends = SortedStrings(task.depends)
             /\ IsList(n.aliases) /\ ToSet(n.aliases) = ToSet(task.aliases)
             /\ IsList(n.depends) /\ ToSet(n.depends) = ToSet(task.depends)
             /\ IsList(task.run) /\ IsList(n.run)
             /\ Len(n.run) = Len(task.run)
             /\ \A i \in 1..Len(task.run) :
                   n.run[i] = NormalizedStep(task.run[i])
             /\ \A i \in 1..Len(task.run) : IsStep(task.run[i])
             /\ SoundTools(task.tools)
             /\ n.tools = NormalizedTools(task.tools)
             /\ IsList(task.dir) /\ n.dir = NormalizedPath(task.dir)
             /\ IsList(task.sources)
             /\ \A i \in 1..Len(task.sources) :
                   IsList(task.sources[i]) /\ task.sources[i] # NoPath
             /\ n.sources = SortedPaths(task.sources)
<1> DEFINE n == NormalizedTask(task)
           run == [i \in 1..Len(task.run) |-> NormalizedStep(task.run[i])]
<1>1. /\ IsList(task.aliases) /\ IsList(task.depends) /\ IsList(task.dir)
      /\ IsList(task.run) /\ \A i \in 1..Len(task.run) : IsStep(task.run[i])
      /\ AreTools(task.tools)
      /\ IsList(task.sources)
      /\ \A i \in 1..Len(task.sources) :
            IsList(task.sources[i]) /\ task.sources[i] # NoPath
  BY DEF SoundTask, IsTask
<1>2. /\ IsList(SortedStrings(task.aliases))
      /\ ToSet(SortedStrings(task.aliases)) = ToSet(task.aliases)
      /\ IsList(SortedStrings(task.depends))
      /\ ToSet(SortedStrings(task.depends)) = ToSet(task.depends)
  BY <1>1, StringsSorted
<1>3. SoundTools(task.tools)
  BY <1>1 DEF SoundTask, ValidTask, WholeTask, SoundTools
<1>4. /\ IsList(run) /\ Len(run) = Len(task.run)
      /\ \A i \in 1..Len(task.run) : run[i] = NormalizedStep(task.run[i])
  <2>1. Len(task.run) \in Nat
    BY <1>1, ListElements
  <2>2. /\ run = [i \in 1..Len(task.run) |-> run[i]]
        /\ \A i \in 1..Len(task.run) : run[i] = NormalizedStep(task.run[i])
    OBVIOUS
  <2> HIDE DEF run
  <2> QED
    BY <2>1, <2>2, ListMade
<1> HIDE DEF run
<1>5. n = [aliases |-> SortedStrings(task.aliases),
           depends |-> SortedStrings(task.depends),
           run |-> run, tools |-> NormalizedTools(task.tools),
           dir |-> NormalizedPath(task.dir),
           sources |-> SortedPaths(task.sources)]
  BY DEF NormalizedTask, run
<1> HIDE DEF n
<1>6. /\ n.aliases = SortedStrings(task.aliases)
      /\ n.depends = SortedStrings(task.depends)
      /\ n.run = run /\ n.tools = NormalizedTools(task.tools)
      /\ n.dir = NormalizedPath(task.dir)
      /\ n.sources = SortedPaths(task.sources)
      /\ n = [aliases |-> n.aliases, depends |-> n.depends,
              run |-> n.run, tools |-> n.tools, dir |-> n.dir,
              sources |-> n.sources]
  BY <1>5
<1> QED
  BY <1>1, <1>2, <1>3, <1>4, <1>6 DEF n

(* A task in normal form means the same, answers to the same aliases and   *)
(* refers to the same tasks.                                               *)
LEMMA TaskNormal ==
  ASSUME NEW task, SoundTask(task)
  PROVE  LET n == NormalizedTask(task)
         IN  /\ IsTask(n) /\ WholeTask(n)
             /\ TaskMeaning(n) = TaskMeaning(task)
             /\ ToSet(n.aliases) = ToSet(task.aliases)
             /\ ReferencedTasks(n) = ReferencedTasks(task)
<1> DEFINE n == NormalizedTask(task)
<1>1. /\ n = [aliases |-> n.aliases, depends |-> n.depends,
              run |-> n.run, tools |-> n.tools, dir |-> n.dir,
              sources |-> n.sources]
      /\ IsList(n.aliases) /\ ToSet(n.aliases) = ToSet(task.aliases)
      /\ IsList(n.depends) /\ ToSet(n.depends) = ToSet(task.depends)
      /\ IsList(n.run) /\ Len(n.run) = Len(task.run)
      /\ \A i \in 1..Len(task.run) :
            n.run[i] = NormalizedStep(task.run[i])
      /\ \A i \in 1..Len(task.run) : IsStep(task.run[i])
  BY TaskParts
<1>2. /\ SoundTools(task.tools) /\ n.tools = NormalizedTools(task.tools)
      /\ IsList(task.dir) /\ n.dir = NormalizedPath(task.dir)
      /\ IsList(task.sources)
      /\ \A i \in 1..Len(task.sources) :
            IsList(task.sources[i]) /\ task.sources[i] # NoPath
      /\ n.sources = SortedPaths(task.sources)
  BY TaskParts
<1> HIDE DEF n
<1>3. SoundTools(n.tools) /\ ToolsMeaning(n.tools) = ToolsMeaning(task.tools)
  BY <1>2, ToolsNormal
<1>4. /\ IsList(n.dir) /\ Place(n.dir) = Place(task.dir)
      /\ n.dir = NoPath <=> task.dir = NoPath
  BY <1>2, PathNormal
<1>5. /\ IsList(n.sources)
      /\ \A x : x \in ToSet(n.sources)
            <=> x # <<"">> /\ \E p \in ToSet(task.sources) : ProjectPath(p) = x
      /\ \A p \in ToSet(task.sources) :
            /\ IsList(ProjectPath(p)) /\ ProjectPath(p) # NoPath
            /\ ProjectPath(ProjectPath(p)) = ProjectPath(p)
            /\ Place(ProjectPath(p)) = Place(p)
  BY <1>2, PathsListed
<1>6. \A p \in ToSet(task.sources) : ProjectPath(p) # <<"">>
  <2>1. \A i \in 1..Len(task.sources) : ProjectPath(task.sources[i]) # <<"">>
    BY Zenon DEF SoundTask, WholeTask
  <2>2. \A p \in ToSet(task.sources) :
           \E i \in 1..Len(task.sources) : task.sources[i] = p
    BY <1>2, ListElements
  <2> QED
    BY <2>1, <2>2, Zenon
<1>7. \A i \in 1..Len(task.run) :
         /\ IsStep(n.run[i]) /\ StepMeaning(n.run[i]) = StepMeaning(task.run[i])
         /\ n.run[i].kind = task.run[i].kind
         /\ ToSet(n.run[i].tasks) = ToSet(task.run[i].tasks)
  BY <1>1, StepNormal
<1>8. \A i \in 1..Len(n.sources) : n.sources[i] \in ToSet(n.sources)
  BY <1>5, ListElements
<1>0. \A x \in ToSet(n.sources) :
         /\ x # <<"">> /\ ProjectPath(x) = x
         /\ \E p \in ToSet(task.sources) : Place(x) = Place(p)
  <2> TAKE x \in ToSet(n.sources)
  <2>1. PICK p \in ToSet(task.sources) : ProjectPath(p) = x
    BY <1>5
  <2> QED
    BY <1>5, <2>1
<1>9. IsTask(n)
  BY <1>1, <1>3, <1>4, <1>5, <1>7, <1>8 DEF IsTask, SoundTools
<1>10. WholeTask(n)
  <2>1. \A i \in 1..Len(n.sources) : ProjectPath(n.sources[i]) # <<"">>
    BY <1>0, <1>8
  <2> QED
    BY <1>3, <2>1, Zenon DEF WholeTask, SoundTools
<1>11. TaskMeaning(n) = TaskMeaning(task)
  <2>1. {Place(p) : p \in ToSet(n.sources)}
           = {Place(p) : p \in ToSet(task.sources)}
    <3>1. \A x \in ToSet(n.sources) :
             \E p \in ToSet(task.sources) : Place(x) = Place(p)
      BY <1>0
    <3>2. \A p \in ToSet(task.sources) :
             \E x \in ToSet(n.sources) : Place(x) = Place(p)
      BY <1>5, <1>6
    <3> QED
      BY <3>1, <3>2
  <2>2. [i \in 1..Len(n.run) |-> StepMeaning(n.run[i])]
           = [i \in 1..Len(task.run) |-> StepMeaning(task.run[i])]
    BY <1>1, <1>7
  <2>3. (n.dir # NoPath) = (task.dir # NoPath)
    BY <1>4
  <2> QED
    BY <1>1, <1>3, <1>4, <2>1, <2>2, <2>3, Zenon DEF TaskMeaning
<1>12. ReferencedTasks(n) = ReferencedTasks(task)
  <2>1. \A x : x \in ReferencedTasks(n) <=>
           \/ x \in ToSet(n.depends)
           \/ \E i \in 1..Len(n.run) : /\ n.run[i].kind # "command"
                                       /\ x \in ToSet(n.run[i].tasks)
    BY DEF ReferencedTasks
  <2>2. \A x : x \in ReferencedTasks(task) <=>
           \/ x \in ToSet(task.depends)
           \/ \E i \in 1..Len(task.run) : /\ task.run[i].kind # "command"
                                          /\ x \in ToSet(task.run[i].tasks)
    BY DEF ReferencedTasks
  <2>3. \A x : x \in ReferencedTasks(n) <=> x \in ReferencedTasks(task)
    BY <1>1, <1>7, <2>1, <2>2
  <2> QED
    BY <2>3
<1> QED
  BY <1>1, <1>9, <1>10, <1>11, <1>12 DEF n

(* Tasks that mean the same have one normal form. *)
LEMMA TaskTold ==
  ASSUME NEW a, NEW b, SoundTask(a), SoundTask(b),
         StraightTask(a), StraightTask(b), TaskMeaning(a) = TaskMeaning(b)
  PROVE  NormalizedTask(a) = NormalizedTask(b)
<1>1. /\ ToSet(a.aliases) = ToSet(b.aliases)
      /\ ToSet(a.depends) = ToSet(b.depends)
      /\ [i \in 1..Len(a.run) |-> StepMeaning(a.run[i])]
            = [i \in 1..Len(b.run) |-> StepMeaning(b.run[i])]
      /\ ToolsMeaning(a.tools) = ToolsMeaning(b.tools)
      /\ (a.dir # NoPath) = (b.dir # NoPath)
      /\ Place(a.dir) = Place(b.dir)
      /\ {Place(p) : p \in ToSet(a.sources)}
            = {Place(p) : p \in ToSet(b.sources)}
  BY DEF TaskMeaning
<1>2. /\ SortedStrings(a.aliases) = SortedStrings(b.aliases)
      /\ SortedStrings(a.depends) = SortedStrings(b.depends)
  BY <1>1 DEF SortedStrings
<1>3. ASSUME NEW task, SoundTask(task)
      PROVE  /\ IsList(task.run) /\ Len(task.run) \in Nat
             /\ \A i \in 1..Len(task.run) : IsStep(task.run[i])
             /\ SoundTools(task.tools)
             /\ IsList(task.dir)
             /\ IsList(task.sources)
             /\ \A i \in 1..Len(task.sources) :
                   IsList(task.sources[i]) /\ task.sources[i] # NoPath
  BY <1>3, TaskParts, ListElements
<1>4. [i \in 1..Len(a.run) |-> NormalizedStep(a.run[i])]
         = [i \in 1..Len(b.run) |-> NormalizedStep(b.run[i])]
  <2> DEFINE f == [i \in 1..Len(a.run) |-> StepMeaning(a.run[i])]
             g == [i \in 1..Len(b.run) |-> StepMeaning(b.run[i])]
  <2>1. /\ DOMAIN f = 1..Len(a.run) /\ DOMAIN g = 1..Len(b.run)
        /\ \A i \in 1..Len(a.run) : f[i] = StepMeaning(a.run[i])
        /\ \A i \in 1..Len(b.run) : g[i] = StepMeaning(b.run[i])
    OBVIOUS
  <2>2. f = g
    BY <1>1
  <2> HIDE DEF f, g
  <2>3. 1..Len(a.run) = 1..Len(b.run)
    BY <2>1, <2>2
  <2>4. \A i \in 1..Len(a.run) :
           NormalizedStep(a.run[i]) = NormalizedStep(b.run[i])
    <3> TAKE i \in 1..Len(a.run)
    <3>1. IsStep(a.run[i])
      BY <1>3
    <3>2. i \in 1..Len(b.run)
      BY <2>3
    <3>3. IsStep(b.run[i])
      BY <1>3, <3>2
    <3>4. StepMeaning(a.run[i]) = StepMeaning(b.run[i])
      BY <2>1, <2>2, <3>2
    <3> QED
      BY <3>1, <3>3, <3>4, StepTold
  <2> QED
    BY <2>3, <2>4
<1>5. NormalizedTools(a.tools) = NormalizedTools(b.tools)
  BY <1>1, <1>3, ToolsTold
<1>6. NormalizedPath(a.dir) = NormalizedPath(b.dir)
  <2>1. a.dir = NoPath <=> b.dir = NoPath
    BY <1>1
  <2>2. ASSUME a.dir # NoPath, b.dir # NoPath
        PROVE  ProjectPath(a.dir) = ProjectPath(b.dir)
    <3>1. IsList(a.dir) /\ IsList(b.dir)
      BY <1>3
    <3>2. Straight(a.dir) /\ Straight(b.dir)
      BY DEF StraightTask
    <3> QED
      BY <1>1, <2>2, <3>1, <3>2, PathTold
  <2> QED
    BY <2>1, <2>2 DEF NormalizedPath
<1>7. SortedPaths(a.sources) = SortedPaths(b.sources)
  <2>1. ASSUME NEW task, SoundTask(task), StraightTask(task)
        PROVE  \A p \in ToSet(task.sources) :
                  IsList(p) /\ p # NoPath /\ Straight(p)
    <3>1. \A p \in ToSet(task.sources) :
             \E i \in 1..Len(task.sources) : task.sources[i] = p
      BY <1>3, <2>1, ListElements
    <3> QED
      BY <1>3, <2>1, <3>1 DEF StraightTask
  <2>2. ASSUME NEW c, NEW d, SoundTask(c), SoundTask(d),
               StraightTask(c), StraightTask(d),
               {Place(p) : p \in ToSet(c.sources)}
                  = {Place(p) : p \in ToSet(d.sources)},
               NEW p \in ToSet(c.sources)
        PROVE  \E q \in ToSet(d.sources) : ProjectPath(q) = ProjectPath(p)
    <3>1. PICK q \in ToSet(d.sources) : Place(q) = Place(p)
      BY <2>2
    <3>2. IsList(p) /\ p # NoPath /\ Straight(p)
      BY <2>1, <2>2
    <3>3. IsList(q) /\ q # NoPath /\ Straight(q)
      BY <2>1, <2>2
    <3> QED
      BY <3>1, <3>2, <3>3, PathTold
  <2>3. \A p \in ToSet(a.sources) :
           \E q \in ToSet(b.sources) : ProjectPath(q) = ProjectPath(p)
    BY <1>1, <2>2
  <2>4. \A p \in ToSet(b.sources) :
           \E q \in ToSet(a.sources) : ProjectPath(q) = ProjectPath(p)
    BY <1>1, <2>2
  <2>5. {ProjectPath(p) : p \in ToSet(a.sources)}
           = {ProjectPath(p) : p \in ToSet(b.sources)}
    BY <2>3, <2>4
  <2> QED
    BY <2>5, Zenon DEF SortedPaths
<1> QED
  BY <1>2, <1>4, <1>5, <1>6, <1>7, Zenon DEF NormalizedTask

(* Normalizing again changes nothing. *)
LEMMA TaskAgain ==
  ASSUME NEW task, SoundTask(task), SoundTask(NormalizedTask(task))
  PROVE  NormalizedTask(NormalizedTask(task)) = NormalizedTask(task)
<1> DEFINE n == NormalizedTask(task)
           m == NormalizedTask(n)
<1>1. /\ n = [aliases |-> n.aliases, depends |-> n.depends,
              run |-> n.run, tools |-> n.tools, dir |-> n.dir,
              sources |-> n.sources]
      /\ n.aliases = SortedStrings(task.aliases)
      /\ n.depends = SortedStrings(task.depends)
      /\ ToSet(n.aliases) = ToSet(task.aliases)
      /\ ToSet(n.depends) = ToSet(task.depends)
      /\ IsList(n.run) /\ Len(n.run) = Len(task.run)
      /\ \A i \in 1..Len(task.run) :
            n.run[i] = NormalizedStep(task.run[i])
      /\ \A i \in 1..Len(task.run) : IsStep(task.run[i])
  BY TaskParts
<1>2. /\ SoundTools(task.tools) /\ n.tools = NormalizedTools(task.tools)
      /\ IsList(task.dir) /\ n.dir = NormalizedPath(task.dir)
      /\ IsList(task.sources)
      /\ \A i \in 1..Len(task.sources) :
            IsList(task.sources[i]) /\ task.sources[i] # NoPath
      /\ n.sources = SortedPaths(task.sources)
  BY TaskParts
<1>3. SoundTask(n)
  OBVIOUS
<1> HIDE DEF n
<1>4. /\ m = [aliases |-> m.aliases, depends |-> m.depends,
              run |-> m.run, tools |-> m.tools, dir |-> m.dir,
              sources |-> m.sources]
      /\ m.aliases = SortedStrings(n.aliases)
      /\ m.depends = SortedStrings(n.depends)
      /\ IsList(m.run) /\ Len(m.run) = Len(n.run)
      /\ \A i \in 1..Len(n.run) :
            m.run[i] = NormalizedStep(n.run[i])
  BY <1>3, TaskParts
<1>5. /\ m.tools = NormalizedTools(n.tools)
      /\ m.dir = NormalizedPath(n.dir)
      /\ m.sources = SortedPaths(n.sources)
      /\ SoundTools(n.tools)
      /\ \A i \in 1..Len(n.sources) :
            IsList(n.sources[i]) /\ n.sources[i] # NoPath
  BY <1>3, TaskParts
<1> HIDE DEF m
<1>6. m.aliases = n.aliases /\ m.depends = n.depends
  BY <1>1, <1>4 DEF SortedStrings
<1>7. m.run = n.run
  <2>1. \A i \in 1..Len(n.run) : m.run[i] = n.run[i]
    <3> TAKE i \in 1..Len(n.run)
    <3>1. IsStep(task.run[i]) /\ n.run[i] = NormalizedStep(task.run[i])
      BY <1>1
    <3>2. IsStep(n.run[i]) /\ StepMeaning(n.run[i]) = StepMeaning(task.run[i])
      BY <3>1, StepNormal
    <3>3. NormalizedStep(n.run[i]) = NormalizedStep(task.run[i])
      BY <3>1, <3>2, StepTold
    <3> QED
      BY <1>4, <3>1, <3>3
  <2> QED
    BY <1>1, <1>4, <2>1, ListsEqual
<1>8. m.tools = n.tools
  <2>1. ToolsMeaning(n.tools) = ToolsMeaning(task.tools)
    BY <1>2, ToolsNormal
  <2> QED
    BY <1>2, <1>5, <2>1, ToolsTold
<1>9. m.dir = n.dir
  BY <1>2, <1>5, PathNormal
<1>10. m.sources = n.sources
  <2> DEFINE S == ToSet(n.sources)
  <2>1. /\ IsList(n.sources)
        /\ \A x : x \in S
              <=> /\ x # <<"">>
                  /\ \E p \in ToSet(task.sources) : ProjectPath(p) = x
        /\ \A p \in ToSet(task.sources) :
              ProjectPath(ProjectPath(p)) = ProjectPath(p)
    BY <1>2, PathsListed
  <2>2. \A x \in S : ProjectPath(x) = x /\ x # <<"">>
    <3> TAKE x \in S
    <3>1. PICK p \in ToSet(task.sources) : ProjectPath(p) = x
      BY <2>1
    <3> QED
      BY <2>1, <3>1
  <2>3. {ProjectPath(x) : x \in S} \ {<<"">>} = S
    BY <2>2
  <2>4. SortedPaths(n.sources) = SetToSeq(S)
    BY <2>3, Zenon DEF SortedPaths
  <2>5. SortedPaths(task.sources) = SetToSeq(S)
    <3> DEFINE T == {ProjectPath(p) : p \in ToSet(task.sources)}
    <3>1. \A x : x \in T <=> \E p \in ToSet(task.sources) : ProjectPath(p) = x
      OBVIOUS
    <3>2. SortedPaths(task.sources) = SetToSeq(T \ {<<"">>})
      BY Zenon DEF SortedPaths
    <3> HIDE DEF T, S
    <3>3. \A x : x \in T \ {<<"">>} <=> x \in S
      BY <2>1, <3>1 DEF S
    <3>4. T \ {<<"">>} = S
      BY <3>3
    <3> QED
      BY <3>2, <3>4
  <2> QED
    BY <1>2, <1>5, <2>4, <2>5
<1>11. m = n
  BY <1>1, <1>4, <1>6, <1>7, <1>8, <1>9, <1>10
<1> QED
  BY <1>11 DEF m, n

(* A valid task with plain paths stays valid. *)
LEMMA TaskStaysValid ==
  ASSUME NEW task, SoundTask(task), PlainTask(task)
  PROVE  LET n == NormalizedTask(task)
         IN  /\ SoundTask(n)
             /\ \A mode : ValidTask(n, mode) <=> ValidTask(task, mode)
<1> DEFINE n == NormalizedTask(task)
<1>1. /\ ToSet(n.aliases) = ToSet(task.aliases)
      /\ ToSet(n.depends) = ToSet(task.depends)
      /\ Len(n.run) = Len(task.run)
      /\ \A i \in 1..Len(task.run) :
            n.run[i] = NormalizedStep(task.run[i])
      /\ \A i \in 1..Len(task.run) : IsStep(task.run[i])
  BY TaskParts
<1>2. /\ SoundTools(task.tools) /\ n.tools = NormalizedTools(task.tools)
      /\ IsList(task.dir) /\ n.dir = NormalizedPath(task.dir)
      /\ IsList(task.sources)
      /\ \A i \in 1..Len(task.sources) :
            IsList(task.sources[i]) /\ task.sources[i] # NoPath
      /\ n.sources = SortedPaths(task.sources)
  BY TaskParts
<1>3. IsTask(n) /\ WholeTask(n)
  BY TaskNormal
<1> HIDE DEF n
<1>4. /\ task.dir # NoPath => ValidPattern(task.dir)
      /\ \A i \in 1..Len(task.sources) : ValidPattern(task.sources[i])
  BY Zenon DEF SoundTask, ValidTask
<1>5. n.dir # NoPath => ValidPattern(n.dir)
  BY <1>2, <1>4, PlainStaysValid DEF NormalizedPath, PlainTask
<1>6. \A i \in 1..Len(n.sources) : ValidPattern(n.sources[i])
  <2> TAKE i \in 1..Len(n.sources)
  <2>1. /\ IsList(n.sources)
        /\ \A x : x \in ToSet(n.sources)
              <=> /\ x # <<"">>
                  /\ \E p \in ToSet(task.sources) : ProjectPath(p) = x
    BY <1>2, PathsListed
  <2>2. n.sources[i] \in ToSet(n.sources)
    BY <2>1, ListElements
  <2>3. PICK p \in ToSet(task.sources) : ProjectPath(p) = n.sources[i]
    BY <2>1, <2>2
  <2>4. PICK j \in 1..Len(task.sources) : task.sources[j] = p
    BY <1>2, ListElements
  <2>5. /\ IsList(p) /\ p # NoPath /\ Plain(p) /\ ValidPattern(p)
    BY <1>2, <1>4, <2>4 DEF PlainTask
  <2> QED
    BY <2>3, <2>5, PlainStaysValid
<1>7. ASSUME NEW mode
      PROVE  ValidTask(n, mode) <=> ValidTask(task, mode)
  <2>1. ValidTools(n.tools, mode) <=> ValidTools(task.tools, mode)
    BY <1>2, ToolsNormal
  <2>2. \A i \in 1..Len(task.run) :
           ValidStep(n.run[i]) <=> ValidStep(task.run[i])
    BY <1>1, StepNormal
  <2>3. (\A i \in 1..Len(n.run) : ValidStep(n.run[i]))
           <=> \A i \in 1..Len(task.run) : ValidStep(task.run[i])
    BY <1>1, <2>2
  <2> QED
    BY <1>1, <1>4, <1>5, <1>6, <2>1, <2>3, Zenon DEF ValidTask
<1>8. ValidTask(n, "authoring")
  BY <1>7 DEF SoundTask
<1> QED
  BY <1>3, <1>7, <1>8 DEF n, SoundTask

-----------------------------------------------------------------------------
(* Plans. *)

(* A plan that is typed, valid and kept whole by normalizing. *)
SoundPlan(plan) ==
    IsPlan(plan) /\ ValidPlan(plan, "authoring") /\ KeptWhole(plan)

(* The normalized origins of a plan hold each of them. *)
LEMMA OriginsListed ==
  ASSUME NEW s, IsList(s), \A i \in 1..Len(s) : SoundOrigin(s[i])
  PROVE  LET n == SortedStrings([i \in 1..Len(s) |-> NormalizedOrigin(s[i])])
         IN  /\ IsList(n)
             /\ \A x : x \in ToSet(n)
                   <=> \E o \in ToSet(s) : NormalizedOrigin(o) = x
             /\ \A o \in ToSet(s) : SoundOrigin(o)
<1> DEFINE F == [o \in ToSet(s) |-> NormalizedOrigin(o)]
           t == [i \in 1..Len(s) |-> NormalizedOrigin(s[i])]
<1>1. /\ \A i \in 1..Len(s) : s[i] \in ToSet(s)
      /\ \A o \in ToSet(s) : \E i \in 1..Len(s) : s[i] = o
  BY ListElements
<1>2. t = Told(F, s)
  BY <1>1 DEF Told
<1>3. \A o \in ToSet(s) : F[o] = NormalizedOrigin(o)
  OBVIOUS
<1> HIDE DEF t, F
<1>4. IsList(t) /\ \A x : x \in ToSet(t) <=> \E o \in ToSet(s) : F[o] = x
  BY <1>2, ToldIsList, ToldValues
<1>5. IsList(SortedStrings(t)) /\ ToSet(SortedStrings(t)) = ToSet(t)
  BY <1>4, StringsSorted
<1> QED
  BY <1>1, <1>3, <1>4, <1>5 DEF t

(* The origins of a plan in normal form mean the same. *)
LEMMA OriginsNormal ==
  ASSUME NEW s, IsList(s), \A i \in 1..Len(s) : SoundOrigin(s[i])
  PROVE  LET n == SortedStrings([i \in 1..Len(s) |-> NormalizedOrigin(s[i])])
         IN  /\ IsList(n) /\ \A i \in 1..Len(n) : SoundOrigin(n[i])
             /\ {OriginMeaning(o) : o \in ToSet(n)}
                   = {OriginMeaning(o) : o \in ToSet(s)}
<1> DEFINE n == SortedStrings([i \in 1..Len(s) |-> NormalizedOrigin(s[i])])
<1>1. /\ IsList(n)
      /\ \A x : x \in ToSet(n) <=> \E o \in ToSet(s) : NormalizedOrigin(o) = x
      /\ \A o \in ToSet(s) : SoundOrigin(o)
  BY OriginsListed
<1> HIDE DEF n
<1>2. \A o \in ToSet(s) :
         /\ SoundOrigin(NormalizedOrigin(o))
         /\ OriginMeaning(NormalizedOrigin(o)) = OriginMeaning(o)
  BY <1>1, OriginNormal
<1>3. \A x \in ToSet(n) :
         SoundOrigin(x)
         /\ \E o \in ToSet(s) : OriginMeaning(x) = OriginMeaning(o)
  BY <1>1, <1>2
<1>4. \A o \in ToSet(s) :
         \E x \in ToSet(n) : OriginMeaning(x) = OriginMeaning(o)
  BY <1>1, <1>2
<1>5. \A i \in 1..Len(n) : SoundOrigin(n[i])
  BY <1>1, <1>3, ListElements
<1>6. {OriginMeaning(o) : o \in ToSet(n)} = {OriginMeaning(o) : o \in ToSet(s)}
  BY <1>3, <1>4
<1> QED
  BY <1>1, <1>5, <1>6 DEF n

(* Origins that mean the same as sets have one normal form. *)
LEMMA OriginsTold ==
  ASSUME NEW s, NEW t, IsList(s), IsList(t),
         \A i \in 1..Len(s) : SoundOrigin(s[i]),
         \A i \in 1..Len(t) : SoundOrigin(t[i]),
         {OriginMeaning(o) : o \in ToSet(s)}
            = {OriginMeaning(o) : o \in ToSet(t)}
  PROVE  SortedStrings([i \in 1..Len(s) |-> NormalizedOrigin(s[i])])
            = SortedStrings([i \in 1..Len(t) |-> NormalizedOrigin(t[i])])
<1> DEFINE F(u) == [i \in 1..Len(u) |-> NormalizedOrigin(u[i])]
<1>1. ASSUME NEW u, IsList(u), \A i \in 1..Len(u) : SoundOrigin(u[i])
      PROVE  /\ IsList(u)
             /\ \A o \in ToSet(u) : SoundOrigin(o)
             /\ \A x : x \in ToSet(F(u))
                   <=> \E o \in ToSet(u) : NormalizedOrigin(o) = x
  <2>1. \A x : x \in ToSet(F(u))
                  <=> \E i \in 1..Len(u) : NormalizedOrigin(u[i]) = x
    <3>1. Len(u) \in Nat
      BY <1>1, ListElements
    <3>2. /\ F(u) = [i \in 1..Len(u) |-> F(u)[i]]
          /\ \A i \in 1..Len(u) : F(u)[i] = NormalizedOrigin(u[i])
      OBVIOUS
    <3> HIDE DEF F
    <3>3. IsList(F(u)) /\ Len(F(u)) = Len(u)
      BY <3>1, <3>2, ListMade
    <3> QED
      BY <3>2, <3>3, ListElements
  <2>2. /\ \A i \in 1..Len(u) : u[i] \in ToSet(u)
        /\ \A o \in ToSet(u) : \E i \in 1..Len(u) : u[i] = o
    BY <1>1, ListElements
  <2> HIDE DEF F
  <2>3. \A o \in ToSet(u) : SoundOrigin(o)
    BY <1>1, <2>2
  <2>4. \A x : (\E i \in 1..Len(u) : NormalizedOrigin(u[i]) = x)
                  <=> \E o \in ToSet(u) : NormalizedOrigin(o) = x
    BY <2>2
  <2> QED
    BY <1>1, <2>1, <2>3, <2>4
<1>2. ASSUME NEW u, NEW v, \A o \in ToSet(u) \cup ToSet(v) : SoundOrigin(o),
             {OriginMeaning(o) : o \in ToSet(u)}
                = {OriginMeaning(o) : o \in ToSet(v)},
             NEW o \in ToSet(u)
      PROVE  \E p \in ToSet(v) : NormalizedOrigin(p) = NormalizedOrigin(o)
  <2>0. OriginMeaning(o) \in {OriginMeaning(p) : p \in ToSet(v)}
    <3>1. OriginMeaning(o) \in {OriginMeaning(p) : p \in ToSet(u)}
      OBVIOUS
    <3> QED
      BY <1>2, <3>1, Zenon
  <2>1. PICK p \in ToSet(v) : OriginMeaning(p) = OriginMeaning(o)
    BY <2>0, Zenon
  <2>2. SoundOrigin(o) /\ SoundOrigin(p)
    BY <1>2
  <2> QED
    BY <2>1, <2>2, OriginTold, ZenonT(30)
<1> HIDE DEF F
<1>3. /\ \A o \in ToSet(s) \cup ToSet(t) : SoundOrigin(o)
      /\ \A x : x \in ToSet(F(s))
            <=> \E o \in ToSet(s) : NormalizedOrigin(o) = x
      /\ \A x : x \in ToSet(F(t))
            <=> \E o \in ToSet(t) : NormalizedOrigin(o) = x
  BY <1>1
<1>4. \A o \in ToSet(s) :
         \E p \in ToSet(t) : NormalizedOrigin(p) = NormalizedOrigin(o)
  BY <1>2, <1>3, ZenonT(30)
<1>5. \A o \in ToSet(t) :
         \E p \in ToSet(s) : NormalizedOrigin(p) = NormalizedOrigin(o)
  BY <1>2, <1>3, ZenonT(30)
<1>6. \A x : x \in ToSet(F(s)) <=> x \in ToSet(F(t))
  BY <1>3, <1>4, <1>5
<1>7. ToSet(F(s)) = ToSet(F(t))
  BY <1>6
<1> QED
  BY <1>7 DEF SortedStrings, F

(* The parts of a plan in normal form. *)
LEMMA PlanParts ==
  ASSUME NEW plan, SoundPlan(plan)
  PROVE  LET n == NormalizedPlan(plan)
         IN  /\ n = [schema |-> n.schema, extras |-> n.extras,
                     platforms |-> n.platforms, origins |-> n.origins,
                     tools |-> n.tools, packages |-> n.packages,
                     tasks |-> n.tasks]
             /\ n.schema = plan.schema /\ n.extras = plan.extras
             /\ IsList(plan.platforms)
             /\ n.platforms = SortedStrings(plan.platforms)
             /\ IsList(n.platforms)
             /\ ToSet(n.platforms) = ToSet(plan.platforms)
             /\ IsList(plan.origins)
             /\ \A i \in 1..Len(plan.origins) : SoundOrigin(plan.origins[i])
             /\ n.origins = SortedStrings([i \in 1..Len(plan.origins) |->
                                NormalizedOrigin(plan.origins[i])])
             /\ SoundTools(plan.tools)
             /\ n.tools = NormalizedTools(plan.tools)
             /\ DOMAIN n.packages = DOMAIN plan.packages
             /\ n.packages = [name \in DOMAIN n.packages |-> n.packages[name]]
             /\ \A name \in DOMAIN plan.packages :
                   /\ SoundVersion(plan.packages[name])
                   /\ n.packages[name] = NormalizedVersion(plan.packages[name])
             /\ DOMAIN n.tasks = DOMAIN plan.tasks
             /\ n.tasks = [t \in DOMAIN n.tasks |-> n.tasks[t]]
             /\ \A t \in DOMAIN plan.tasks :
                   /\ SoundTask(plan.tasks[t])
                   /\ n.tasks[t] = NormalizedTask(plan.tasks[t])
<1> DEFINE n == NormalizedPlan(plan)
           packages == [name \in DOMAIN plan.packages |->
                           NormalizedPackage(plan.packages[name])]
           tasks == [t \in DOMAIN plan.tasks |-> NormalizedTask(plan.tasks[t])]
           origins == SortedStrings([i \in 1..Len(plan.origins) |->
                                        NormalizedOrigin(plan.origins[i])])
<1>1. /\ IsList(plan.platforms) /\ IsList(plan.origins)
      /\ \A i \in 1..Len(plan.origins) : IsOrigin(plan.origins[i])
      /\ AreTools(plan.tools)
      /\ \A name \in DOMAIN plan.packages : IsVersion(plan.packages[name])
      /\ \A t \in DOMAIN plan.tasks : IsTask(plan.tasks[t])
  BY Zenon DEF SoundPlan, IsPlan
<1>2. /\ ValidShell(plan) /\ ValidTools(plan.tools, "authoring")
      /\ \A name \in DOMAIN plan.packages :
            ValidPackage(plan.packages[name], "authoring")
      /\ \A t \in DOMAIN plan.tasks : ValidTask(plan.tasks[t], "authoring")
  BY Zenon DEF SoundPlan, ValidPlan, ValidFields
<1>3. /\ WholeTools(plan.tools)
      /\ \A name \in DOMAIN plan.packages :
            WholeSource(plan.packages[name].source)
      /\ \A t \in DOMAIN plan.tasks : WholeTask(plan.tasks[t])
  BY Zenon DEF SoundPlan, KeptWhole
<1>4. \A i \in 1..Len(plan.origins) : SoundOrigin(plan.origins[i])
  BY <1>1, <1>2, Zenon DEF ValidShell, SoundOrigin
<1>5. SoundTools(plan.tools)
  BY <1>1, <1>2, <1>3 DEF SoundTools
<1>6. \A name \in DOMAIN plan.packages : SoundVersion(plan.packages[name])
  BY <1>1, <1>2, <1>3 DEF SoundVersion, ValidPackage
<1>7. \A t \in DOMAIN plan.tasks : SoundTask(plan.tasks[t])
  BY <1>1, <1>2, <1>3 DEF SoundTask
<1>8. /\ IsList(SortedStrings(plan.platforms))
      /\ ToSet(SortedStrings(plan.platforms)) = ToSet(plan.platforms)
  BY <1>1, StringsSorted
<1>9. /\ DOMAIN packages = DOMAIN plan.packages
      /\ packages = [name \in DOMAIN packages |-> packages[name]]
      /\ \A name \in DOMAIN plan.packages :
            packages[name] = NormalizedVersion(plan.packages[name])
  BY DEF NormalizedPackage
<1>10. /\ DOMAIN tasks = DOMAIN plan.tasks
       /\ tasks = [t \in DOMAIN tasks |-> tasks[t]]
       /\ \A t \in DOMAIN plan.tasks :
             tasks[t] = NormalizedTask(plan.tasks[t])
  OBVIOUS
<1> HIDE DEF packages, tasks, origins
<1>11. n = [schema |-> plan.schema, extras |-> plan.extras,
            platforms |-> SortedStrings(plan.platforms),
            origins |-> origins, tools |-> NormalizedTools(plan.tools),
            packages |-> packages, tasks |-> tasks]
  BY DEF NormalizedPlan, packages, tasks, origins
<1> HIDE DEF n
<1>12. /\ n.schema = plan.schema /\ n.extras = plan.extras
       /\ n.platforms = SortedStrings(plan.platforms)
       /\ n.origins = origins /\ n.tools = NormalizedTools(plan.tools)
       /\ n.packages = packages /\ n.tasks = tasks
       /\ n = [schema |-> n.schema, extras |-> n.extras,
               platforms |-> n.platforms, origins |-> n.origins,
               tools |-> n.tools, packages |-> n.packages,
               tasks |-> n.tasks]
  BY <1>11
<1> QED
  BY <1>1, <1>4, <1>5, <1>6, <1>7, <1>8, <1>9, <1>10, <1>12 DEF n, origins

(* A plan in normal form is a plan that means the same. *)
LEMMA PlanNormal ==
  ASSUME NEW plan, SoundPlan(plan)
  PROVE  LET n == NormalizedPlan(plan)
         IN  IsPlan(n) /\ KeptWhole(n) /\ Meaning(n) = Meaning(plan)
<1> DEFINE n == NormalizedPlan(plan)
<1>1. /\ n = [schema |-> n.schema, extras |-> n.extras,
              platforms |-> n.platforms, origins |-> n.origins,
              tools |-> n.tools, packages |-> n.packages,
              tasks |-> n.tasks]
      /\ n.schema = plan.schema /\ n.extras = plan.extras
      /\ IsList(n.platforms) /\ ToSet(n.platforms) = ToSet(plan.platforms)
  BY PlanParts
<1>2. /\ IsList(plan.origins)
      /\ \A i \in 1..Len(plan.origins) : SoundOrigin(plan.origins[i])
      /\ n.origins = SortedStrings([i \in 1..Len(plan.origins) |->
                         NormalizedOrigin(plan.origins[i])])
      /\ SoundTools(plan.tools) /\ n.tools = NormalizedTools(plan.tools)
  BY PlanParts
<1>3. /\ DOMAIN n.packages = DOMAIN plan.packages
      /\ n.packages = [name \in DOMAIN n.packages |-> n.packages[name]]
      /\ \A name \in DOMAIN plan.packages :
            /\ SoundVersion(plan.packages[name])
            /\ n.packages[name] = NormalizedVersion(plan.packages[name])
      /\ DOMAIN n.tasks = DOMAIN plan.tasks
      /\ n.tasks = [t \in DOMAIN n.tasks |-> n.tasks[t]]
      /\ \A t \in DOMAIN plan.tasks :
            /\ SoundTask(plan.tasks[t])
            /\ n.tasks[t] = NormalizedTask(plan.tasks[t])
  BY PlanParts
<1> HIDE DEF n
<1>4. /\ IsList(n.origins)
      /\ \A i \in 1..Len(n.origins) : SoundOrigin(n.origins[i])
      /\ {OriginMeaning(o) : o \in ToSet(n.origins)}
            = {OriginMeaning(o) : o \in ToSet(plan.origins)}
  BY <1>2, OriginsNormal
<1>5. SoundTools(n.tools) /\ ToolsMeaning(n.tools) = ToolsMeaning(plan.tools)
  BY <1>2, ToolsNormal
<1>6. \A name \in DOMAIN plan.packages :
         /\ SoundVersion(n.packages[name])
         /\ VersionMeaning(n.packages[name])
               = VersionMeaning(plan.packages[name])
  BY <1>3, VersionNormal
<1>7. \A t \in DOMAIN plan.tasks :
         /\ IsTask(n.tasks[t]) /\ WholeTask(n.tasks[t])
         /\ TaskMeaning(n.tasks[t]) = TaskMeaning(plan.tasks[t])
  BY <1>3, TaskNormal
<1>8. IsMap(n.packages) /\ IsMap(n.tasks)
  BY <1>3 DEF IsMap
<1>9. IsPlan(n)
  BY <1>1, <1>3, <1>4, <1>5, <1>6, <1>7, <1>8
     DEF IsPlan, SoundTools, SoundOrigin, SoundVersion
<1>10. KeptWhole(n)
  BY <1>3, <1>5, <1>6, <1>7 DEF KeptWhole, SoundTools, SoundVersion
<1>11. Meaning(n) = Meaning(plan)
  <2>1. [name \in DOMAIN n.packages |-> VersionMeaning(n.packages[name])]
           = [name \in DOMAIN plan.packages |->
                 VersionMeaning(plan.packages[name])]
    BY <1>3, <1>6
  <2>2. [t \in DOMAIN n.tasks |-> TaskMeaning(n.tasks[t])]
           = [t \in DOMAIN plan.tasks |-> TaskMeaning(plan.tasks[t])]
    BY <1>3, <1>7
  <2> QED
    BY <1>1, <1>4, <1>5, <2>1, <2>2, Zenon DEF Meaning
<1> QED
  BY <1>9, <1>10, <1>11 DEF n

(* Plans that mean the same have one normal form. *)
LEMMA PlanTold ==
  ASSUME NEW a, NEW b, SoundPlan(a), SoundPlan(b),
         StraightPlan(a), StraightPlan(b), Meaning(a) = Meaning(b)
  PROVE  NormalizedPlan(a) = NormalizedPlan(b)
<1>1. /\ a.schema = b.schema /\ a.extras = b.extras
      /\ ToSet(a.platforms) = ToSet(b.platforms)
      /\ {OriginMeaning(o) : o \in ToSet(a.origins)}
            = {OriginMeaning(o) : o \in ToSet(b.origins)}
      /\ ToolsMeaning(a.tools) = ToolsMeaning(b.tools)
      /\ [name \in DOMAIN a.packages |-> VersionMeaning(a.packages[name])]
            = [name \in DOMAIN b.packages |-> VersionMeaning(b.packages[name])]
      /\ [t \in DOMAIN a.tasks |-> TaskMeaning(a.tasks[t])]
            = [t \in DOMAIN b.tasks |-> TaskMeaning(b.tasks[t])]
  BY DEF Meaning
<1>2. ASSUME NEW plan, SoundPlan(plan)
      PROVE  /\ IsList(plan.origins)
             /\ \A i \in 1..Len(plan.origins) : SoundOrigin(plan.origins[i])
             /\ SoundTools(plan.tools)
             /\ \A name \in DOMAIN plan.packages :
                   SoundVersion(plan.packages[name])
             /\ \A t \in DOMAIN plan.tasks : SoundTask(plan.tasks[t])
  BY <1>2, PlanParts
<1>3. SortedStrings(a.platforms) = SortedStrings(b.platforms)
  BY <1>1 DEF SortedStrings
<1>4. SortedStrings([i \in 1..Len(a.origins) |->
                       NormalizedOrigin(a.origins[i])])
         = SortedStrings([i \in 1..Len(b.origins) |->
                            NormalizedOrigin(b.origins[i])])
  BY <1>1, <1>2, OriginsTold
<1>5. NormalizedTools(a.tools) = NormalizedTools(b.tools)
  BY <1>1, <1>2, ToolsTold
<1>6. [name \in DOMAIN a.packages |-> NormalizedPackage(a.packages[name])]
         = [name \in DOMAIN b.packages |-> NormalizedPackage(b.packages[name])]
  <2> DEFINE f == [name \in DOMAIN a.packages |->
                      VersionMeaning(a.packages[name])]
             g == [name \in DOMAIN b.packages |->
                      VersionMeaning(b.packages[name])]
  <2>1. /\ DOMAIN f = DOMAIN a.packages /\ DOMAIN g = DOMAIN b.packages
        /\ \A name \in DOMAIN a.packages :
              f[name] = VersionMeaning(a.packages[name])
        /\ \A name \in DOMAIN b.packages :
              g[name] = VersionMeaning(b.packages[name])
    OBVIOUS
  <2>2. f = g
    BY <1>1
  <2> HIDE DEF f, g
  <2>3. DOMAIN a.packages = DOMAIN b.packages
    BY <2>1, <2>2
  <2>4. \A name \in DOMAIN a.packages :
           VersionMeaning(a.packages[name]) = VersionMeaning(b.packages[name])
    BY <2>1, <2>2, <2>3
  <2>5. \A name \in DOMAIN a.packages :
           NormalizedPackage(a.packages[name])
              = NormalizedPackage(b.packages[name])
    <3> TAKE name \in DOMAIN a.packages
    <3>1. SoundVersion(a.packages[name]) /\ SoundVersion(b.packages[name])
      BY <1>2, <2>3
    <3>2. NormalizedVersion(a.packages[name])
             = NormalizedVersion(b.packages[name])
      BY <2>4, <3>1, VersionTold
    <3> QED
      BY <3>2 DEF NormalizedPackage
  <2> QED
    BY <2>3, <2>5
<1>7. [t \in DOMAIN a.tasks |-> NormalizedTask(a.tasks[t])]
         = [t \in DOMAIN b.tasks |-> NormalizedTask(b.tasks[t])]
  <2> DEFINE f == [t \in DOMAIN a.tasks |-> TaskMeaning(a.tasks[t])]
             g == [t \in DOMAIN b.tasks |-> TaskMeaning(b.tasks[t])]
  <2>1. /\ DOMAIN f = DOMAIN a.tasks /\ DOMAIN g = DOMAIN b.tasks
        /\ \A t \in DOMAIN a.tasks : f[t] = TaskMeaning(a.tasks[t])
        /\ \A t \in DOMAIN b.tasks : g[t] = TaskMeaning(b.tasks[t])
    OBVIOUS
  <2>2. f = g
    BY <1>1
  <2> HIDE DEF f, g
  <2>3. DOMAIN a.tasks = DOMAIN b.tasks
    BY <2>1, <2>2
  <2>4. \A t \in DOMAIN a.tasks :
           NormalizedTask(a.tasks[t]) = NormalizedTask(b.tasks[t])
    <3> TAKE t \in DOMAIN a.tasks
    <3>1. SoundTask(a.tasks[t]) /\ SoundTask(b.tasks[t])
      BY <1>2, <2>3
    <3>2. StraightTask(a.tasks[t]) /\ StraightTask(b.tasks[t])
      BY <2>3 DEF StraightPlan
    <3>3. TaskMeaning(a.tasks[t]) = TaskMeaning(b.tasks[t])
      BY <2>1, <2>2, <2>3
    <3> QED
      BY <3>1, <3>2, <3>3, TaskTold
  <2> QED
    BY <2>3, <2>4
<1> QED
  BY <1>1, <1>3, <1>4, <1>5, <1>6, <1>7, Zenon DEF NormalizedPlan

(* The graph of the tasks is that of the normal form. *)
TaskGraph(plan) ==
    [tasks |-> DOMAIN plan.tasks,
     aliases |-> [t \in DOMAIN plan.tasks |-> ToSet(plan.tasks[t].aliases)],
     references |-> [t \in DOMAIN plan.tasks |->
                        ReferencedTasks(plan.tasks[t])]]

(* Whether the tasks of a plan are accepted depends on their names,        *)
(* aliases and references.                                                 *)
LEMMA GraphDecides ==
  ASSUME NEW a, NEW b, TaskGraph(a) = TaskGraph(b), ValidTaskGraph(a)
  PROVE  ValidTaskGraph(b)
BY Zenon DEF ValidTaskGraph, TaskGraph

(* A valid plan whose paths are plain stays as valid as it is. *)
LEMMA PlanStaysValid ==
  ASSUME NEW plan, SoundPlan(plan), PlainPlan(plan)
  PROVE  LET n == NormalizedPlan(plan)
         IN  /\ SoundPlan(n)
             /\ \A mode : ValidFields(n, mode) <=> ValidFields(plan, mode)
<1> DEFINE n == NormalizedPlan(plan)
<1>1. /\ n.schema = plan.schema /\ n.extras = plan.extras
      /\ IsList(plan.platforms)
      /\ IsList(n.platforms) /\ ToSet(n.platforms) = ToSet(plan.platforms)
      /\ IsList(plan.origins)
      /\ \A i \in 1..Len(plan.origins) : SoundOrigin(plan.origins[i])
      /\ n.origins = SortedStrings([i \in 1..Len(plan.origins) |->
                         NormalizedOrigin(plan.origins[i])])
      /\ SoundTools(plan.tools) /\ n.tools = NormalizedTools(plan.tools)
  BY PlanParts
<1>2. /\ DOMAIN n.packages = DOMAIN plan.packages
      /\ \A name \in DOMAIN plan.packages :
            /\ SoundVersion(plan.packages[name])
            /\ n.packages[name] = NormalizedVersion(plan.packages[name])
      /\ DOMAIN n.tasks = DOMAIN plan.tasks
      /\ n.tasks = [t \in DOMAIN n.tasks |-> n.tasks[t]]
      /\ \A t \in DOMAIN plan.tasks :
            /\ SoundTask(plan.tasks[t])
            /\ n.tasks[t] = NormalizedTask(plan.tasks[t])
  BY PlanParts
<1>3. IsPlan(n) /\ KeptWhole(n)
  BY PlanNormal
<1> HIDE DEF n
<1>4. /\ plan.schema \in 1..2
      /\ plan.schema < 2 => ~UsesV2Features(plan)
      /\ ValidShell(plan) /\ ValidExtras(plan.extras)
      /\ ValidTaskGraph(plan)
  BY Zenon DEF SoundPlan, ValidPlan, ValidFields
<1>5. ~UsesV2Features(plan) => ~UsesV2Features(n)
  <2>1. /\ DOMAIN n.tools = DOMAIN plan.tools
        /\ \A tool \in DOMAIN plan.tools :
              ~plan.tools[tool].many => ~n.tools[tool].many
    BY <1>1, ToolsNormal
  <2> QED
    BY <1>1, <1>2, <2>1 DEF UsesV2Features
<1>6. ValidShell(n)
  <2>1. \A i \in 1..Len(n.platforms) : ValidName(n.platforms[i])
    <3>1. \A i \in 1..Len(plan.platforms) : ValidName(plan.platforms[i])
      BY <1>4, Zenon DEF ValidShell
    <3>2. \A x \in ToSet(plan.platforms) : ValidName(x)
      BY <1>1, <3>1, ListElements
    <3> QED
      BY <1>1, <3>2, ListElements
  <2>2. \A i \in 1..Len(n.origins) : SoundOrigin(n.origins[i])
    BY <1>1, OriginsNormal
  <2> QED
    BY <2>1, <2>2, Zenon DEF ValidShell, SoundOrigin
<1>7. \A t \in DOMAIN plan.tasks :
         /\ SoundTask(n.tasks[t])
         /\ ToSet(n.tasks[t].aliases) = ToSet(plan.tasks[t].aliases)
         /\ ReferencedTasks(n.tasks[t]) = ReferencedTasks(plan.tasks[t])
         /\ \A mode : ValidTask(n.tasks[t], mode)
                         <=> ValidTask(plan.tasks[t], mode)
  BY <1>2, TaskNormal, TaskStaysValid DEF PlainPlan
<1>8. TaskGraph(n) = TaskGraph(plan)
  <2>1. [t \in DOMAIN n.tasks |-> ToSet(n.tasks[t].aliases)]
           = [t \in DOMAIN plan.tasks |-> ToSet(plan.tasks[t].aliases)]
    BY <1>2, <1>7
  <2>2. [t \in DOMAIN n.tasks |-> ReferencedTasks(n.tasks[t])]
           = [t \in DOMAIN plan.tasks |-> ReferencedTasks(plan.tasks[t])]
    BY <1>2, <1>7
  <2> QED
    BY <1>2, <2>1, <2>2, Zenon DEF TaskGraph
<1>9. ValidTaskGraph(n)
  BY <1>4, <1>8, GraphDecides, Zenon
<1>10. ASSUME NEW mode
       PROVE  ValidFields(n, mode) <=> ValidFields(plan, mode)
  <2>1. ValidTools(n.tools, mode) <=> ValidTools(plan.tools, mode)
    BY <1>1, ToolsNormal
  <2>2. \A name \in DOMAIN plan.packages :
           ValidPackage(n.packages[name], mode)
              <=> ValidPackage(plan.packages[name], mode)
    BY <1>2, VersionNormal DEF ValidPackage
  <2>3. (\A name \in DOMAIN n.packages :
            ValidName(name) /\ ValidPackage(n.packages[name], mode))
           <=> \A name \in DOMAIN plan.packages :
                  ValidName(name) /\ ValidPackage(plan.packages[name], mode)
    BY <1>2, <2>2
  <2>4. (\A t \in DOMAIN n.tasks :
            ValidName(t) /\ ValidTask(n.tasks[t], mode))
           <=> \A t \in DOMAIN plan.tasks :
                  ValidName(t) /\ ValidTask(plan.tasks[t], mode)
    BY <1>2, <1>7
  <2>5. n.schema \in 1..2 /\ (n.schema < 2 => ~UsesV2Features(n))
    BY <1>1, <1>4, <1>5
  <2>6. ValidShell(n) /\ ValidExtras(n.extras)
    BY <1>1, <1>4, <1>6
  <2> QED
    BY <1>4, <2>1, <2>3, <2>4, <2>5, <2>6, Zenon DEF ValidFields
<1>11. ValidFields(n, "authoring")
  BY <1>10, Zenon DEF SoundPlan, ValidPlan
<1> QED
  BY <1>3, <1>9, <1>10, <1>11, Zenon DEF n, SoundPlan, ValidPlan

(* Normalizing a plan again changes nothing. *)
LEMMA PlanAgain ==
  ASSUME NEW plan, SoundPlan(plan), SoundPlan(NormalizedPlan(plan))
  PROVE  NormalizedPlan(NormalizedPlan(plan)) = NormalizedPlan(plan)
<1> DEFINE n == NormalizedPlan(plan)
           m == NormalizedPlan(n)
<1>1. /\ n = [schema |-> n.schema, extras |-> n.extras,
              platforms |-> n.platforms, origins |-> n.origins,
              tools |-> n.tools, packages |-> n.packages,
              tasks |-> n.tasks]
      /\ n.platforms = SortedStrings(plan.platforms)
      /\ ToSet(n.platforms) = ToSet(plan.platforms)
      /\ IsList(plan.origins)
      /\ \A i \in 1..Len(plan.origins) : SoundOrigin(plan.origins[i])
      /\ n.origins = SortedStrings([i \in 1..Len(plan.origins) |->
                         NormalizedOrigin(plan.origins[i])])
      /\ SoundTools(plan.tools) /\ n.tools = NormalizedTools(plan.tools)
  BY PlanParts
<1>2. /\ DOMAIN n.packages = DOMAIN plan.packages
      /\ n.packages = [name \in DOMAIN n.packages |-> n.packages[name]]
      /\ \A name \in DOMAIN plan.packages :
            /\ SoundVersion(plan.packages[name])
            /\ n.packages[name] = NormalizedVersion(plan.packages[name])
      /\ DOMAIN n.tasks = DOMAIN plan.tasks
      /\ n.tasks = [t \in DOMAIN n.tasks |-> n.tasks[t]]
      /\ \A t \in DOMAIN plan.tasks :
            /\ SoundTask(plan.tasks[t])
            /\ n.tasks[t] = NormalizedTask(plan.tasks[t])
  BY PlanParts
<1>3. SoundPlan(n)
  OBVIOUS
<1> HIDE DEF n
<1>4. /\ m = [schema |-> m.schema, extras |-> m.extras,
              platforms |-> m.platforms, origins |-> m.origins,
              tools |-> m.tools, packages |-> m.packages,
              tasks |-> m.tasks]
      /\ m.schema = n.schema /\ m.extras = n.extras
      /\ m.platforms = SortedStrings(n.platforms)
      /\ IsList(n.origins)
      /\ \A i \in 1..Len(n.origins) : SoundOrigin(n.origins[i])
      /\ m.origins = SortedStrings([i \in 1..Len(n.origins) |->
                         NormalizedOrigin(n.origins[i])])
      /\ SoundTools(n.tools) /\ m.tools = NormalizedTools(n.tools)
  BY <1>3, PlanParts
<1>5. /\ DOMAIN m.packages = DOMAIN n.packages
      /\ m.packages = [name \in DOMAIN m.packages |-> m.packages[name]]
      /\ \A name \in DOMAIN n.packages :
            /\ SoundVersion(n.packages[name])
            /\ m.packages[name] = NormalizedVersion(n.packages[name])
      /\ DOMAIN m.tasks = DOMAIN n.tasks
      /\ m.tasks = [t \in DOMAIN m.tasks |-> m.tasks[t]]
      /\ \A t \in DOMAIN n.tasks :
            /\ SoundTask(n.tasks[t])
            /\ m.tasks[t] = NormalizedTask(n.tasks[t])
  BY <1>3, PlanParts
<1> HIDE DEF m
<1>6. m.platforms = n.platforms
  BY <1>1, <1>4 DEF SortedStrings
<1>7. m.origins = n.origins
  <2>1. {OriginMeaning(o) : o \in ToSet(n.origins)}
           = {OriginMeaning(o) : o \in ToSet(plan.origins)}
    BY <1>1, OriginsNormal
  <2> QED
    BY <1>1, <1>4, <2>1, OriginsTold
<1>8. m.tools = n.tools
  <2>1. ToolsMeaning(n.tools) = ToolsMeaning(plan.tools)
    BY <1>1, ToolsNormal
  <2> QED
    BY <1>1, <1>4, <2>1, ToolsTold
<1>9. m.packages = n.packages
  <2>1. \A name \in DOMAIN n.packages : m.packages[name] = n.packages[name]
    <3> TAKE name \in DOMAIN n.packages
    <3>1. /\ SoundVersion(plan.packages[name]) /\ SoundVersion(n.packages[name])
          /\ n.packages[name] = NormalizedVersion(plan.packages[name])
          /\ m.packages[name] = NormalizedVersion(n.packages[name])
      BY <1>2, <1>5
    <3>2. VersionMeaning(n.packages[name])
             = VersionMeaning(plan.packages[name])
      BY <3>1, VersionNormal
    <3> QED
      BY <3>1, <3>2, VersionTold
  <2> QED
    BY <1>2, <1>5, <2>1
<1>10. m.tasks = n.tasks
  <2>1. \A t \in DOMAIN n.tasks : m.tasks[t] = n.tasks[t]
    <3> TAKE t \in DOMAIN n.tasks
    <3>1. /\ SoundTask(plan.tasks[t])
          /\ SoundTask(n.tasks[t])
          /\ n.tasks[t] = NormalizedTask(plan.tasks[t])
          /\ m.tasks[t] = NormalizedTask(n.tasks[t])
      BY <1>2, <1>5
    <3> QED
      BY <3>1, TaskAgain
  <2> QED
    BY <1>2, <1>5, <2>1
<1>11. m = n
  BY <1>1, <1>4, <1>6, <1>7, <1>8, <1>9, <1>10
<1> QED
  BY <1>11 DEF m, n

-----------------------------------------------------------------------------
(* The order of the variants that a lock is written with. *)

(* The stable keys of variants put their positions in a strict total       *)
(* order.                                                                  *)
LEMMA KeysOrder ==
  ASSUME NEW s, IsList(s)
  PROVE  LET order == SetToSeq(ToSet(s))
         IN  /\ IsList(order) /\ Len(order) \in Nat /\ ToSet(order) = ToSet(s)
             /\ \A i, j \in 1..Len(order) : order[i] = order[j] => i = j
             /\ \A i \in 1..Len(s) :
                   StableKey(s, s[i]) \in 1..Len(order)
                   /\ order[StableKey(s, s[i])] = s[i]
             /\ \A i, j \in 1..Len(s) :
                   <<i, j>> \in ByVariant(s) <=>
                      \/ StableKey(s, s[i]) < StableKey(s, s[j])
                      \/ StableKey(s, s[i]) = StableKey(s, s[j]) /\ i < j
             /\ StrictTotalOrder(1..Len(s), ByVariant(s))
<1> DEFINE order == SetToSeq(ToSet(s))
           n == Len(s)
<1>1. /\ IsList(order) /\ ToSet(order) = ToSet(s)
      /\ \A i, j \in 1..Len(order) : order[i] = order[j] => i = j
  BY ListFinite, ListOfSet
<1>2. \A i, j \in 1..n :
         <<i, j>> \in ByVariant(s) <=>
            \/ StableKey(s, s[i]) < StableKey(s, s[j])
            \/ StableKey(s, s[i]) = StableKey(s, s[j]) /\ i < j
  BY DEF ByVariant
<1>3. \A i \in 1..n :
         /\ StableKey(s, s[i]) \in 1..Len(order)
         /\ order[StableKey(s, s[i])] = s[i]
  <2> TAKE i \in 1..n
  <2>1. s[i] \in ToSet(order)
    BY <1>1, ListElements
  <2>2. \E k \in 1..Len(order) : order[k] = s[i]
    BY <1>1, <2>1, ListElements
  <2> QED
    BY <2>2 DEF StableKey
<1>4. n \in Nat /\ Len(order) \in Nat
  BY <1>1, ListElements
<1> DEFINE K(i) == StableKey(s, s[i])
           before == ByVariant(s)
<1>5. \A i \in 1..n : K(i) \in Nat
  BY <1>3, <1>4
<1>6. \A i, j \in 1..n :
         <<i, j>> \in before <=> K(i) < K(j) \/ (K(i) = K(j) /\ i < j)
  BY <1>2
<1> HIDE DEF n, K, before
<1>7. StrictTotalOrder(1..n, before)
  <2>1. \A x \in 1..n : <<x, x>> \notin before
    BY <1>4, <1>5, <1>6
  <2>2. ASSUME NEW x \in 1..n, NEW y \in 1..n, NEW z \in 1..n,
               <<x, y>> \in before, <<y, z>> \in before
        PROVE  <<x, z>> \in before
    <3>1. K(x) \in Nat /\ K(y) \in Nat /\ K(z) \in Nat
      BY <1>5
    <3>2. x \in Nat /\ y \in Nat /\ z \in Nat
      BY <1>4
    <3>3. /\ K(x) < K(y) \/ (K(x) = K(y) /\ x < y)
          /\ K(y) < K(z) \/ (K(y) = K(z) /\ y < z)
      BY <1>6, <2>2
    <3>4. K(x) < K(z) \/ (K(x) = K(z) /\ x < z)
      BY <3>1, <3>2, <3>3
    <3> QED
      BY <1>6, <3>4
  <2>3. ASSUME NEW x \in 1..n, NEW y \in 1..n, x # y
        PROVE  <<x, y>> \in before \/ <<y, x>> \in before
    <3>1. K(x) \in Nat /\ K(y) \in Nat /\ x \in Nat /\ y \in Nat
      BY <1>4, <1>5
    <3>2. \/ K(x) < K(y) \/ K(y) < K(x)
          \/ K(x) = K(y) /\ x < y
          \/ K(y) = K(x) /\ y < x
      BY <2>3, <3>1
    <3> QED
      BY <1>6, <3>2
  <2> QED
    BY <2>1, <2>2, <2>3 DEF StrictTotalOrder
<1> QED
  BY <1>1, <1>2, <1>3, <1>4, <1>7 DEF n, before

(* Sorting variants drops none and adds none. *)
LEMMA VariantsSorted ==
  ASSUME NEW s, IsList(s)
  PROVE  LET t == SortedVariants(s)
             g == InOrderOf(1..Len(s), ByVariant(s))
         IN  /\ IsList(t) /\ Len(t) = Len(s)
             /\ g \in [1..Len(s) -> 1..Len(s)]
             /\ \A p \in 1..Len(s) : t[p] = s[g[p]]
             /\ \A p, q \in 1..Len(s) : g[p] = g[q] => p = q
             /\ ToSet(t) = ToSet(s)
<1> DEFINE n == Len(s)
           S == 1..n
           g == InOrderOf(S, ByVariant(s))
           t == SortedVariants(s)
<1>1. n \in Nat /\ IsFiniteSet(S) /\ Cardinality(S) = n
  <2>1. n \in Nat /\ IsFiniteSet(S)
    BY ListElements, ListFinite
  <2> HIDE DEF n
  <2>2. Cardinality(1..n) = n
    BY <2>1, FS_Interval
  <2> QED
    BY <2>1, <2>2
<1>2. StrictTotalOrder(S, ByVariant(s))
  BY KeysOrder
<1>3. /\ g \in [1..n -> S]
      /\ \A p, q \in 1..n : g[p] = g[q] => p = q
      /\ \A x \in S : \E p \in 1..n : g[p] = x
  BY <1>1, <1>2, InOrderOfSet
<1>4. t = [p \in 1..n |-> s[g[p]]]
  BY <1>1 DEF SortedVariants, Arranged
<1> HIDE DEF n, g, t, S
<1>5. IsList(t) /\ Len(t) = n
  BY <1>1, <1>4, ListMade
<1>6. /\ \A i \in 1..n : s[i] \in ToSet(s)
      /\ \A x \in ToSet(s) : \E i \in 1..n : s[i] = x
  BY ListElements DEF n
<1>7. /\ \A i \in 1..n : t[i] \in ToSet(t)
      /\ \A x \in ToSet(t) : \E i \in 1..n : t[i] = x
  BY <1>5, ListElements
<1>8. S = 1..n
  BY DEF S
<1>9. \A x : x \in ToSet(t) <=> x \in ToSet(s)
  <2>1. \A x \in ToSet(t) : x \in ToSet(s)
    BY <1>3, <1>4, <1>6, <1>7, <1>8
  <2>2. ASSUME NEW x \in ToSet(s)
        PROVE  x \in ToSet(t)
    <3>1. PICK i \in 1..n : s[i] = x
      BY <1>6
    <3>2. PICK p \in 1..n : g[p] = i
      BY <1>3, <1>8
    <3>3. t[p] = x
      BY <1>4, <3>1, <3>2
    <3> QED
      BY <1>7, <3>3
  <2> QED
    BY <2>1, <2>2
<1>10. ToSet(t) = ToSet(s)
  BY <1>9
<1> QED
  BY <1>3, <1>4, <1>5, <1>8, <1>10 DEF n, g, t, S

(* Variants that differ are sorted the one way there is. *)
LEMMA DifferentSorted ==
  ASSUME NEW s, IsList(s), \A i, j \in 1..Len(s) : s[i] = s[j] => i = j
  PROVE  SortedVariants(s) = SetToSeq(ToSet(s))
<1> DEFINE order == SetToSeq(ToSet(s))
           m == Len(order)
           S == 1..Len(s)
           before == ByVariant(s)
           K(i) == StableKey(s, s[i])
           h == [p \in 1..m |-> CHOOSE i \in S : s[i] = order[p]]
<1>1. /\ IsList(order) /\ m \in Nat /\ ToSet(order) = ToSet(s)
      /\ \A i, j \in 1..m : order[i] = order[j] => i = j
      /\ \A i \in S : K(i) \in 1..m /\ order[K(i)] = s[i]
      /\ \A i, j \in S : <<i, j>> \in before <=>
            K(i) < K(j) \/ (K(i) = K(j) /\ i < j)
      /\ StrictTotalOrder(S, before)
  BY KeysOrder
<1>2. IsFiniteSet(S)
  BY ListFinite
<1>3. \A p \in 1..m : h[p] \in S /\ s[h[p]] = order[p]
  <2> TAKE p \in 1..m
  <2>1. order[p] \in ToSet(s)
    BY <1>1, ListElements
  <2>2. \E i \in S : s[i] = order[p]
    BY <2>1, ListElements
  <2> QED
    BY <2>2
<1>4. h = [p \in 1..m |-> h[p]]
  OBVIOUS
<1> DEFINE D == \A i, j \in S : s[i] = s[j] => i = j
<1>0. D
  OBVIOUS
<1>5. SortedVariants(s)
         = [p \in 1..Cardinality(S) |-> s[InOrderOf(S, before)[p]]]
  BY DEF SortedVariants, Arranged
<1>6. order = [p \in 1..m |-> order[p]]
  BY <1>1, ListElements
<1> HIDE DEF order, m, S, before, K, h
<1>7. \A p \in 1..m : K(h[p]) = p
  BY <1>1, <1>3
<1>8. \A i \in S : \E p \in 1..m : h[p] = i
  <2> TAKE i \in S
  <2>1. K(i) \in 1..m /\ order[K(i)] = s[i]
    BY <1>1
  <2>2. h[K(i)] \in S /\ s[h[K(i)]] = s[i]
    BY <1>3, <2>1
  <2>3. h[K(i)] = i
    BY <1>0, <2>2
  <2> QED
    BY <2>1, <2>3
<1>9. \A p, q \in 1..m : p < q => <<h[p], h[q]>> \in before
  BY <1>1, <1>3, <1>7
<1>10. Arranges(h, m, S, before)
  BY <1>3, <1>4, <1>8, <1>9 DEF Arranges
<1>11. m = Cardinality(S) /\ h = InOrderOf(S, before)
  BY <1>1, <1>2, <1>10, OnlyArrangement
<1>12. SortedVariants(s) = [p \in 1..m |-> s[h[p]]]
  BY <1>5, <1>11
<1> QED
  BY <1>3, <1>6, <1>12 DEF order

-----------------------------------------------------------------------------
(* Executables and the commands they add. *)

IsExecutables(install) ==
    IsList(install) /\ \A i \in 1..Len(install) : IsExecutable(install[i])

(* An executable in normal form has the same name, file and aliases. *)
LEMMA ExecutableNormal ==
  ASSUME NEW e, IsExecutable(e)
  PROVE  LET n == NormalizedExecutable(e)
         IN  /\ IsExecutable(n)
             /\ n.name = e.name
             /\ n.path = PortablePath(e.path) /\ n.path.file = e.path.file
             /\ n.aliases = SetToSeq(ToSet(e.aliases))
             /\ ToSet(n.aliases) = ToSet(e.aliases)
             /\ \A i, j \in 1..Len(n.aliases) :
                   n.aliases[i] = n.aliases[j] => i = j
<1> DEFINE n == NormalizedExecutable(e)
           aliases == SetToSeq(ToSet(e.aliases))
<1>1. IsLockPath(e.path) /\ IsList(e.aliases)
  BY DEF IsExecutable
<1>2. /\ IsList(aliases) /\ ToSet(aliases) = ToSet(e.aliases)
      /\ \A i, j \in 1..Len(aliases) : aliases[i] = aliases[j] => i = j
  BY <1>1, ListFinite, ListOfSet
<1> HIDE DEF aliases
<1>3. n = [name |-> e.name, path |-> PortablePath(e.path),
           aliases |-> aliases]
  BY DEF NormalizedExecutable, aliases
<1> HIDE DEF n
<1>4. /\ n.name = e.name /\ n.path = PortablePath(e.path)
      /\ n.aliases = aliases
      /\ n = [name |-> n.name, path |-> n.path, aliases |-> n.aliases]
  BY <1>3
<1>5. /\ PortablePath(e.path).file = e.path.file
      /\ IsLockPath(PortablePath(e.path))
  BY DEF PortablePath, IsLockPath
<1> QED
  BY <1>2, <1>4, <1>5 DEF IsExecutable, n, aliases

(* The executables of an install in normal form. *)
LEMMA InstallListed ==
  ASSUME NEW s, IsExecutables(s)
  PROVE  LET n == NormalizedInstall(s)
         IN  /\ IsExecutables(n)
             /\ \A i, j \in 1..Len(n) : n[i] = n[j] => i = j
             /\ \A x : x \in ToSet(n)
                   <=> \E e \in ToSet(s) : NormalizedExecutable(e) = x
             /\ \A e \in ToSet(s) : IsExecutable(e)
<1> DEFINE S == {NormalizedExecutable(e) : e \in ToSet(s)}
           n == NormalizedInstall(s)
           F == [e \in ToSet(s) |-> NormalizedExecutable(e)]
           t == Told(F, s)
<1>1. /\ IsList(s) /\ \A i \in 1..Len(s) : IsExecutable(s[i])
  BY DEF IsExecutables
<1>2. \A e \in ToSet(s) : IsExecutable(e)
  BY <1>1, ListElements
<1>3. \A x : x \in S <=> \E e \in ToSet(s) : NormalizedExecutable(e) = x
  OBVIOUS
<1>4. \A e \in ToSet(s) : F[e] = NormalizedExecutable(e)
  OBVIOUS
<1>5. n = SetToSeq(S)
  BY Zenon DEF NormalizedInstall
<1> HIDE DEF F, t, S, n
<1>6. IsList(t) /\ \A x : x \in ToSet(t) <=> \E e \in ToSet(s) : F[e] = x
  BY <1>1, ToldIsList, ToldValues DEF t
<1>7. \A x : x \in S <=> x \in ToSet(t)
  BY <1>3, <1>4, <1>6
<1>8. S = ToSet(t)
  BY <1>7
<1>9. IsFiniteSet(S)
  BY <1>6, <1>8, ListFinite
<1>10. /\ IsList(n) /\ ToSet(n) = S
       /\ \A i, j \in 1..Len(n) : n[i] = n[j] => i = j
  BY <1>5, <1>9, ListOfSet
<1>11. \A x \in ToSet(n) : IsExecutable(x)
  BY <1>2, <1>3, <1>10, ExecutableNormal
<1>12. \A i \in 1..Len(n) : IsExecutable(n[i])
  BY <1>10, <1>11, ListElements
<1> QED
  BY <1>2, <1>3, <1>10, <1>12 DEF IsExecutables, n

(* An install adds the same commands in normal form. *)
LEMMA CommandsStay ==
  ASSUME NEW s, IsExecutables(s), NEW p \in Commands(NormalizedInstall(s))
  PROVE  LET n == NormalizedInstall(s)
         IN  \E q \in Commands(s) :
                /\ CommandAt(s, q) = CommandAt(n, p)
                /\ n[p[1]] = NormalizedExecutable(s[q[1]])
                /\ q[2] = 0 <=> p[2] = 0
<1> DEFINE n == NormalizedInstall(s)
<1>1. /\ IsExecutables(n)
      /\ \A x : x \in ToSet(n)
            <=> \E e \in ToSet(s) : NormalizedExecutable(e) = x
      /\ \A e \in ToSet(s) : IsExecutable(e)
  BY InstallListed
<1>2. PICK i \in 1..Len(n) : \E k \in 0..Len(n[i].aliases) : p = <<i, k>>
  BY DEF Commands
<1>3. PICK k \in 0..Len(n[i].aliases) : p = <<i, k>>
  BY <1>2
<1> HIDE DEF n
<1>4. IsList(n) /\ IsList(s)
  BY <1>1 DEF IsExecutables
<1>5. n[i] \in ToSet(n)
  BY <1>4, ListElements
<1>6. PICK e \in ToSet(s) : NormalizedExecutable(e) = n[i]
  BY <1>1, <1>5
<1>7. PICK j \in 1..Len(s) : s[j] = e
  BY <1>4, ListElements
<1>8. /\ IsExecutable(e) /\ n[i].name = e.name
      /\ ToSet(n[i].aliases) = ToSet(e.aliases)
      /\ IsExecutable(n[i])
  BY <1>1, <1>6, ExecutableNormal
<1>9. IsList(e.aliases) /\ IsList(n[i].aliases)
  BY <1>8 DEF IsExecutable
<1>10. Len(e.aliases) \in Nat /\ Len(n[i].aliases) \in Nat
  BY <1>9, ListElements
<1>11. \E m \in 0..Len(e.aliases) :
          /\ CommandAt(s, <<j, m>>) = CommandAt(n, p)
          /\ m = 0 <=> k = 0
  <2>1. CASE k = 0
    <3>1. CommandAt(n, p) = n[i].name /\ CommandAt(s, <<j, 0>>) = s[j].name
      BY <1>3, <2>1 DEF CommandAt
    <3> QED
      BY <1>7, <1>8, <1>10, <2>1, <3>1
  <2>2. CASE k # 0
    <3>1. k \in 1..Len(n[i].aliases)
      BY <1>10, <2>2
    <3>2. n[i].aliases[k] \in ToSet(e.aliases)
      BY <1>8, <1>9, <3>1, ListElements
    <3>3. PICK m \in 1..Len(e.aliases) : e.aliases[m] = n[i].aliases[k]
      BY <1>9, <3>2, ListElements
    <3>4. m # 0 /\ m \in 0..Len(e.aliases)
      BY <1>10
    <3>5. CommandAt(n, p) = n[i].aliases[k]
      BY <1>3, <2>2 DEF CommandAt
    <3>6. CommandAt(s, <<j, m>>) = e.aliases[m]
      BY <1>7, <3>4 DEF CommandAt
    <3> QED
      BY <2>2, <3>3, <3>4, <3>5, <3>6
  <2> QED
    BY <2>1, <2>2
<1>12. PICK m \in 0..Len(e.aliases) :
          CommandAt(s, <<j, m>>) = CommandAt(n, p) /\ (m = 0 <=> k = 0)
  BY <1>11
<1>13. <<j, m>> \in Commands(s)
  BY <1>7 DEF Commands
<1>14. /\ <<j, m>>[1] = j /\ <<j, m>>[2] = m /\ p[1] = i /\ p[2] = k
  BY <1>3
<1>15. n[p[1]] = NormalizedExecutable(s[<<j, m>>[1]])
  BY <1>6, <1>7, <1>14
<1> QED
  BY <1>12, <1>13, <1>14, <1>15 DEF n

(* Normalizing an install makes no commands collide. *)
LEMMA InstallStaysValid ==
  ASSUME NEW s, IsExecutables(s), ValidInstall(s)
  PROVE  ValidInstall(NormalizedInstall(s))
<1> DEFINE n == NormalizedInstall(s)
<1>1. /\ IsExecutables(n)
      /\ \A i, j \in 1..Len(n) : n[i] = n[j] => i = j
      /\ \A x : x \in ToSet(n)
            <=> \E e \in ToSet(s) : NormalizedExecutable(e) = x
      /\ \A e \in ToSet(s) : IsExecutable(e)
  BY InstallListed
<1>2. \A p \in Commands(n) :
         \E q \in Commands(s) :
            /\ CommandAt(s, q) = CommandAt(n, p)
            /\ n[p[1]] = NormalizedExecutable(s[q[1]])
            /\ q[2] = 0 <=> p[2] = 0
  BY CommandsStay
<1> HIDE DEF n
<1>3. ASSUME NEW p \in Commands(n), NEW o \in Commands(n),
             CommandAt(n, p).key = CommandAt(n, o).key
      PROVE  p = o
  <2>1. PICK q \in Commands(s) :
           /\ CommandAt(s, q) = CommandAt(n, p)
           /\ n[p[1]] = NormalizedExecutable(s[q[1]])
           /\ q[2] = 0 <=> p[2] = 0
    BY <1>2
  <2>2. PICK r \in Commands(s) :
           /\ CommandAt(s, r) = CommandAt(n, o)
           /\ n[o[1]] = NormalizedExecutable(s[r[1]])
           /\ r[2] = 0 <=> o[2] = 0
    BY <1>2
  <2>3. q = r
    BY <1>3, <2>1, <2>2 DEF ValidInstall
  <2>4. PICK i \in 1..Len(n) : \E k \in 0..Len(n[i].aliases) : p = <<i, k>>
    BY DEF Commands
  <2>5. PICK k \in 0..Len(n[i].aliases) : p = <<i, k>>
    BY <2>4
  <2>6. PICK j \in 1..Len(n) : \E m \in 0..Len(n[j].aliases) : o = <<j, m>>
    BY DEF Commands
  <2>7. PICK m \in 0..Len(n[j].aliases) : o = <<j, m>>
    BY <2>6
  <2>8. i = j
    BY <1>1, <2>1, <2>2, <2>3, <2>5, <2>7
  <2>9. k = 0 <=> m = 0
    BY <2>1, <2>2, <2>3, <2>5, <2>7
  <2>10. k = m
    <3>1. CASE k = 0
      BY <2>9, <3>1
    <3>2. CASE k # 0
      <4>1. IsList(n) /\ n[i] \in ToSet(n)
        BY <1>1, ListElements DEF IsExecutables
      <4>2. PICK e \in ToSet(s) : NormalizedExecutable(e) = n[i]
        BY <1>1, <4>1
      <4>3. /\ IsExecutable(n[i])
            /\ \A a, b \in 1..Len(n[i].aliases) :
                  n[i].aliases[a] = n[i].aliases[b] => a = b
        BY <1>1, <4>2, ExecutableNormal
      <4>4. Len(n[i].aliases) \in Nat
        BY <4>3, ListElements DEF IsExecutable
      <4>5. k \in 1..Len(n[i].aliases) /\ m \in 1..Len(n[i].aliases)
        BY <2>8, <2>9, <3>2, <4>4
      <4>6. CommandAt(n, p) = CommandAt(n, o)
        BY <2>1, <2>2, <2>3
      <4>7. CommandAt(n, p) = n[i].aliases[k]
        BY <2>5, <3>2 DEF CommandAt
      <4>8. CommandAt(n, o) = n[i].aliases[m]
        BY <2>7, <2>8, <2>9, <3>2 DEF CommandAt
      <4> QED
        BY <4>3, <4>5, <4>6, <4>7, <4>8
    <3> QED
      BY <3>1, <3>2
  <2> QED
    BY <2>5, <2>7, <2>8, <2>10
<1> QED
  BY <1>3 DEF ValidInstall, n

-----------------------------------------------------------------------------
(* Variants of a tool. *)

(* A digest in small letters is a digest of the same. *)
LEMMA LowerIsDigest ==
  ASSUME NEW d, IsDigest(d)
  PROVE  /\ IsDigest(Lower(d)) /\ Lower(d) # NoDigest
         /\ Lower(d).of = d.of /\ Lower(d).whole = d.whole
         /\ Lower(d).upper = FALSE
BY DEF IsDigest, Lower, NoDigest

(* A locked source in normal form has the same kind, revision and file. *)
LEMMA SourceLocked ==
  ASSUME NEW x, IsLockedSource(x)
  PROVE  LET n == NormalizedSource(x)
         IN  /\ IsLockedSource(n)
             /\ n.kind = x.kind /\ n.revision = x.revision
             /\ n.immutable = x.immutable /\ n.portable = x.portable
             /\ n.locator = (IF x.kind = "path" THEN PortablePath(x.locator)
                             ELSE x.locator)
             /\ n.locator.file = x.locator.file
             /\ n.tree = NoDigest <=> x.tree = NoDigest
             /\ n.tree # NoDigest => n.tree.whole = x.tree.whole
             /\ NormalizedSource(n).locator = n.locator
<1> DEFINE n == NormalizedSource(x)
           tree == IF x.tree = NoDigest THEN NoDigest ELSE Lower(x.tree)
           locator == IF x.kind = "path" THEN PortablePath(x.locator)
                      ELSE x.locator
<1>1. IsLockPath(x.locator) /\ (x.tree = NoDigest \/ IsDigest(x.tree))
  BY DEF IsLockedSource
<1>2. /\ tree = NoDigest \/ IsDigest(tree)
      /\ tree = NoDigest <=> x.tree = NoDigest
      /\ tree # NoDigest => tree.whole = x.tree.whole
  BY <1>1, LowerIsDigest
<1>3. /\ IsLockPath(locator) /\ locator.file = x.locator.file
      /\ x.kind = "path" => PortablePath(locator) = locator
      /\ locator = (IF x.kind = "path" THEN PortablePath(x.locator)
                    ELSE x.locator)
  BY <1>1 DEF PortablePath, IsLockPath
<1> HIDE DEF tree, locator
<1>4. n = [kind |-> x.kind, revision |-> x.revision,
           immutable |-> x.immutable, portable |-> x.portable,
           tree |-> tree, locator |-> locator]
  BY DEF NormalizedSource, tree, locator
<1> HIDE DEF n
<1>5. /\ n.kind = x.kind /\ n.revision = x.revision
      /\ n.immutable = x.immutable /\ n.portable = x.portable
      /\ n.tree = tree /\ n.locator = locator
      /\ n = [kind |-> n.kind, locator |-> n.locator,
              revision |-> n.revision, immutable |-> n.immutable,
              tree |-> n.tree, portable |-> n.portable]
  BY <1>4
<1>6. NormalizedSource(n).locator
         = (IF n.kind = "path" THEN PortablePath(n.locator) ELSE n.locator)
  BY DEF NormalizedSource
<1>7. IsLockedSource(n)
  BY <1>2, <1>3, <1>5 DEF IsLockedSource
<1>8. /\ n.tree = NoDigest <=> x.tree = NoDigest
      /\ n.tree # NoDigest => n.tree.whole = x.tree.whole
      /\ n.locator.file = x.locator.file
      /\ NormalizedSource(n).locator = n.locator
  BY <1>2, <1>3, <1>5, <1>6
<1> QED
  BY <1>3, <1>5, <1>7, <1>8 DEF n

(* A locked artifact in normal form has the same content. *)
LEMMA ArtifactLocked ==
  ASSUME NEW x, IsArtifact(x)
  PROVE  LET n == NormalizedArtifact(x)
         IN  /\ IsArtifact(n) /\ n.format = x.format
             /\ n.sha256.of = x.sha256.of /\ n.sha256.whole = x.sha256.whole
<1> DEFINE n == NormalizedArtifact(x)
           mirrors == SetToSeq(ToSet(x.mirrors))
<1>1. IsDigest(x.sha256) /\ IsList(x.mirrors)
  BY DEF IsArtifact
<1>2. IsList(mirrors)
  BY <1>1, ListFinite, ListOfSet
<1>3. IsDigest(Lower(x.sha256)) /\ Lower(x.sha256).of = x.sha256.of
      /\ Lower(x.sha256).whole = x.sha256.whole
  BY <1>1, LowerIsDigest
<1> HIDE DEF mirrors
<1>4. n = [sha256 |-> Lower(x.sha256), format |-> x.format,
           mirrors |-> mirrors]
  BY DEF NormalizedArtifact, mirrors
<1> HIDE DEF n
<1>5. /\ n.sha256 = Lower(x.sha256) /\ n.format = x.format
      /\ n.mirrors = mirrors
      /\ n = [sha256 |-> n.sha256, format |-> n.format,
              mirrors |-> n.mirrors]
  BY <1>4
<1>6. IsArtifact(n)
  BY <1>2, <1>3, <1>5 DEF IsArtifact
<1> QED
  BY <1>3, <1>5, <1>6 DEF n

(* A variant in normal form is the same for an installer, and as valid. *)
LEMMA VariantNormal ==
  ASSUME NEW v, IsVariant(v)
  PROVE  LET n == NormalizedVariant(v)
         IN  /\ IsVariant(n)
             /\ n.resolved = v.resolved /\ n.target = v.target
             /\ n.source = NormalizedSource(v.source)
             /\ \A tool : Pin(tool, n) = Pin(tool, v)
             /\ ValidVariant(v, "local") => ValidVariant(n, "local")
             /\ Identity(NormalizedVariant(n)) = Identity(n)
<1> DEFINE n == NormalizedVariant(v)
<1>1. /\ IsLockedSource(v.source) /\ IsArtifact(v.artifact)
      /\ IsExecutables(v.install)
  BY DEF IsVariant, IsExecutables
<1> DEFINE source == NormalizedSource(v.source)
           artifact == NormalizedArtifact(v.artifact)
           install == NormalizedInstall(v.install)
<1>2. /\ IsLockedSource(source)
      /\ source.kind = v.source.kind /\ source.revision = v.source.revision
      /\ source.immutable = v.source.immutable
      /\ source.portable = v.source.portable
      /\ source.locator.file = v.source.locator.file
      /\ source.tree = NoDigest <=> v.source.tree = NoDigest
      /\ source.tree # NoDigest => source.tree.whole = v.source.tree.whole
      /\ NormalizedSource(source).locator = source.locator
  BY <1>1, SourceLocked
<1>3. /\ IsArtifact(artifact) /\ artifact.format = v.artifact.format
      /\ artifact.sha256.of = v.artifact.sha256.of
      /\ artifact.sha256.whole = v.artifact.sha256.whole
  BY <1>1, ArtifactLocked
<1>4. /\ IsExecutables(install)
      /\ ValidInstall(v.install) => ValidInstall(install)
  BY <1>1, InstallListed, InstallStaysValid
<1> HIDE DEF source, artifact, install
<1>5. n = [resolved |-> v.resolved, target |-> v.target, sound |-> v.sound,
           source |-> source, artifact |-> artifact, install |-> install]
  BY DEF NormalizedVariant, source, artifact, install
<1> HIDE DEF n
<1>6. /\ n.resolved = v.resolved /\ n.target = v.target
      /\ n.sound = v.sound /\ n.source = source
      /\ n.artifact = artifact /\ n.install = install
      /\ n = [resolved |-> n.resolved, target |-> n.target,
              sound |-> n.sound, source |-> n.source,
              artifact |-> n.artifact, install |-> n.install]
  BY <1>5
<1>7. IsVariant(n)
  BY <1>2, <1>3, <1>4, <1>6 DEF IsVariant, IsExecutables
<1>8. \A tool : Pin(tool, n) = Pin(tool, v)
  BY <1>3, <1>6 DEF Pin
<1>9. ASSUME ValidVariant(v, "local")
      PROVE  ValidVariant(n, "local")
  <2>1. /\ v.sound /\ v.resolved \notin Floating
        /\ ValidSha256(v.artifact.sha256)
        /\ ValidSource(v.source, v.artifact, "local")
        /\ ValidInstall(v.install)
    BY <1>9 DEF ValidVariant
  <2>2. ValidSha256(artifact.sha256)
    BY <1>3, <2>1 DEF ValidSha256
  <2>3. Exact(v.source, v.artifact)
    BY <2>1 DEF ValidSource
  <2>4. Exact(source, artifact)
    BY <1>2, <1>3, <2>3 DEF Exact, ValidSha256
  <2>5. ValidSource(source, artifact, "local")
    BY <1>2, <1>3, <2>1, <2>4 DEF ValidSource, ValidSha256
  <2> QED
    BY <1>4, <1>6, <2>1, <2>2, <2>5 DEF ValidVariant
<1>10. Identity(NormalizedVariant(n)) = Identity(n)
  <2>1. NormalizedVariant(n).source = NormalizedSource(n.source)
    BY DEF NormalizedVariant
  <2>2. /\ NormalizedVariant(n).resolved = n.resolved
        /\ NormalizedVariant(n).target = n.target
    BY DEF NormalizedVariant
  <2>3. NormalizedVariant(n).source.locator = n.source.locator
    BY <1>2, <1>6, <2>1
  <2> QED
    BY <2>2, <2>3, Zenon DEF Identity
<1> QED
  BY <1>6, <1>7, <1>8, <1>9, <1>10 DEF n, source

(* Variants that say the same have one normal form. *)
LEMMA VariantTold ==
  ASSUME NEW a, NEW b, IsVariant(a), IsVariant(b),
         ValidVariant(a, "local"), ValidVariant(b, "local"),
         VariantMeaning(a) = VariantMeaning(b)
  PROVE  NormalizedVariant(a) = NormalizedVariant(b)
<1> DEFINE M(e) == [name |-> e.name, file |-> e.path.file,
                    aliases |-> ToSet(e.aliases)]
<1>1. /\ a.resolved = b.resolved /\ a.target = b.target /\ a.sound = b.sound
      /\ LockedMeaning(a.source) = LockedMeaning(b.source)
      /\ a.artifact.sha256.of = b.artifact.sha256.of
      /\ a.artifact.format = b.artifact.format
      /\ ToSet(a.artifact.mirrors) = ToSet(b.artifact.mirrors)
      /\ {M(e) : e \in ToSet(a.install)} = {M(e) : e \in ToSet(b.install)}
  <2>1. ASSUME NEW v
        PROVE  /\ VariantMeaning(v).resolved = v.resolved
               /\ VariantMeaning(v).target = v.target
               /\ VariantMeaning(v).sound = v.sound
               /\ VariantMeaning(v).source = LockedMeaning(v.source)
               /\ VariantMeaning(v).artifact.of = v.artifact.sha256.of
               /\ VariantMeaning(v).artifact.format = v.artifact.format
               /\ VariantMeaning(v).artifact.mirrors
                     = ToSet(v.artifact.mirrors)
               /\ VariantMeaning(v).install
                     = {M(e) : e \in ToSet(v.install)}
    BY DEF VariantMeaning
  <2> HIDE DEF M
  <2> QED
    BY <2>1, ZenonT(30)
<1>2. /\ IsLockedSource(a.source) /\ IsLockedSource(b.source)
      /\ IsArtifact(a.artifact) /\ IsArtifact(b.artifact)
      /\ IsExecutables(a.install) /\ IsExecutables(b.install)
  BY DEF IsVariant, IsExecutables
<1>3. /\ ValidSha256(a.artifact.sha256) /\ ValidSha256(b.artifact.sha256)
      /\ a.source.tree # NoDigest => ValidSha256(a.source.tree)
      /\ b.source.tree # NoDigest => ValidSha256(b.source.tree)
  BY DEF ValidVariant, ValidSource
<1>4. ASSUME NEW d, NEW e, IsDigest(d), IsDigest(e), ValidSha256(d),
             ValidSha256(e), d.of = e.of
      PROVE  Lower(d) = Lower(e)
  <2>1. d.whole = TRUE /\ e.whole = TRUE
    BY <1>4 DEF IsDigest, ValidSha256
  <2> QED
    BY <1>4, <2>1 DEF Lower
<1>5. NormalizedArtifact(a.artifact) = NormalizedArtifact(b.artifact)
  <2>1. Lower(a.artifact.sha256) = Lower(b.artifact.sha256)
    BY <1>1, <1>2, <1>3, <1>4 DEF IsArtifact
  <2> QED
    BY <1>1, <2>1, Zenon DEF NormalizedArtifact
<1>6. NormalizedSource(a.source) = NormalizedSource(b.source)
  <2>1. ASSUME NEW s
        PROVE  /\ LockedMeaning(s).kind = s.kind
               /\ LockedMeaning(s).revision = s.revision
               /\ LockedMeaning(s).immutable = s.immutable
               /\ LockedMeaning(s).portable = s.portable
               /\ LockedMeaning(s).has_tree = (s.tree # NoDigest)
               /\ LockedMeaning(s).tree
                     = (IF s.tree = NoDigest THEN s.tree ELSE s.tree.of)
               /\ LockedMeaning(s).locator
                     = (IF s.kind = "path" THEN s.locator.file
                        ELSE s.locator)
    BY DEF LockedMeaning
  <2>2. /\ a.source.kind = b.source.kind
        /\ a.source.revision = b.source.revision
        /\ a.source.immutable = b.source.immutable
        /\ a.source.portable = b.source.portable
        /\ (a.source.tree # NoDigest) = (b.source.tree # NoDigest)
        /\ (IF a.source.tree = NoDigest THEN a.source.tree
            ELSE a.source.tree.of)
              = (IF b.source.tree = NoDigest THEN b.source.tree
                 ELSE b.source.tree.of)
        /\ (IF a.source.kind = "path" THEN a.source.locator.file
            ELSE a.source.locator)
              = (IF b.source.kind = "path" THEN b.source.locator.file
                 ELSE b.source.locator)
    BY <1>1, <2>1
  <2>3. (IF a.source.tree = NoDigest THEN NoDigest ELSE Lower(a.source.tree))
           = (IF b.source.tree = NoDigest THEN NoDigest
              ELSE Lower(b.source.tree))
    <3>1. CASE a.source.tree = NoDigest
      BY <2>2, <3>1
    <3>2. CASE a.source.tree # NoDigest
      <4>1. b.source.tree # NoDigest
        BY <2>2, <3>2
      <4>2. a.source.tree.of = b.source.tree.of
        BY <2>2, <3>2, <4>1
      <4>3. IsDigest(a.source.tree) /\ IsDigest(b.source.tree)
        BY <1>2, <3>2, <4>1 DEF IsLockedSource
      <4>4. Lower(a.source.tree) = Lower(b.source.tree)
        BY <1>3, <1>4, <3>2, <4>1, <4>2, <4>3
      <4> QED
        BY <3>2, <4>1, <4>4
    <3> QED
      BY <3>1, <3>2
  <2>4. (IF a.source.kind = "path" THEN PortablePath(a.source.locator)
         ELSE a.source.locator)
           = (IF b.source.kind = "path" THEN PortablePath(b.source.locator)
              ELSE b.source.locator)
    BY <2>2 DEF PortablePath
  <2> QED
    BY <2>2, <2>3, <2>4, Zenon DEF NormalizedSource
<1>7. NormalizedInstall(a.install) = NormalizedInstall(b.install)
  <2>1. ASSUME NEW d, NEW e, M(d) = M(e)
        PROVE  NormalizedExecutable(d) = NormalizedExecutable(e)
    <3>1. /\ d.name = e.name /\ d.path.file = e.path.file
          /\ ToSet(d.aliases) = ToSet(e.aliases)
      BY <2>1
    <3>2. PortablePath(d.path) = PortablePath(e.path)
      BY <3>1 DEF PortablePath
    <3> QED
      BY <3>1, <3>2, Zenon DEF NormalizedExecutable
  <2> HIDE DEF M
  <2>2. \A d \in ToSet(a.install) :
           \E e \in ToSet(b.install) :
              NormalizedExecutable(d) = NormalizedExecutable(e)
    <3> TAKE d \in ToSet(a.install)
    <3>1. PICK e \in ToSet(b.install) : M(d) = M(e)
      BY <1>1
    <3> QED
      BY <2>1, <3>1
  <2>3. \A e \in ToSet(b.install) :
           \E d \in ToSet(a.install) :
              NormalizedExecutable(d) = NormalizedExecutable(e)
    <3> TAKE e \in ToSet(b.install)
    <3>1. PICK d \in ToSet(a.install) : M(d) = M(e)
      BY <1>1
    <3> QED
      BY <2>1, <3>1
  <2>4. {NormalizedExecutable(e) : e \in ToSet(a.install)}
           = {NormalizedExecutable(e) : e \in ToSet(b.install)}
    BY <2>2, <2>3
  <2> QED
    BY <2>4, Zenon DEF NormalizedInstall
<1> QED
  BY <1>1, <1>5, <1>6, <1>7, Zenon DEF NormalizedVariant

-----------------------------------------------------------------------------
(* Locks. *)

IsVariants(s) == IsList(s) /\ \A i \in 1..Len(s) : IsVariant(s[i])

(* What a lock holds. *)
IsLock(lock) ==
    /\ lock = [plan |-> lock.plan, tools |-> lock.tools]
    /\ IsDigest(lock.plan) /\ IsResolution(lock.tools)

(* The variants of a tool as the lock that is written lists them. *)
Rewritten(s) == [i \in 1..Len(s) |-> NormalizedVariant(s[i])]

(* The variants of a tool before they are sorted. *)
LEMMA RewrittenList ==
  ASSUME NEW s, IsVariants(s)
  PROVE  /\ IsList(s) /\ IsVariants(Rewritten(s))
         /\ Len(Rewritten(s)) = Len(s)
         /\ \A i \in 1..Len(s) : Rewritten(s)[i] = NormalizedVariant(s[i])
         /\ \A v \in ToSet(s) : IsVariant(v)
         /\ \A x : x \in ToSet(Rewritten(s))
               <=> \E v \in ToSet(s) : NormalizedVariant(v) = x
<1> DEFINE t == Rewritten(s)
<1>1. IsList(s) /\ \A i \in 1..Len(s) : IsVariant(s[i])
  BY DEF IsVariants
<1>2. /\ Len(s) \in Nat
      /\ \A i \in 1..Len(s) : s[i] \in ToSet(s)
      /\ \A v \in ToSet(s) : \E i \in 1..Len(s) : s[i] = v
  BY <1>1, ListElements
<1>3. /\ t = [i \in 1..Len(s) |-> t[i]]
      /\ \A i \in 1..Len(s) : t[i] = NormalizedVariant(s[i])
  BY DEF Rewritten
<1> HIDE DEF t
<1>4. IsList(t) /\ Len(t) = Len(s)
  BY <1>2, <1>3, ListMade
<1>5. \A i \in 1..Len(t) : IsVariant(t[i])
  BY <1>1, <1>3, <1>4, VariantNormal
<1>6. /\ \A i \in 1..Len(t) : t[i] \in ToSet(t)
      /\ \A v \in ToSet(t) : \E i \in 1..Len(t) : t[i] = v
  BY <1>4, ListElements
<1>7. \A x : x \in ToSet(t) <=> \E v \in ToSet(s) : NormalizedVariant(v) = x
  BY <1>2, <1>3, <1>4, <1>6
<1>8. \A v \in ToSet(s) : IsVariant(v)
  BY <1>1, <1>2
<1> QED
  BY <1>1, <1>3, <1>4, <1>5, <1>7, <1>8 DEF IsVariants, t

(* The parts of a lock in normal form. *)
LEMMA LockFields ==
  ASSUME NEW lock
  PROVE  LET n == NormalizedLock(lock)
         IN  /\ n = [plan |-> n.plan, tools |-> n.tools]
             /\ n.plan = Lower(lock.plan)
             /\ DOMAIN n.tools = DOMAIN lock.tools
             /\ n.tools = [tool \in DOMAIN n.tools |-> n.tools[tool]]
             /\ \A tool \in DOMAIN lock.tools :
                   n.tools[tool] = SortedVariants(Rewritten(lock.tools[tool]))
<1> DEFINE n == NormalizedLock(lock)
           tools == [tool \in DOMAIN lock.tools |->
                        SortedVariants(Rewritten(lock.tools[tool]))]
<1>1. n = [plan |-> Lower(lock.plan), tools |-> tools]
  BY DEF NormalizedLock, Rewritten
<1>2. /\ DOMAIN tools = DOMAIN lock.tools
      /\ tools = [tool \in DOMAIN tools |-> tools[tool]]
      /\ \A tool \in DOMAIN lock.tools :
            tools[tool] = SortedVariants(Rewritten(lock.tools[tool]))
  OBVIOUS
<1> HIDE DEF n, tools
<1>3. n.plan = Lower(lock.plan) /\ n.tools = tools
  BY <1>1
<1> QED
  BY <1>1, <1>2, <1>3 DEF n

(* A pin comes from a variant of a tool. *)
LEMMA PinOf ==
  ASSUME NEW tools
  PROVE  \A x : x \in Pins(tools) <=>
            \E tool \in DOMAIN tools :
               \E v \in ToSet(tools[tool]) : x = Pin(tool, v)
BY DEF Pins

(* A lock in normal form pins the same. *)
LEMMA LockNormal ==
  ASSUME NEW lock, IsLock(lock)
  PROVE  LET n == NormalizedLock(lock)
         IN  /\ IsLock(n) /\ n.plan = Lower(lock.plan)
             /\ Pins(n.tools) = Pins(lock.tools)
             /\ SpelledOnce(n.tools)
<1> DEFINE n == NormalizedLock(lock)
<1>1. /\ IsDigest(lock.plan) /\ IsMap(lock.tools)
      /\ \A tool \in DOMAIN lock.tools : IsVariants(lock.tools[tool])
  BY DEF IsLock, IsResolution, IsVariants
<1>2. /\ n = [plan |-> n.plan, tools |-> n.tools]
      /\ n.plan = Lower(lock.plan)
      /\ DOMAIN n.tools = DOMAIN lock.tools
      /\ n.tools = [tool \in DOMAIN n.tools |-> n.tools[tool]]
      /\ \A tool \in DOMAIN lock.tools :
            n.tools[tool] = SortedVariants(Rewritten(lock.tools[tool]))
  BY LockFields
<1> HIDE DEF n
<1>3. ASSUME NEW tool \in DOMAIN lock.tools
      PROVE  /\ IsVariants(n.tools[tool])
             /\ \A v \in ToSet(lock.tools[tool]) : IsVariant(v)
             /\ \A x : x \in ToSet(n.tools[tool])
                   <=> \E v \in ToSet(lock.tools[tool]) :
                          NormalizedVariant(v) = x
  <2> DEFINE s == lock.tools[tool]
             t == Rewritten(s)
             u == SortedVariants(t)
  <2>1. IsVariants(s) /\ n.tools[tool] = u
    BY <1>1, <1>2
  <2> HIDE DEF s, t, u
  <2>2. /\ IsVariants(t)
        /\ \A v \in ToSet(s) : IsVariant(v)
        /\ \A x : x \in ToSet(t)
              <=> \E v \in ToSet(s) : NormalizedVariant(v) = x
    BY <2>1, RewrittenList DEF t
  <2>3. IsList(t)
    BY <2>2 DEF IsVariants
  <2>4. IsList(u) /\ ToSet(u) = ToSet(t)
    BY <2>3, VariantsSorted DEF u
  <2>5. \A x \in ToSet(u) : IsVariant(x)
    BY <2>2, <2>4, VariantNormal
  <2>6. \A i \in 1..Len(u) : IsVariant(u[i])
    BY <2>4, <2>5, ListElements
  <2> QED
    BY <2>1, <2>2, <2>4, <2>6 DEF IsVariants, s
<1>4. IsResolution(n.tools)
  BY <1>2, <1>3 DEF IsResolution, IsMap, IsVariants
<1>5. IsLock(n)
  BY <1>1, <1>2, <1>4, LowerIsDigest DEF IsLock
<1>6. Pins(n.tools) = Pins(lock.tools)
  <2>1. ASSUME NEW tool \in DOMAIN lock.tools, NEW x
        PROVE  (\E v \in ToSet(n.tools[tool]) : x = Pin(tool, v))
                  <=> \E v \in ToSet(lock.tools[tool]) : x = Pin(tool, v)
    <3>1. \A v \in ToSet(lock.tools[tool]) :
             Pin(tool, NormalizedVariant(v)) = Pin(tool, v)
      BY <1>3, VariantNormal
    <3>2. \A y : y \in ToSet(n.tools[tool])
             <=> \E v \in ToSet(lock.tools[tool]) : NormalizedVariant(v) = y
      BY <1>3
    <3> QED
      BY <3>1, <3>2
  <2>2. ASSUME NEW x
        PROVE  x \in Pins(n.tools) <=> x \in Pins(lock.tools)
    <3>1. x \in Pins(n.tools) <=>
             \E tool \in DOMAIN n.tools :
                \E v \in ToSet(n.tools[tool]) : x = Pin(tool, v)
      BY PinOf
    <3>2. x \in Pins(lock.tools) <=>
             \E tool \in DOMAIN lock.tools :
                \E v \in ToSet(lock.tools[tool]) : x = Pin(tool, v)
      BY PinOf
    <3>3. DOMAIN n.tools = DOMAIN lock.tools
      BY <1>2
    <3>4. ASSUME NEW tool \in DOMAIN n.tools, NEW v \in ToSet(n.tools[tool]),
                 x = Pin(tool, v)
          PROVE  x \in Pins(lock.tools)
      <4>1. tool \in DOMAIN lock.tools
        BY <3>3
      <4>2. \E w \in ToSet(lock.tools[tool]) : x = Pin(tool, w)
        BY <2>1, <3>4, <4>1
      <4> QED
        BY <3>2, <4>1, <4>2
    <3>5. ASSUME NEW tool \in DOMAIN lock.tools,
                 NEW v \in ToSet(lock.tools[tool]), x = Pin(tool, v)
          PROVE  x \in Pins(n.tools)
      <4>1. tool \in DOMAIN n.tools
        BY <3>3
      <4>2. \E w \in ToSet(n.tools[tool]) : x = Pin(tool, w)
        BY <2>1, <3>5
      <4> QED
        BY <3>1, <4>1, <4>2
    <3> QED
      BY <3>1, <3>2, <3>4, <3>5
  <2> QED
    BY <2>2
<1>7. SpelledOnce(n.tools)
  <2>1. ASSUME NEW tool \in DOMAIN n.tools, NEW i \in 1..Len(n.tools[tool])
        PROVE  Identity(NormalizedVariant(n.tools[tool][i]))
                  = Identity(n.tools[tool][i])
    <3>1. n.tools[tool][i] \in ToSet(n.tools[tool])
      BY <1>2, <1>3, ListElements DEF IsVariants
    <3>2. PICK v \in ToSet(lock.tools[tool]) :
             NormalizedVariant(v) = n.tools[tool][i]
      BY <1>2, <1>3, <3>1
    <3>3. IsVariant(v)
      BY <1>2, <1>3
    <3> QED
      BY <3>2, <3>3, VariantNormal
  <2> QED
    BY <2>1 DEF SpelledOnce
<1> QED
  BY <1>2, <1>5, <1>6, <1>7 DEF n

(* The variants of a valid lock differ, and still do in normal form. *)
LEMMA VariantsDiffer ==
  ASSUME NEW lock, IsLock(lock), ValidLock(lock, "local"),
         SpelledOnce(lock.tools), NEW tool \in DOMAIN lock.tools,
         NEW i \in 1..Len(lock.tools[tool]),
         NEW j \in 1..Len(lock.tools[tool]),
         Identity(NormalizedVariant(lock.tools[tool][i]))
            = Identity(NormalizedVariant(lock.tools[tool][j]))
  PROVE  i = j
<1>1. Identity(lock.tools[tool][i]) = Identity(lock.tools[tool][j])
  BY Zenon DEF SpelledOnce
<1> QED
  BY <1>1, Zenon DEF ValidLock

(* A valid lock whose variants' files differ is valid in normal form. *)
LEMMA LockStaysValid ==
  ASSUME NEW lock, IsLock(lock), ValidLock(lock, "local"),
         SpelledOnce(lock.tools)
  PROVE  ValidLock(NormalizedLock(lock), "local")
<1> DEFINE n == NormalizedLock(lock)
<1>1. /\ IsDigest(lock.plan) /\ ValidSha256(lock.plan)
      /\ \A tool \in DOMAIN lock.tools : IsVariants(lock.tools[tool])
  BY DEF IsLock, IsResolution, IsVariants, ValidLock
<1>2. /\ n.plan = Lower(lock.plan)
      /\ DOMAIN n.tools = DOMAIN lock.tools
      /\ \A tool \in DOMAIN lock.tools :
            n.tools[tool] = SortedVariants(Rewritten(lock.tools[tool]))
  BY LockFields
<1>3. ASSUME NEW tool \in DOMAIN lock.tools
      PROVE  /\ lock.tools[tool] # <<>>
             /\ \A i \in 1..Len(lock.tools[tool]) :
                   ValidVariant(lock.tools[tool][i], "local")
  BY Zenon DEF ValidLock
<1> HIDE DEF n
<1>4. ValidSha256(n.plan)
  BY <1>1, <1>2, LowerIsDigest DEF ValidSha256
<1>5. ASSUME NEW tool \in DOMAIN lock.tools
      PROVE  /\ n.tools[tool] # <<>>
             /\ \A i \in 1..Len(n.tools[tool]) :
                   ValidVariant(n.tools[tool][i], "local")
             /\ \A i, j \in 1..Len(n.tools[tool]) :
                   Identity(n.tools[tool][i]) = Identity(n.tools[tool][j])
                   => i = j
  <2> DEFINE s == lock.tools[tool]
             t == Rewritten(s)
             u == SortedVariants(t)
             g == InOrderOf(1..Len(t), ByVariant(t))
  <2>1. IsVariants(s) /\ n.tools[tool] = u
    BY <1>1, <1>2
  <2>2. s # <<>> /\ \A i \in 1..Len(s) : ValidVariant(s[i], "local")
    BY <1>3
  <2>3. \A i, j \in 1..Len(s) :
           Identity(NormalizedVariant(s[i]))
              = Identity(NormalizedVariant(s[j])) => i = j
    BY VariantsDiffer
  <2> HIDE DEF s, t, u, g
  <2>4. /\ IsList(s) /\ IsVariants(t) /\ Len(t) = Len(s)
        /\ \A i \in 1..Len(s) : t[i] = NormalizedVariant(s[i])
        /\ \A i \in 1..Len(s) : IsVariant(s[i])
    BY <2>1, RewrittenList DEF t, IsVariants
  <2>5. IsList(t)
    BY <2>4 DEF IsVariants
  <2>6. /\ IsList(u) /\ Len(u) = Len(s)
        /\ g \in [1..Len(s) -> 1..Len(s)]
        /\ \A p \in 1..Len(s) : u[p] = t[g[p]]
        /\ \A p, q \in 1..Len(s) : g[p] = g[q] => p = q
    BY <2>4, <2>5, VariantsSorted DEF u, g
  <2>7. u # <<>>
    <3>1. Len(s) > 0
      BY <2>2, <2>4, NotEmpty DEF NoPath
    <3> QED
      BY <2>6, <3>1
  <2>8. \A p \in 1..Len(u) : ValidVariant(u[p], "local")
    <3> TAKE p \in 1..Len(u)
    <3>1. g[p] \in 1..Len(s) /\ u[p] = NormalizedVariant(s[g[p]])
      BY <2>4, <2>6
    <3> QED
      BY <2>2, <2>4, <3>1, VariantNormal
  <2>9. \A p, q \in 1..Len(u) : Identity(u[p]) = Identity(u[q]) => p = q
    <3> TAKE p, q \in 1..Len(u)
    <3>1. /\ g[p] \in 1..Len(s) /\ u[p] = NormalizedVariant(s[g[p]])
          /\ g[q] \in 1..Len(s) /\ u[q] = NormalizedVariant(s[g[q]])
      BY <2>4, <2>6
    <3> QED
      BY <2>3, <2>6, <3>1
  <2> QED
    BY <2>1, <2>7, <2>8, <2>9
<1> QED
  BY <1>2, <1>4, <1>5, Zenon DEF ValidLock, n

(* Valid locks that say the same have one normal form. *)
LEMMA LockTold ==
  ASSUME NEW a, NEW b, IsLock(a), IsLock(b),
         ValidLock(a, "local"), ValidLock(b, "local"),
         SpelledOnce(a.tools), SpelledOnce(b.tools),
         LockMeaning(a) = LockMeaning(b)
  PROVE  NormalizedLock(a) = NormalizedLock(b)
<1> DEFINE M(tools) == [tool \in DOMAIN tools |->
                          {VariantMeaning(v) : v \in ToSet(tools[tool])}]
<1>1. a.plan.of = b.plan.of /\ M(a.tools) = M(b.tools)
  <2>1. /\ LockMeaning(a).plan = a.plan.of /\ LockMeaning(b).plan = b.plan.of
        /\ LockMeaning(a).tools = M(a.tools)
        /\ LockMeaning(b).tools = M(b.tools)
    BY DEF LockMeaning
  <2> HIDE DEF M
  <2> QED
    BY <2>1
<1>2. ASSUME NEW tools
      PROVE  /\ DOMAIN M(tools) = DOMAIN tools
             /\ \A tool \in DOMAIN tools :
                   M(tools)[tool]
                      = {VariantMeaning(v) : v \in ToSet(tools[tool])}
  OBVIOUS
<1> HIDE DEF M
<1>3. DOMAIN a.tools = DOMAIN b.tools
  BY <1>1, <1>2
<1>4. \A tool \in DOMAIN a.tools :
         {VariantMeaning(v) : v \in ToSet(a.tools[tool])}
            = {VariantMeaning(v) : v \in ToSet(b.tools[tool])}
  <2> TAKE tool \in DOMAIN a.tools
  <2>1. M(a.tools)[tool] = M(b.tools)[tool]
    BY <1>1
  <2>2. M(a.tools)[tool]
           = {VariantMeaning(v) : v \in ToSet(a.tools[tool])}
    BY <1>2, Zenon
  <2>3. M(b.tools)[tool]
           = {VariantMeaning(v) : v \in ToSet(b.tools[tool])}
    BY <1>2, <1>3, Zenon
  <2> QED
    BY <2>1, <2>2, <2>3
<1>5. Lower(a.plan) = Lower(b.plan)
  <2>1. a.plan.whole = TRUE /\ b.plan.whole = TRUE
    BY DEF IsLock, IsDigest, ValidLock, ValidSha256
  <2> QED
    BY <1>1, <2>1 DEF Lower
<1>6. ASSUME NEW lock, IsLock(lock), ValidLock(lock, "local"),
             SpelledOnce(lock.tools), NEW tool \in DOMAIN lock.tools
      PROVE  /\ SortedVariants(Rewritten(lock.tools[tool]))
                   = SetToSeq(ToSet(Rewritten(lock.tools[tool])))
             /\ \A v \in ToSet(lock.tools[tool]) :
                   IsVariant(v) /\ ValidVariant(v, "local")
             /\ \A x : x \in ToSet(Rewritten(lock.tools[tool]))
                   <=> \E v \in ToSet(lock.tools[tool]) :
                          NormalizedVariant(v) = x
  <2> DEFINE s == lock.tools[tool]
             t == Rewritten(s)
  <2>1. IsVariants(s)
    BY <1>6 DEF IsLock, IsResolution, IsVariants
  <2>2. \A i, j \in 1..Len(s) :
           Identity(NormalizedVariant(s[i]))
              = Identity(NormalizedVariant(s[j])) => i = j
    BY <1>6, VariantsDiffer
  <2>3. \A i \in 1..Len(s) : ValidVariant(s[i], "local")
    BY <1>6, Zenon DEF ValidLock
  <2> HIDE DEF s, t
  <2>4. /\ IsList(s) /\ IsVariants(t) /\ Len(t) = Len(s)
        /\ \A i \in 1..Len(s) : t[i] = NormalizedVariant(s[i])
        /\ \A v \in ToSet(s) : IsVariant(v)
        /\ \A x : x \in ToSet(t)
              <=> \E v \in ToSet(s) : NormalizedVariant(v) = x
    BY <2>1, RewrittenList DEF t
  <2>5. IsList(t) /\ \A i, j \in 1..Len(t) : t[i] = t[j] => i = j
    BY <2>2, <2>4 DEF IsVariants
  <2>6. SortedVariants(t) = SetToSeq(ToSet(t))
    BY <2>5, DifferentSorted
  <2>7. \A v \in ToSet(s) : ValidVariant(v, "local")
    BY <2>3, <2>4, ListElements
  <2> QED
    BY <2>4, <2>6, <2>7 DEF s, t
<1>7. ASSUME NEW tool \in DOMAIN a.tools
      PROVE  SortedVariants(Rewritten(a.tools[tool]))
                = SortedVariants(Rewritten(b.tools[tool]))
  <2>0. tool \in DOMAIN b.tools
    BY <1>3
  <2>2. /\ SortedVariants(Rewritten(a.tools[tool]))
              = SetToSeq(ToSet(Rewritten(a.tools[tool])))
        /\ \A v \in ToSet(a.tools[tool]) :
              IsVariant(v) /\ ValidVariant(v, "local")
        /\ \A x : x \in ToSet(Rewritten(a.tools[tool]))
              <=> \E v \in ToSet(a.tools[tool]) : NormalizedVariant(v) = x
    BY <1>6
  <2>7. /\ SortedVariants(Rewritten(b.tools[tool]))
              = SetToSeq(ToSet(Rewritten(b.tools[tool])))
        /\ \A v \in ToSet(b.tools[tool]) :
              IsVariant(v) /\ ValidVariant(v, "local")
        /\ \A x : x \in ToSet(Rewritten(b.tools[tool]))
              <=> \E v \in ToSet(b.tools[tool]) : NormalizedVariant(v) = x
    BY <1>6, <2>0
  <2>3. ASSUME NEW v \in ToSet(a.tools[tool])
        PROVE  \E w \in ToSet(b.tools[tool]) :
                  NormalizedVariant(w) = NormalizedVariant(v)
    <3>1. PICK w \in ToSet(b.tools[tool]) :
             VariantMeaning(w) = VariantMeaning(v)
      BY <1>4
    <3> QED
      BY <2>2, <2>7, <3>1, VariantTold
  <2>4. ASSUME NEW v \in ToSet(b.tools[tool])
        PROVE  \E w \in ToSet(a.tools[tool]) :
                  NormalizedVariant(w) = NormalizedVariant(v)
    <3>1. PICK w \in ToSet(a.tools[tool]) :
             VariantMeaning(w) = VariantMeaning(v)
      BY <1>4
    <3> QED
      BY <2>2, <2>7, <3>1, VariantTold
  <2>5. \A x : x \in ToSet(Rewritten(a.tools[tool]))
                  <=> x \in ToSet(Rewritten(b.tools[tool]))
    BY <2>2, <2>3, <2>4, <2>7
  <2>6. ToSet(Rewritten(a.tools[tool])) = ToSet(Rewritten(b.tools[tool]))
    BY <2>5
  <2> QED
    BY <2>2, <2>6, <2>7
<1>8. /\ NormalizedLock(a)
            = [plan |-> Lower(a.plan),
               tools |-> [tool \in DOMAIN a.tools |->
                             SortedVariants(Rewritten(a.tools[tool]))]]
      /\ NormalizedLock(b)
            = [plan |-> Lower(b.plan),
               tools |-> [tool \in DOMAIN b.tools |->
                             SortedVariants(Rewritten(b.tools[tool]))]]
  BY DEF NormalizedLock, Rewritten
<1>9. [tool \in DOMAIN a.tools |-> SortedVariants(Rewritten(a.tools[tool]))]
         = [tool \in DOMAIN b.tools |->
               SortedVariants(Rewritten(b.tools[tool]))]
  BY <1>3, <1>7
<1> QED
  BY <1>5, <1>8, <1>9

(* What a host installs of a lock are the pins for its platform. *)
LEMMA PinsForTarget ==
  ASSUME NEW lock, IsLock(lock), NEW h
  PROVE  PinsFor(lock, h) = {pin \in Pins(lock.tools) :
                                pin.target = TargetOf[h]}
<1>1. ASSUME NEW tool \in DOMAIN lock.tools
      PROVE  \A x : x \in ToSet(VariantsForTarget(lock, tool, TargetOf[h]))
                <=> x \in ToSet(lock.tools[tool]) /\ x.target = TargetOf[h]
  <2> DEFINE s == lock.tools[tool]
             kept == {i \in 1..Len(s) : s[i].target = TargetOf[h]}
  <2>1. VariantsForTarget(lock, tool, TargetOf[h])
           = Arranged(s, kept, ByPosition(s))
    BY DEF VariantsForTarget
  <2>2. IsList(s)
    BY DEF IsLock, IsResolution
  <2>3. kept \in SUBSET (1..Len(s))
    OBVIOUS
  <2>4. \A i : i \in kept <=> i \in 1..Len(s) /\ s[i].target = TargetOf[h]
    OBVIOUS
  <2> HIDE DEF s, kept
  <2>5. \A x : x \in ToSet(Arranged(s, kept, ByPosition(s)))
                  <=> \E i \in kept : s[i] = x
    BY <2>2, <2>3, KeptList
  <2>6. \A x : x \in ToSet(s) <=> \E i \in 1..Len(s) : s[i] = x
    BY <2>2, ListElements
  <2> QED
    BY <2>1, <2>4, <2>5, <2>6 DEF s
<1>2. \A x : x \in PinsFor(lock, h) <=>
         \E tool \in DOMAIN lock.tools :
            \E v \in ToSet(VariantsForTarget(lock, tool, TargetOf[h])) :
               x = Pin(tool, v)
  BY DEF PinsFor
<1>3. \A tool, v : Pin(tool, v).target = v.target
  BY DEF Pin
<1>4. \A x : x \in PinsFor(lock, h)
                <=> x \in Pins(lock.tools) /\ x.target = TargetOf[h]
  BY <1>1, <1>2, <1>3, PinOf
<1> QED
  BY <1>4

-----------------------------------------------------------------------------
(* What the hosts and the files hold: the inductive invariant. *)

(* Something resolved a plan with this digest, and chose these pins. *)
ResolvedTo(of, pins) == \E r \in resolved : r.digest.of = of /\ r.pins = pins

(* Every digest that was resolved for is that of a plan that means what    *)
(* the history says it meant.                                              *)
ResolutionsHold ==
    \A r \in resolved :
        \E plan : /\ SoundPlan(plan)
                  /\ r.digest = PlanDigest(plan)
                  /\ r.meaning = Meaning(plan)

(* A lock names the digest it was resolved for. *)
LockHolds(lock) ==
    /\ IsLock(lock) /\ lock.plan.whole = TRUE
    /\ ResolvedTo(lock.plan.of, Pins(lock.tools))

(* What hosts hold: plans that are sound, and locks whose pins were chosen *)
(* for the plan they name.                                                 *)
Held ==
    /\ IsPlan(plan_file) /\ KeptWhole(plan_file)
    /\ plans = [h \in Hosts |-> plans[h]]
    /\ \A h \in Hosts : plans[h] # Nothing => SoundPlan(plans[h])
    /\ locks = [h \in Hosts |-> locks[h]]
    /\ \A h \in Hosts : locks[h] # Nothing => LockHolds(locks[h])
    /\ lock_file # Nothing => LockHolds(lock_file)
    /\ ResolutionsHold

(* The digest of a plan is that of its normal form, in small letters. *)
LEMMA DigestOf ==
  ASSUME NEW plan
  PROVE  /\ PlanDigest(plan) = [of |-> NormalizedPlan(plan), upper |-> FALSE,
                                whole |-> TRUE]
         /\ PlanDigest(plan).of = NormalizedPlan(plan)
BY DEF PlanDigest, Sha256

(* Held is true at the beginning: nobody holds anything. *)
LEMMA InitHeld ==
  ASSUME PlansKept, Init
  PROVE  Held
BY HostsAssumption DEF Init, Held, PlansKept, ResolutionsHold

(* More resolutions take nothing away. *)
LEMMA ResolvedStays ==
  ASSUME resolved \subseteq resolved', NEW CONSTANT lock, LockHolds(lock)
  PROVE  LockHolds(lock)'
BY DEF LockHolds, ResolvedTo

(* parse_toml keeps Held: what is read was validated. *)
LEMMA LoadPlanHeld ==
  ASSUME Held, NEW h \in Hosts, LoadPlan(h)
  PROVE  Held'
<1>1. SoundPlan(plan_file)
  BY DEF LoadPlan, Held, SoundPlan
<1>2. plans' = [plans EXCEPT ![h] = plan_file]
  BY DEF LoadPlan
<1>3. /\ plans' = [g \in Hosts |-> plans'[g]]
      /\ \A g \in Hosts :
            (plans[g] # Nothing => SoundPlan(plans[g]))'
  BY <1>1, <1>2 DEF Held
<1> QED
  BY <1>3 DEF LoadPlan, Held, LockHolds, ResolvedTo, ResolutionsHold

(* Storing a plan keeps Held: the normal form can be kept whole, too. *)
LEMMA StorePlanHeld ==
  ASSUME Held, NEW h \in Hosts, StorePlan(h)
  PROVE  Held'
<1>1. SoundPlan(plans[h]) /\ plan_file' = NormalizedPlan(plans[h])
  BY DEF Held, StorePlan
<1>2. IsPlan(plan_file') /\ KeptWhole(plan_file')
  BY <1>1, PlanNormal
<1> QED
  BY <1>2 DEF StorePlan, Held, LockHolds, ResolvedTo, ResolutionsHold

(* Resolving keeps Held: the lock names the digest it was resolved for. *)
LEMMA ResolveHeld ==
  ASSUME Held, NEW h \in Hosts, Resolve(h)
  PROVE  Held'
<1>1. /\ plans[h] # Nothing
      /\ UNCHANGED <<plan_file, lock_file, plans, installed>>
  BY DEF Resolve
<1> DEFINE plan == plans[h]
           digest == PlanDigest(plan)
<1> DEFINE told == [digest |-> digest, meaning |-> Meaning(plan)]
<1>0. \E for \in {told} : \E tools \in Resolutions, upper \in Cases :
         LET chosen == [digest |-> for.digest, meaning |-> for.meaning,
                        pins |-> Pins(tools)]
         IN  /\ resolved' = resolved \cup {chosen}
             /\ locks' = [locks EXCEPT ![h] =
                            [plan |-> WrittenIn(for.digest, upper),
                             tools |-> tools]]
  BY Zenon DEF Resolve
<1>2. PICK tools \in Resolutions, upper \in Cases :
         /\ resolved' = resolved \cup
               {[digest |-> digest, meaning |-> Meaning(plan),
                 pins |-> Pins(tools)]}
         /\ locks' = [locks EXCEPT ![h] =
                        [plan |-> WrittenIn(digest, upper), tools |-> tools]]
  <2>1. told.digest = digest /\ told.meaning = Meaning(plan)
    OBVIOUS
  <2> HIDE DEF told, digest
  <2> QED
    BY <1>0, <2>1
<1> DEFINE chosen == [digest |-> digest, meaning |-> Meaning(plan),
                      pins |-> Pins(tools)]
           lock == [plan |-> WrittenIn(digest, upper), tools |-> tools]
<1>3. /\ resolved' = resolved \cup {chosen}
      /\ locks' = [locks EXCEPT ![h] = lock]
  BY <1>2
<1>4. SoundPlan(plan)
  BY <1>1 DEF Held
<1>5. IsResolution(tools)
  BY HostsAssumption
<1>6. /\ chosen.digest = digest /\ chosen.meaning = Meaning(plan)
      /\ chosen.pins = Pins(tools)
  OBVIOUS
<1>7. /\ lock.plan = WrittenIn(digest, upper) /\ lock.tools = tools
      /\ lock = [plan |-> lock.plan, tools |-> lock.tools]
  OBVIOUS
<1>8. digest = [of |-> NormalizedPlan(plan), upper |-> FALSE, whole |-> TRUE]
  BY DigestOf
<1> HIDE DEF chosen, lock, digest
<1>9. /\ IsDigest(lock.plan) /\ lock.plan.whole = TRUE
      /\ lock.plan.of = digest.of
  BY <1>7, <1>8 DEF IsDigest, WrittenIn
<1>10. resolved \subseteq resolved' /\ chosen \in resolved'
  BY <1>3
<1>11. ResolutionsHold'
  <2> SUFFICES ASSUME NEW r \in resolved'
               PROVE  \E p : /\ SoundPlan(p) /\ r.digest = PlanDigest(p)
                             /\ r.meaning = Meaning(p)
    BY DEF ResolutionsHold
  <2>1. CASE r = chosen
    BY <1>4, <1>6, <2>1 DEF digest
  <2>2. CASE r \in resolved
    BY <2>2 DEF Held, ResolutionsHold
  <2> QED
    BY <1>3, <2>1, <2>2
<1>12. \E r \in resolved' : r.digest.of = lock.plan.of
                            /\ r.pins = Pins(lock.tools)
  BY <1>6, <1>7, <1>9, <1>10
<1>13. \A l : LockHolds(l) =>
          /\ IsLock(l) /\ l.plan.whole = TRUE
          /\ \E r \in resolved' : /\ r.digest.of = l.plan.of
                                  /\ r.pins = Pins(l.tools)
  BY <1>10 DEF LockHolds, ResolvedTo
<1>14. IsLock(lock)
  BY <1>5, <1>7, <1>9 DEF IsLock
<1>15. /\ locks' = [g \in Hosts |-> locks'[g]]
       /\ \A g \in Hosts : locks'[g] # locks[g] => locks'[g] = lock
  BY <1>3 DEF Held
<1>16. ASSUME NEW g \in Hosts, locks'[g] # Nothing
       PROVE  /\ IsLock(locks'[g]) /\ locks'[g].plan.whole = TRUE
              /\ \E r \in resolved' : /\ r.digest.of = locks'[g].plan.of
                                      /\ r.pins = Pins(locks'[g].tools)
  <2>1. CASE locks'[g] = locks[g]
    BY <1>13, <1>16, <2>1 DEF Held
  <2>2. CASE locks'[g] = lock
    BY <1>9, <1>12, <1>14, <2>2
  <2> QED
    BY <1>15, <2>1, <2>2
<1>17. lock_file' # Nothing =>
          /\ IsLock(lock_file') /\ lock_file'.plan.whole = TRUE
          /\ \E r \in resolved' : /\ r.digest.of = lock_file'.plan.of
                                  /\ r.pins = Pins(lock_file'.tools)
  BY <1>1, <1>13 DEF Held
<1> QED
  BY <1>1, <1>11, <1>15, <1>16, <1>17 DEF Held, LockHolds, ResolvedTo

(* Writing a lock keeps Held: its normal form pins the same for the same   *)
(* digest.                                                                 *)
LEMMA WriteLockHeld ==
  ASSUME Held, NEW h \in Hosts, WriteLock(h)
  PROVE  Held'
<1> DEFINE lock == locks[h]
           n == NormalizedLock(lock)
<1>1. LockHolds(lock) /\ lock_file' = n
  BY DEF Held, WriteLock
<1>2. IsLock(lock)
  BY <1>1 DEF LockHolds
<1>3. /\ IsLock(n) /\ n.plan = Lower(lock.plan)
      /\ Pins(n.tools) = Pins(lock.tools)
  BY <1>2, LockNormal
<1>4. n.plan.of = lock.plan.of /\ n.plan.whole = lock.plan.whole
  BY <1>2, <1>3, LowerIsDigest DEF IsLock
<1> HIDE DEF n, lock
<1>5. LockHolds(n)
  BY <1>1, <1>3, <1>4 DEF LockHolds
<1> QED
  BY <1>1, <1>5 DEF WriteLock, Held, LockHolds, ResolvedTo, ResolutionsHold

(* Reading a lock keeps Held. *)
LEMMA ReadLockHeld ==
  ASSUME Held, NEW h \in Hosts, ReadLock(h)
  PROVE  Held'
<1>1. LockHolds(lock_file) /\ locks' = [locks EXCEPT ![h] = lock_file]
  BY DEF Held, ReadLock
<1>2. /\ locks' = [g \in Hosts |-> locks'[g]]
      /\ \A g \in Hosts : locks'[g] # Nothing => LockHolds(locks'[g])
  BY <1>1 DEF Held
<1> QED
  BY <1>2 DEF ReadLock, Held, LockHolds, ResolvedTo, ResolutionsHold

(* Every step keeps Held, in whatever order the hosts take them. *)
LEMMA HeldStays ==
  ASSUME PlansKept, Held, [Next]_vars
  PROVE  Held'
<1>1. CASE EditPlan
  BY <1>1, HostsAssumption
     DEF EditPlan, Held, LockHolds, ResolvedTo, ResolutionsHold, PlansKept
<1>2. ASSUME NEW h \in Hosts, Install(h)
      PROVE  Held'
  BY <1>2 DEF Install, Held, LockHolds, ResolvedTo, ResolutionsHold
<1>3. CASE UNCHANGED vars
  BY <1>3 DEF vars, Held, LockHolds, ResolvedTo, ResolutionsHold
<1> QED
  BY <1>1, <1>2, <1>3, LoadPlanHeld, StorePlanHeld, ResolveHeld,
     WriteLockHeld, ReadLockHeld DEF Next

(* Whatever hosts do and in whatever order, the plans they hold are valid, *)
(* and the pins of every lock, held or stored, were chosen for a plan with *)
(* the digest the lock names (parse_toml, to_toml_string of both           *)
(* documents).                                                             *)
THEOREM HeldAlways ==
  ASSUME PlansKept
  PROVE  Spec => []Held
<1>1. Init => Held
  BY InitHeld
<1>2. Held /\ [Next]_vars => Held'
  BY HeldStays
<1> QED
  BY <1>1, <1>2, PTL DEF Spec

-----------------------------------------------------------------------------
(* Installing what was resolved: the refinement. *)

(* A lock whose digest is that of a plan was resolved for one that means   *)
(* the same.                                                               *)
LEMMA ResolvedForMeaning ==
  ASSUME Held, NEW plan, SoundPlan(plan), NEW lock, LockHolds(lock),
         VerifyPlanDigest(lock, PlanDigest(plan))
  PROVE  \E r \in resolved : /\ r.meaning = Meaning(plan)
                             /\ r.pins = Pins(lock.tools)
<1>1. PICK r \in resolved : /\ r.digest.of = lock.plan.of
                            /\ r.pins = Pins(lock.tools)
  BY DEF LockHolds, ResolvedTo
<1>2. PICK p : /\ SoundPlan(p) /\ r.digest = PlanDigest(p)
               /\ r.meaning = Meaning(p)
  BY DEF Held, ResolutionsHold
<1>3. Lower(lock.plan) = Lower(PlanDigest(plan))
  BY DEF VerifyPlanDigest
<1>4. lock.plan.of = NormalizedPlan(plan)
  BY <1>3, DigestOf DEF Lower
<1>5. NormalizedPlan(p) = NormalizedPlan(plan)
  BY <1>1, <1>2, <1>4, DigestOf
<1>6. Meaning(p) = Meaning(plan)
  <2>1. /\ Meaning(NormalizedPlan(p)) = Meaning(p)
        /\ Meaning(NormalizedPlan(plan)) = Meaning(plan)
    BY <1>2, PlanNormal
  <2> QED
    BY <1>5, <2>1
<1> QED
  BY <1>1, <1>2, <1>6

(* What a host installs from a lock that verify_plan_digest accepts was    *)
(* chosen by one resolution, for a plan that means what its own plan means *)
(* and for its own platform: the files, shared by any number of hosts and  *)
(* overwritten at any time, implement the frozen environment that          *)
(* FrozenEnvironment describes.  The assumption on Nothing is that it is   *)
(* no installation.                                                        *)
THEOREM Refinement ==
  ASSUME PlansKept,
         \A host, plan, pins :
            Nothing # [host |-> host, plan |-> plan, pins |-> pins]
  PROVE  Spec => ImplementsFrozenEnvironment
<1> DEFINE told == {[meaning |-> r.meaning, pins |-> r.pins] : r \in resolved}
           shown == IF installed = Nothing THEN Nothing
                    ELSE [installed EXCEPT !.plan = Meaning(@)]
<1>1. Init => Frozen!Init
  BY DEF Init, Frozen!Init
<1>2. Held /\ [Next]_vars => [Frozen!Next]_(Frozen!vars)
  <2> SUFFICES ASSUME Held, [Next]_vars
               PROVE  [Frozen!Next]_(Frozen!vars)
    OBVIOUS
  <2>1. ASSUME UNCHANGED <<resolved, installed>>
        PROVE  UNCHANGED Frozen!vars
    BY <2>1 DEF Frozen!vars
  <2>2. CASE UNCHANGED vars
    BY <2>1, <2>2 DEF vars
  <2>3. CASE EditPlan
    BY <2>1, <2>3 DEF EditPlan
  <2>4. ASSUME NEW h \in Hosts,
               \/ LoadPlan(h) \/ StorePlan(h)
               \/ WriteLock(h) \/ ReadLock(h)
        PROVE  UNCHANGED Frozen!vars
    BY <2>1, <2>4 DEF LoadPlan, StorePlan, WriteLock, ReadLock
  <2>5. ASSUME NEW h \in Hosts, Resolve(h)
        PROVE  Frozen!Resolve
    <3>1. resolved \subseteq resolved' /\ installed' = installed
      <4>1. \E chosen : resolved' = resolved \cup {chosen}
        BY <2>5 DEF Resolve
      <4> QED
        BY <2>5, <4>1 DEF Resolve
    <3> QED
      BY <3>1 DEF Frozen!Resolve
  <2>6. ASSUME NEW h \in Hosts, Install(h)
        PROVE  Frozen!Install(h)
    <3>1. /\ plans[h] # Nothing /\ locks[h] # Nothing
          /\ VerifyPlanDigest(locks[h], PlanDigest(plans[h]))
          /\ installed' = [host |-> h, plan |-> plans[h],
                           pins |-> PinsFor(locks[h], h)]
          /\ resolved' = resolved
      BY <2>6 DEF Install
    <3>2. SoundPlan(plans[h]) /\ LockHolds(locks[h])
      BY <3>1 DEF Held
    <3>3. PICK r \in resolved : /\ r.meaning = Meaning(plans[h])
                                /\ r.pins = Pins(locks[h].tools)
      BY <3>1, <3>2, ResolvedForMeaning
    <3>4. PinsFor(locks[h], h) = {pin \in r.pins : pin.target = TargetOf[h]}
      BY <3>2, <3>3, PinsForTarget DEF LockHolds
    <3>5. shown' = [host |-> h, plan |-> Meaning(plans[h]),
                    pins |-> PinsFor(locks[h], h)]
      BY <3>1
    <3>7. PICK q \in told : /\ q.meaning = Meaning(plans[h])
                            /\ q.pins = r.pins
      <4> DEFINE q == [meaning |-> r.meaning, pins |-> r.pins]
      <4>1. q \in told /\ q.meaning = r.meaning /\ q.pins = r.pins
        OBVIOUS
      <4> QED
        BY <3>3, <4>1
    <3>9. shown' = [host |-> h, plan |-> q.meaning,
                    pins |-> {pin \in q.pins : pin.target = TargetOf[h]}]
      BY <3>4, <3>5, <3>7
    <3>8. told' = told
      BY <3>1
    <3> QED
      BY <3>7, <3>8, <3>9 DEF Frozen!Install
  <2> QED
    BY <2>2, <2>3, <2>4, <2>5, <2>6 DEF Next, Frozen!Next
<1>3. Spec => []Held
  BY HeldAlways
<1> QED
  BY <1>1, <1>2, <1>3, PTL DEF Spec, ImplementsFrozenEnvironment, Frozen!Spec

-----------------------------------------------------------------------------
(* The properties of the runs. *)

(* Stripping a path leaves it as it was further on. *)
LEMMA ShapeStays ==
  ASSUME NEW path, IsList(path), path # NoPath
  PROVE  /\ Straight(path) => Straight(ProjectPath(path))
         /\ Plain(path) => Plain(ProjectPath(path))
<1> DEFINE r == ProjectPath(path)
<1>1. PICK n : /\ Strips(path, n) /\ IsList(r) /\ Len(r) = Len(path) - n
               /\ \A i \in 1..(Len(path) - n) : r[i] = path[i + n]
  BY Stripped
<1>2. Len(path) \in Nat /\ n \in Nat /\ n < Len(path)
  BY <1>1, NotEmpty DEF Strips
<1> HIDE DEF r
<1>3. ASSUME NEW i \in 2..Len(r)
      PROVE  /\ i + n \in 2..Len(path)
             /\ r[i] = path[i + n] /\ r[i - 1] = path[(i + n) - 1]
  <2>1. i \in 1..(Len(path) - n) /\ i - 1 \in 1..(Len(path) - n)
        /\ i + n \in 2..Len(path) /\ (i - 1) + n = (i + n) - 1
    BY <1>1, <1>2
  <2> QED
    BY <1>1, <2>1
<1>4. Straight(path) => Straight(r)
  BY <1>3 DEF Straight
<1>5. Plain(path) => Plain(r)
  BY <1>3 DEF Plain
<1> QED
  BY <1>4, <1>5 DEF r

(* A task in normal form has no new dots in its paths. *)
LEMMA TaskShapeStays ==
  ASSUME NEW task, SoundTask(task)
  PROVE  LET n == NormalizedTask(task)
         IN  /\ StraightTask(task) => StraightTask(n)
             /\ PlainTask(task) => PlainTask(n)
<1> DEFINE n == NormalizedTask(task)
<1>1. /\ IsList(task.dir) /\ n.dir = NormalizedPath(task.dir)
      /\ IsList(task.sources)
      /\ \A i \in 1..Len(task.sources) :
            IsList(task.sources[i]) /\ task.sources[i] # NoPath
      /\ n.sources = SortedPaths(task.sources)
  BY TaskParts
<1> HIDE DEF n
<1>2. /\ Straight(task.dir) => Straight(n.dir)
      /\ Plain(task.dir) => Plain(n.dir)
  BY <1>1, ShapeStays DEF NormalizedPath
<1>3. ASSUME NEW i \in 1..Len(n.sources)
      PROVE  \E j \in 1..Len(task.sources) :
                /\ Straight(task.sources[j]) => Straight(n.sources[i])
                /\ Plain(task.sources[j]) => Plain(n.sources[i])
  <2>1. /\ IsList(n.sources)
        /\ \A x \in ToSet(n.sources) :
              \E p \in ToSet(task.sources) : ProjectPath(p) = x
    BY <1>1, PathsListed
  <2>2. PICK p \in ToSet(task.sources) : ProjectPath(p) = n.sources[i]
    BY <2>1, ListElements
  <2>3. PICK j \in 1..Len(task.sources) : task.sources[j] = p
    BY <1>1, ListElements
  <2> QED
    BY <1>1, <2>2, <2>3, ShapeStays
<1>4. StraightTask(task) => StraightTask(n)
  BY <1>2, <1>3 DEF StraightTask
<1>5. PlainTask(task) => PlainTask(n)
  BY <1>2, <1>3 DEF PlainTask
<1> QED
  BY <1>4, <1>5 DEF n

(* A plan in normal form has no new dots in its paths. *)
LEMMA PlanShapeStays ==
  ASSUME NEW plan, SoundPlan(plan)
  PROVE  /\ StraightPlan(plan) => StraightPlan(NormalizedPlan(plan))
         /\ PlainPlan(plan) => PlainPlan(NormalizedPlan(plan))
<1> DEFINE n == NormalizedPlan(plan)
<1>1. /\ DOMAIN n.tasks = DOMAIN plan.tasks
      /\ \A t \in DOMAIN plan.tasks :
            /\ SoundTask(plan.tasks[t])
            /\ n.tasks[t] = NormalizedTask(plan.tasks[t])
  BY PlanParts
<1> HIDE DEF n
<1>2. \A t \in DOMAIN plan.tasks :
         /\ StraightTask(plan.tasks[t]) => StraightTask(n.tasks[t])
         /\ PlainTask(plan.tasks[t]) => PlainTask(n.tasks[t])
  BY <1>1, TaskShapeStays
<1> QED
  BY <1>1, <1>2 DEF StraightPlan, PlainPlan, n

(* Any two hosts whose plans have one digest hold plans that mean the      *)
(* same, and plans that mean the same are accepted for each other's locks  *)
(* (normalized, canonical_json_bytes, digest_hex of environment plans).    *)
THEOREM DigestsAreOfMeanings ==
  ASSUME PlansKept, PlansStraight
  PROVE  Spec => []DigestIsOfMeaning
<1> DEFINE Even == /\ StraightPlan(plan_file)
                   /\ \A h \in Hosts :
                         plans[h] # Nothing => StraightPlan(plans[h])
<1>1. Init => Even
  BY DEF Init, PlansStraight
<1>2. Held /\ Even /\ [Next]_vars => Even'
  <2> SUFFICES ASSUME Held, Even, [Next]_vars
               PROVE  Even'
    OBVIOUS
  <2>1. CASE EditPlan
    BY <2>1 DEF EditPlan, PlansStraight
  <2>2. ASSUME NEW h \in Hosts, LoadPlan(h)
        PROVE  Even'
    BY <2>2 DEF LoadPlan, Held
  <2>3. ASSUME NEW h \in Hosts, StorePlan(h)
        PROVE  Even'
    <3>1. SoundPlan(plans[h]) /\ StraightPlan(plans[h])
      BY <2>3 DEF StorePlan, Held
    <3>2. StraightPlan(NormalizedPlan(plans[h]))
      BY <3>1, PlanShapeStays
    <3> QED
      BY <2>3, <3>2 DEF StorePlan
  <2>4. ASSUME UNCHANGED <<plan_file, plans>>
        PROVE  Even'
    BY <2>4
  <2> QED
    BY <2>1, <2>2, <2>3, <2>4
       DEF Next, vars, Resolve, WriteLock, ReadLock, Install
<1>3. Held /\ Even => DigestIsOfMeaning
  <2> SUFFICES ASSUME Held, Even,
                      NEW g \in Hosts, NEW h \in Hosts,
                      plans[g] # Nothing, plans[h] # Nothing
               PROVE  /\ PlanDigest(plans[g]) = PlanDigest(plans[h])
                         => Meaning(plans[g]) = Meaning(plans[h])
                      /\ Meaning(plans[g]) = Meaning(plans[h])
                         => VerifyPlanDigest([plan |-> PlanDigest(plans[g])],
                                             PlanDigest(plans[h]))
    BY DEF DigestIsOfMeaning, DigestNamesMeaning, SpellingKeepsDigest
  <2>1. /\ SoundPlan(plans[g]) /\ SoundPlan(plans[h])
        /\ StraightPlan(plans[g]) /\ StraightPlan(plans[h])
    BY DEF Held
  <2>2. /\ PlanDigest(plans[g]).of = NormalizedPlan(plans[g])
        /\ PlanDigest(plans[h]).of = NormalizedPlan(plans[h])
        /\ PlanDigest(plans[h]).whole = TRUE
    BY DigestOf
  <2>3. ASSUME PlanDigest(plans[g]) = PlanDigest(plans[h])
        PROVE  Meaning(plans[g]) = Meaning(plans[h])
    BY <2>1, <2>2, <2>3, PlanNormal
  <2>4. ASSUME Meaning(plans[g]) = Meaning(plans[h])
        PROVE  VerifyPlanDigest([plan |-> PlanDigest(plans[g])],
                                PlanDigest(plans[h]))
    <3>1. NormalizedPlan(plans[g]) = NormalizedPlan(plans[h])
      BY <2>1, <2>4, PlanTold
    <3>2. PlanDigest(plans[g]) = PlanDigest(plans[h])
      BY <3>1 DEF PlanDigest
    <3> QED
      BY <2>2, <3>2 DEF VerifyPlanDigest, ValidSha256
  <2> QED
    BY <2>3, <2>4
<1>4. Spec => []Held
  BY HeldAlways
<1> QED
  BY <1>1, <1>2, <1>3, <1>4, PTL DEF Spec

(* What a host stores is read back: parse_toml accepts what to_toml_string *)
(* writes of a valid plan, in the mode it was valid in and no other, and   *)
(* normalizing it again changes nothing.                                   *)
THEOREM StoredPlans ==
  ASSUME PlansKept, PlansPlain
  PROVE  Spec => []StoredPlanIsReadable
<1> DEFINE Even == /\ PlainPlan(plan_file)
                   /\ \A h \in Hosts :
                         plans[h] # Nothing => PlainPlan(plans[h])
<1>1. Init => Even
  BY DEF Init, PlansPlain
<1>2. Held /\ Even /\ [Next]_vars => Even'
  <2> SUFFICES ASSUME Held, Even, [Next]_vars
               PROVE  Even'
    OBVIOUS
  <2>1. CASE EditPlan
    BY <2>1 DEF EditPlan, PlansPlain
  <2>2. ASSUME NEW h \in Hosts, LoadPlan(h)
        PROVE  Even'
    BY <2>2 DEF LoadPlan, Held
  <2>3. ASSUME NEW h \in Hosts, StorePlan(h)
        PROVE  Even'
    <3>1. SoundPlan(plans[h]) /\ PlainPlan(plans[h])
      BY <2>3 DEF StorePlan, Held
    <3>2. PlainPlan(NormalizedPlan(plans[h]))
      BY <3>1, PlanShapeStays
    <3> QED
      BY <2>3, <3>2 DEF StorePlan
  <2>4. ASSUME UNCHANGED <<plan_file, plans>>
        PROVE  Even'
    BY <2>4
  <2> QED
    BY <2>1, <2>2, <2>3, <2>4
       DEF Next, vars, Resolve, WriteLock, ReadLock, Install
<1>3. Held /\ Even => StoredPlanIsReadable
  <2> SUFFICES ASSUME Held, Even, NEW h \in Hosts, plans[h] # Nothing
               PROVE  LET stored == NormalizedPlan(plans[h])
                      IN  /\ ValidPlan(stored, "authoring")
                          /\ \A mode \in Modes :
                                ValidFields(stored, mode)
                                   <=> ValidFields(plans[h], mode)
                          /\ NormalizedPlan(stored) = stored
    BY Zenon DEF StoredPlanIsReadable
  <2>1. SoundPlan(plans[h]) /\ PlainPlan(plans[h])
    BY DEF Held
  <2>2. /\ SoundPlan(NormalizedPlan(plans[h]))
        /\ \A mode : ValidFields(NormalizedPlan(plans[h]), mode)
                        <=> ValidFields(plans[h], mode)
    BY <2>1, PlanStaysValid
  <2>3. NormalizedPlan(NormalizedPlan(plans[h])) = NormalizedPlan(plans[h])
    BY <2>1, <2>2, PlanAgain
  <2> QED
    BY <2>2, <2>3 DEF SoundPlan
<1>4. Spec => []Held
  BY HeldAlways
<1> QED
  BY <1>1, <1>2, <1>3, <1>4, PTL DEF Spec

(* A lock file is read back and says what was resolved, and the hosts that *)
(* chose the same variants write the same file                             *)
(* (EnvironmentLock::normalized, to_toml_string).                          *)
THEOREM LockFiles ==
  ASSUME PlansKept, SpellingsDiffer
  PROVE  Spec => []LockFilesHold
<1> DEFINE Even == /\ \A h \in Hosts :
                         locks[h] # Nothing => SpelledOnce(locks[h].tools)
                   /\ lock_file # Nothing =>
                         /\ ValidLock(lock_file, "local")
                         /\ SpelledOnce(lock_file.tools)
                         /\ lock_file.plan.upper = FALSE
<1>1. Init => Even
  BY DEF Init
<1>2. Held /\ Even /\ [Next]_vars => Even'
  <2> SUFFICES ASSUME Held, Even, [Next]_vars
               PROVE  Even'
    OBVIOUS
  <2>1. ASSUME NEW h \in Hosts, Resolve(h)
        PROVE  Even'
    <3>1. \E tools, plan :
             /\ tools \in Resolutions
             /\ locks' = [locks EXCEPT
                             ![h] = [plan |-> plan, tools |-> tools]]
      BY <2>1 DEF Resolve
    <3>2. PICK tools, plan :
             /\ tools \in Resolutions
             /\ locks' = [locks EXCEPT
                             ![h] = [plan |-> plan, tools |-> tools]]
      BY <3>1, Zenon
    <3> DEFINE lock == [plan |-> plan, tools |-> tools]
    <3>3. lock.tools = tools /\ locks' = [locks EXCEPT ![h] = lock]
      BY <3>2
    <3>4. SpelledOnce(lock.tools)
      BY <3>2, <3>3 DEF SpellingsDiffer
    <3> HIDE DEF lock
    <3>5. lock_file' = lock_file
      BY <2>1 DEF Resolve
    <3>6. ASSUME NEW g \in Hosts, locks'[g] # Nothing
          PROVE  SpelledOnce(locks'[g].tools)
      <4>1. locks'[g] = lock \/ locks'[g] = locks[g]
        BY <3>3 DEF Held
      <4> QED
        BY <3>4, <3>6, <4>1
    <3> QED
      BY <3>5, <3>6
  <2>2. ASSUME NEW h \in Hosts, WriteLock(h)
        PROVE  Even'
    <3>1. /\ IsLock(locks[h]) /\ ValidLock(locks[h], "local")
          /\ SpelledOnce(locks[h].tools)
          /\ lock_file' = NormalizedLock(locks[h]) /\ locks' = locks
      BY <2>2 DEF WriteLock, Held, LockHolds
    <3>2. /\ ValidLock(NormalizedLock(locks[h]), "local")
          /\ SpelledOnce(NormalizedLock(locks[h]).tools)
          /\ NormalizedLock(locks[h]).plan = Lower(locks[h].plan)
      BY <3>1, LockNormal, LockStaysValid
    <3>3. Lower(locks[h].plan).upper = FALSE
      BY <3>1, LowerIsDigest DEF IsLock
    <3> QED
      BY <3>1, <3>2, <3>3
  <2>3. ASSUME NEW h \in Hosts, ReadLock(h)
        PROVE  Even'
    BY <2>3 DEF ReadLock, Held
  <2>4. ASSUME UNCHANGED <<lock_file, locks>>
        PROVE  Even'
    BY <2>4
  <2> QED
    BY <2>1, <2>2, <2>3, <2>4
       DEF Next, vars, EditPlan, LoadPlan, StorePlan, Install
<1>3. Held /\ Even => WrittenLockIsReadable
  <2> SUFFICES ASSUME Held, Even, lock_file # Nothing
               PROVE  /\ ValidLock(lock_file, "local")
                      /\ \E r \in resolved :
                            /\ r.digest = lock_file.plan
                            /\ Pins(lock_file.tools) = r.pins
    BY DEF WrittenLockIsReadable
  <2>1. LockHolds(lock_file) /\ IsDigest(lock_file.plan)
        /\ lock_file.plan.upper = FALSE
    BY DEF Held, LockHolds, IsLock
  <2>2. PICK r \in resolved : /\ r.digest.of = lock_file.plan.of
                              /\ r.pins = Pins(lock_file.tools)
    BY <2>1 DEF LockHolds, ResolvedTo
  <2>3. PICK p : r.digest = PlanDigest(p)
    BY DEF Held, ResolutionsHold
  <2>4. r.digest = [of |-> r.digest.of, upper |-> FALSE, whole |-> TRUE]
    BY <2>3, DigestOf
  <2>5. lock_file.plan
           = [of |-> lock_file.plan.of, upper |-> FALSE, whole |-> TRUE]
    BY <2>1 DEF LockHolds, IsDigest
  <2> QED
    BY <2>2, <2>4, <2>5
<1>4. Held /\ Even => LockOrderDoesNotMatter
  <2> SUFFICES ASSUME Held, Even, NEW g \in Hosts, NEW h \in Hosts,
                      locks[g] # Nothing, locks[h] # Nothing,
                      ValidLock(locks[g], "local"),
                      ValidLock(locks[h], "local"),
                      LockMeaning(locks[g]) = LockMeaning(locks[h])
               PROVE  NormalizedLock(locks[g]) = NormalizedLock(locks[h])
    BY DEF LockOrderDoesNotMatter
  <2>1. /\ IsLock(locks[g]) /\ SpelledOnce(locks[g].tools)
        /\ IsLock(locks[h]) /\ SpelledOnce(locks[h].tools)
    BY DEF Held, LockHolds
  <2> QED
    BY <2>1, LockTold
<1>5. Held /\ Even => LockFilesHold
  BY <1>3, <1>4 DEF LockFilesHold
<1>6. Spec => []Held
  BY HeldAlways
<1> QED
  BY <1>1, <1>2, <1>5, <1>6, PTL DEF Spec

-----------------------------------------------------------------------------
(* Tasks: the search of validate_tasks. *)

(* The tasks t refers to, as visit_task sees them. *)
Successors(t) == {Canonical(name) : name \in given.references[t] \ Patterns}

(* The aliases of the tasks in T are recorded, and clash with nothing. *)
Collected(T) ==
    \A t \in T : \A alias \in given.aliases[t] :
        aliasOf[alias] = t /\ (alias \in given.tasks => alias = t)

(* A recorded alias was declared by its task; the passes collect what they *)
(* have met. *)
AliasInv ==
    /\ \A name \in Names : aliasOf[name] # NoTask =>
          aliasOf[name] \in given.tasks /\ name \in given.aliases[aliasOf[name]]
    /\ pass = "aliases" => Collected(given.tasks \ todo)
    /\ pass \in {"references", "visit"} => Collected(given.tasks)

ReferenceInv ==
    LET Closed(T) ==
            \A t \in T : \A name \in given.references[t] : ~Dangling(name)
    IN  /\ pass = "references" => Closed(given.tasks \ todo)
        /\ pass = "visit" => Closed(given.tasks)

(* The stack is a path of distinct tasks being visited. *)
StackInv ==
    /\ \A i \in 1..Len(stack) : stack[i] \in visiting
    /\ \A t \in visiting : \E i \in 1..Len(stack) : stack[i] = t
    /\ \A i, j \in 1..Len(stack) : i # j => stack[i] # stack[j]
    /\ \A i \in 1..(Len(stack) - 1) : stack[i + 1] \in Successors(stack[i])
    /\ \A t \in visiting : pending[t] \subseteq given.references[t]
    /\ \A t \in visiting : t \notin visited

(* A reference that is no longer pending led to a visited task, or to the  *)
(* next one on the stack. *)
FollowedInv ==
    \A i \in 1..Len(stack) :
        \A name \in given.references[stack[i]]
                      \ (Patterns \cup pending[stack[i]]) :
            \/ Canonical(name) \in visited
            \/ i < Len(stack) /\ Canonical(name) = stack[i + 1]

VisitedInv ==
    /\ \A t \in visited : Successors(t) \subseteq visited
    /\ \A S \in SUBSET visited : S # {} =>
          \E t \in S : Successors(t) \cap S = {}

ProgressInv ==
    /\ pass \in {"aliases", "references"} =>
          stack = <<>> /\ visiting = {} /\ visited = {}
    /\ pass = "visit" => given.tasks \subseteq todo \cup visiting \cup visited

VerdictInv ==
    /\ pass # "done" => verdict = Running
    /\ verdict.kind = "ok" => Decision!Acyclic
    /\ verdict.kind = "cycle" => Decision!IsCycle(verdict.cycle)

IInv == /\ TypeOK /\ AliasInv /\ ReferenceInv /\ StackInv /\ FollowedInv
        /\ VisitedInv /\ ProgressInv /\ VerdictInv

-----------------------------------------------------------------------------
(* Once the aliases are collected a name has at most one owner, the task   *)
(* that Canonical finds.                                                   *)
LEMMA OwnersAreCanonical ==
    ASSUME TypeOK, AliasInv, pass \in {"references", "visit"}
    PROVE  /\ \A name \in Names :
                 Decision!Owners(name) = {Canonical(name)} \cap given.tasks
           /\ ~Decision!Ambiguous
<1>1. Collected(given.tasks)
  BY DEF AliasInv
<1>2. ASSUME NEW name \in Names, NEW t \in given.tasks,
             t = name \/ name \in given.aliases[t]
      PROVE  t = Canonical(name)
  <2>1. CASE name \in given.aliases[t]
    BY <1>1, <2>1, PlansAssumption DEF Collected, Canonical, TypeOK, Plan
  <2>2. CASE t = name
    <3>1. CASE aliasOf[name] = NoTask
      BY <2>2, <3>1 DEF Canonical
    <3>2. CASE aliasOf[name] # NoTask
      BY <1>1, <2>2, <3>2 DEF Collected, Canonical, AliasInv
    <3> QED
      BY <3>1, <3>2
  <2> QED
    BY <1>2, <2>1, <2>2
<1>3. ASSUME NEW name \in Names, Canonical(name) \in given.tasks
      PROVE  \/ Canonical(name) = name
             \/ name \in given.aliases[Canonical(name)]
  BY <1>3 DEF AliasInv, Canonical
<1>4. \A name \in Names :
          Decision!Owners(name) = {Canonical(name)} \cap given.tasks
  BY <1>2, <1>3 DEF Decision!Owners
<1>5. ~Decision!Ambiguous
  BY <1>4 DEF Decision!Ambiguous
<1> QED
  BY <1>4, <1>5

(* In the third pass the search sees the declared successors.              *)
LEMMA SuccessorsAgree ==
    ASSUME TypeOK, AliasInv, ReferenceInv, pass = "visit"
    PROVE  /\ \A t \in given.tasks :
                 /\ Decision!Successors(t) = Successors(t)
                 /\ Successors(t) \subseteq given.tasks
           /\ ~Decision!Dangling
<1>1. \A name \in Names :
          Decision!Owners(name) = {Canonical(name)} \cap given.tasks
  BY OwnersAreCanonical
<1>2. ASSUME NEW t \in given.tasks, NEW name \in given.references[t] \ Patterns
      PROVE  name \in Names /\ Canonical(name) \in given.tasks
  <2>1. name \in Names
    BY DEF TypeOK, Plan
  <2>2. ~Dangling(name)
    BY DEF ReferenceInv
  <2> QED
    BY <2>1, <2>2 DEF Dangling, Canonical, AliasInv
<1>3. \A t \in given.tasks : \A name \in given.references[t] \ Patterns :
          Decision!Owners(name) = {Canonical(name)}
  BY <1>1, <1>2
<1>4. \A t \in given.tasks : Decision!Successors(t) = Successors(t)
  BY <1>3 DEF Decision!Successors, Successors
<1>5. ~Decision!Dangling
  BY <1>3 DEF Decision!Dangling
<1> QED
  BY <1>2, <1>4, <1>5 DEF Successors

-----------------------------------------------------------------------------
(* The initial states.                                                     *)
LEMMA InitIInv == TaskInit => IInv
<1> SUFFICES ASSUME TaskInit PROVE IInv
  OBVIOUS
<1>1. TypeOK
  BY PlansAssumption, EmptySeq DEF TaskInit, TypeOK, Verdict, Running
<1>2. AliasInv /\ ReferenceInv
  BY DEF TaskInit, AliasInv, ReferenceInv, Collected
<1>3. StackInv /\ FollowedInv
  BY DEF TaskInit, StackInv, FollowedInv
<1>4. VisitedInv /\ ProgressInv
  BY DEF TaskInit, VisitedInv, ProgressInv
<1>5. VerdictInv
  BY DEF TaskInit, VerdictInv, Running
<1> QED
  BY <1>1, <1>2, <1>3, <1>4, <1>5 DEF IInv

(* A step that leaves the search alone keeps its part of the invariant.    *)
LEMMA SearchUnchanged ==
    ASSUME UNCHANGED <<given, aliasOf, stack, pending, visiting, visited>>,
           StackInv, FollowedInv, VisitedInv
    PROVE  StackInv' /\ FollowedInv' /\ VisitedInv'
<1>1. \A u : (Successors(u))' = Successors(u)
  BY DEF Successors, Canonical
<1>2. StackInv'
  <2>1. \A i \in 1..(Len(stack) - 1) : stack[i + 1] \in (Successors(stack[i]))'
    BY <1>1 DEF StackInv
  <2> QED
    BY <2>1 DEF StackInv
<1>3. FollowedInv'
  BY DEF FollowedInv, Canonical
<1>4. VisitedInv'
  BY <1>1 DEF VisitedInv
<1> QED
  BY <1>2, <1>3, <1>4

(* The first two passes.                                                   *)
LEMMA CollectStep ==
    ASSUME IInv, NEW t \in todo, CollectAliases(t)
    PROVE  IInv'
<1> USE DEF CollectAliases
<1>1. t \in given.tasks /\ given \in Plan
  BY DEF IInv, TypeOK
<1>2. TypeOK'
  BY <1>1, PlansAssumption DEF IInv, TypeOK
<1>3. stack = <<>> /\ visiting = {} /\ visited = {}
  BY DEF IInv, ProgressInv
<1>4. AliasInv'
  <2>1. \A name \in Names : aliasOf'[name] # NoTask =>
            /\ aliasOf'[name] \in given.tasks
            /\ name \in given.aliases[aliasOf'[name]]
    BY <1>1 DEF IInv, TypeOK, AliasInv
  <2>2. \A name \in Names : name \in given.aliases[t] => ~Clashes(t, name)
    OBVIOUS
  <2>3. \A u \in (given.tasks \ todo)' : \A alias \in given.aliases[u] :
            aliasOf'[alias] = u /\ (alias \in given.tasks => alias = u)
    <3> TAKE u \in (given.tasks \ todo)'
    <3> TAKE alias \in given.aliases[u]
    <3>1. u \in given.tasks /\ alias \in Names
      BY <1>1 DEF Plan
    <3>2. CASE u = t
      BY <1>1, <3>1, <3>2, <2>2 DEF Clashes
    <3>3. CASE u # t
      <4>1. aliasOf[alias] = u /\ (alias \in given.tasks => alias = u)
        BY <3>1, <3>3 DEF IInv, AliasInv, Collected
      <4>2. alias \notin given.aliases[t]
        BY <3>1, <3>3, <4>1, <2>2, <1>1, PlansAssumption
        DEF Clashes, Plan
      <4> QED
        BY <3>1, <4>1, <4>2
    <3> QED
      BY <3>2, <3>3
  <2>4. pass' = "aliases" /\ given' = given
    OBVIOUS
  <2> QED
    BY <2>1, <2>3, <2>4 DEF AliasInv, Collected
<1>5. ReferenceInv'
  BY DEF ReferenceInv
<1>6. StackInv' /\ FollowedInv' /\ VisitedInv'
  BY <1>3 DEF StackInv, FollowedInv, VisitedInv
<1>7. ProgressInv' /\ VerdictInv'
  BY <1>3 DEF IInv, ProgressInv, VerdictInv, Running
<1> QED
  BY <1>2, <1>4, <1>5, <1>6, <1>7 DEF IInv

LEMMA CheckStep ==
    ASSUME IInv, NEW t \in todo, CheckReferences(t)
    PROVE  IInv'
<1> USE DEF CheckReferences
<1>1. TypeOK'
  BY DEF IInv, TypeOK
<1>2. AliasInv'
  BY DEF IInv, AliasInv, Collected
<1>3. ReferenceInv'
  BY DEF IInv, ReferenceInv, Dangling
<1>4. StackInv' /\ FollowedInv' /\ VisitedInv'
  BY SearchUnchanged DEF IInv
<1>5. ProgressInv' /\ VerdictInv'
  BY DEF IInv, ProgressInv, VerdictInv, Running
<1> QED
  BY <1>1, <1>2, <1>3, <1>4, <1>5 DEF IInv

LEMMA NextPassStep == ASSUME IInv, NextPass PROVE IInv'
<1> USE DEF NextPass
<1>1. TypeOK'
  BY DEF IInv, TypeOK
<1>2. AliasInv'
  BY DEF IInv, AliasInv, Collected
<1>3. ReferenceInv'
  BY DEF IInv, ReferenceInv, Dangling
<1>4. StackInv' /\ FollowedInv' /\ VisitedInv'
  BY SearchUnchanged DEF IInv
<1>5. ProgressInv' /\ VerdictInv'
  BY DEF IInv, ProgressInv, VerdictInv, Running
<1> QED
  BY <1>1, <1>2, <1>3, <1>4, <1>5 DEF IInv

LEMMA RejectStep ==
    ASSUME IInv, NEW t \in todo, RejectAlias(t) \/ RejectReference(t)
    PROVE  IInv'
<1> USE DEF RejectAlias, RejectReference, Finish
<1>1. TypeOK'
  BY DEF IInv, TypeOK, Verdict
<1>2. AliasInv' /\ ReferenceInv'
  BY DEF IInv, AliasInv, ReferenceInv
<1>3. StackInv' /\ FollowedInv' /\ VisitedInv'
  BY SearchUnchanged DEF IInv
<1>4. ProgressInv' /\ VerdictInv'
  BY DEF IInv, ProgressInv, VerdictInv
<1> QED
  BY <1>1, <1>2, <1>3, <1>4 DEF IInv
-----------------------------------------------------------------------------
(* The third pass.  A call that enters a task not met before extends the   *)
(* path, whether it is an outermost call or one from the top of the stack. *)
LEMMA EnterStep ==
    ASSUME TypeOK, StackInv, FollowedInv, VisitedInv,
           NEW t \in given.tasks, t \notin visiting, t \notin visited,
           stack # <<>> => t \in Successors(stack[Len(stack)]),
           Enter(t), UNCHANGED <<given, aliasOf, visited>>,
           pending'[t] = given.references[t],
           \A u \in visiting : pending'[u] \subseteq pending[u],
           \A i \in 1..Len(stack) :
               \A name \in pending[stack[i]] \ pending'[stack[i]] :
                   i = Len(stack) /\ Canonical(name) = t
    PROVE  StackInv' /\ FollowedInv' /\ VisitedInv'
<1> DEFINE n == Len(stack)
<1>1. /\ n \in Nat
      /\ \A i \in 1..n : stack[i] \in given.tasks
  BY LenProperties DEF TypeOK
<1>2. /\ Len(stack') = n + 1
      /\ \A i \in 1..n : stack'[i] = stack[i]
      /\ stack'[n + 1] = t
  BY AppendProperties DEF Enter, TypeOK
<1>3. visiting' = visiting \cup {t}
  BY DEF Enter
<1>4. \A u : Successors(u)' = Successors(u)
  BY DEF Successors, Canonical
<1>5. n > 0 => stack # <<>>
  BY <1>1, EmptySeq
<1>6. StackInv'
  <2>1. \A i \in 1..(n + 1) : stack'[i] \in visiting'
    BY <1>1, <1>2, <1>3 DEF StackInv
  <2>2. \A u \in visiting' : \E i \in 1..(n + 1) : stack'[i] = u
    <3> TAKE u \in visiting'
    <3>1. CASE u = t
      BY <1>1, <1>2, <3>1
    <3>2. CASE u \in visiting
      <4>1. PICK i \in 1..n : stack[i] = u
        BY <3>2 DEF StackInv
      <4> QED
        BY <1>1, <1>2, <4>1
    <3> QED
      BY <1>3, <3>1, <3>2
  <2>3. \A i, j \in 1..(n + 1) : i # j => stack'[i] # stack'[j]
    <3>1. \A i \in 1..n : stack'[i] # t
      BY <1>2 DEF StackInv
    <3> QED
      BY <1>1, <1>2, <3>1 DEF StackInv
  <2>4. \A i \in 1..n : stack'[i + 1] \in Successors(stack'[i])
    <3> TAKE i \in 1..n
    <3>1. CASE i = n
      BY <1>1, <1>2, <1>5, <3>1
    <3>2. CASE i < n
      <4>1. i \in 1..(n - 1) /\ i + 1 \in 1..n
        BY <1>1, <3>2
      <4> QED
        BY <1>2, <4>1 DEF StackInv
    <3> QED
      BY <1>1, <3>1, <3>2
  <2>5. \A u \in visiting' : pending'[u] \subseteq given.references[u]
    BY <1>3 DEF StackInv
  <2>6. \A u \in visiting' : u \notin visited
    BY <1>3 DEF StackInv
  <2> QED
    <3>1. \A i \in 1..(Len(stack') - 1) :
              stack'[i + 1] \in (Successors(stack[i]))'
      BY <1>1, <1>2, <2>4 DEF Successors, Canonical
    <3>2. /\ \A i \in 1..Len(stack') : stack'[i] \in visiting'
          /\ \A u \in visiting' : \E i \in 1..Len(stack') : stack'[i] = u
          /\ \A i, j \in 1..Len(stack') : i # j => stack'[i] # stack'[j]
      BY <1>2, <2>1, <2>2, <2>3
    <3> QED
      BY <3>1, <3>2, <2>5, <2>6 DEF StackInv
<1>7. FollowedInv'
  <2> SUFFICES ASSUME NEW i \in 1..(n + 1),
                      NEW name \in given.references[stack'[i]]
                                   \ (Patterns \cup pending'[stack'[i]])
               PROVE  \/ Canonical(name) \in visited
                      \/ i < n + 1 /\ Canonical(name) = stack'[i + 1]
    BY <1>2 DEF FollowedInv, Canonical
  <2>1. i \in 1..n
    BY <1>1, <1>2
  <2>2. CASE name \in pending[stack[i]]
    BY <1>1, <1>2, <2>1, <2>2
  <2>3. CASE name \notin pending[stack[i]]
    <3>1. \/ Canonical(name) \in visited
          \/ i < n /\ Canonical(name) = stack[i + 1]
      BY <1>2, <2>1, <2>3 DEF FollowedInv
    <3> QED
      BY <1>1, <1>2, <2>1, <3>1
  <2> QED
    BY <2>2, <2>3
<1>8. VisitedInv'
  BY <1>4 DEF VisitedInv
<1> QED
  BY <1>6, <1>7, <1>8

LEMMA VisitStep ==
    ASSUME IInv, NEW t \in todo, VisitTask(t)
    PROVE  IInv'
<1> DEFINE c == Canonical(t)
<1>1. /\ pass = "visit" /\ stack = <<>> /\ t \in given.tasks
      /\ UNCHANGED <<given, pass, aliasOf, visited, verdict>>
      /\ todo' = todo \ {t}
  BY DEF VisitTask, IInv, TypeOK
<1>2. c = t
  BY <1>1 DEF IInv, TypeOK, Plan, AliasInv, Collected, Canonical
<1>3. Len(stack) = 0 /\ visiting = {}
  BY <1>1, EmptySeq DEF IInv, StackInv
<1>4. AliasInv' /\ ReferenceInv' /\ VerdictInv'
  BY <1>1 DEF IInv, AliasInv, Collected, ReferenceInv, Dangling, VerdictInv,
              Running
<1>5. CASE t \in visited
  <2>1. UNCHANGED <<stack, pending, visiting>>
    BY <1>2, <1>5 DEF VisitTask
  <2>2. TypeOK' /\ ProgressInv'
    BY <1>1, <1>5, <2>1 DEF IInv, TypeOK, ProgressInv
  <2>3. StackInv' /\ FollowedInv' /\ VisitedInv'
    BY <1>1, <2>1, SearchUnchanged DEF IInv
  <2> QED
    BY <1>4, <2>2, <2>3 DEF IInv
<1>6. CASE t \notin visited
  <2>1. /\ Enter(t)
        /\ pending' = [pending EXCEPT ![t] = given.references[t]]
    BY <1>2, <1>6 DEF VisitTask
  <2>2. pending'[t] = given.references[t]
    BY <1>1, <2>1 DEF IInv, TypeOK, Plan
  <2>3. TypeOK'
    BY <1>1, <2>1, AppendProperties DEF IInv, TypeOK, Enter, Plan
  <2>4. StackInv' /\ FollowedInv' /\ VisitedInv'
    BY <1>1, <1>3, <1>6, <2>1, <2>2, EnterStep DEF IInv
  <2>5. ProgressInv'
    BY <1>1, <2>1 DEF IInv, ProgressInv, Enter
  <2> QED
    BY <1>4, <2>3, <2>4, <2>5 DEF IInv
<1> QED
  BY <1>5, <1>6

(* A reference that leads nowhere new is crossed off.                      *)
LEMMA SkipStep ==
    ASSUME IInv, NEW name \in Names, pass = "visit", stack # <<>>,
           name \in pending[stack[Len(stack)]], Skipped(name),
           pending' = [pending EXCEPT ![stack[Len(stack)]] = @ \ {name}],
           UNCHANGED <<given, pass, todo, aliasOf, stack, visiting, visited,
                       verdict>>
    PROVE  IInv'
<1> DEFINE t == stack[Len(stack)]
<1>1. /\ Len(stack) \in Nat /\ Len(stack) > 0
      /\ \A i \in 1..Len(stack) : stack[i] \in given.tasks /\ stack[i] \in Names
  BY EmptySeq, LenProperties DEF IInv, TypeOK, Plan
<1>2. name \notin Patterns => Canonical(name) \in visited
  BY SuccessorsAgree, <1>1 DEF IInv, StackInv, Skipped, Successors
<1>3. TypeOK'
  BY <1>1 DEF IInv, TypeOK
<1>4. AliasInv' /\ ReferenceInv' /\ VerdictInv'
  BY DEF IInv, AliasInv, Collected, ReferenceInv, Dangling, VerdictInv, Running
<1>5. StackInv'
  <2>1. \A u \in visiting : pending'[u] \subseteq given.references[u]
    BY DEF IInv, TypeOK, Plan, StackInv
  <2>2. \A u : (Successors(u))' = Successors(u)
    BY DEF Successors, Canonical
  <2>3. \A i \in 1..(Len(stack) - 1) : stack[i + 1] \in Successors(stack[i])
    BY DEF IInv, StackInv
  <2>4. \A i \in 1..(Len(stack) - 1) : stack[i + 1] \in (Successors(stack[i]))'
    BY <2>2, <2>3
  <2> QED
    BY <2>1, <2>4 DEF IInv, StackInv
<1>6. FollowedInv'
  <2> SUFFICES ASSUME NEW i \in 1..Len(stack),
                      NEW r \in given.references[stack[i]]
                                \ (Patterns \cup pending'[stack[i]])
               PROVE  \/ Canonical(r) \in visited
                      \/ i < Len(stack) /\ Canonical(r) = stack[i + 1]
    BY DEF FollowedInv, Canonical
  <2>1. CASE r \in pending[stack[i]]
    BY <1>1, <1>2, <2>1 DEF IInv, TypeOK
  <2>2. CASE r \notin pending[stack[i]]
    BY <2>2 DEF IInv, FollowedInv
  <2> QED
    BY <2>1, <2>2
<1>7. VisitedInv' /\ ProgressInv'
  <2>1. \A u : Successors(u)' = Successors(u)
    BY DEF Successors, Canonical
  <2> QED
    BY <2>1 DEF IInv, VisitedInv, ProgressInv
<1> QED
  BY <1>3, <1>4, <1>5, <1>6, <1>7 DEF IInv
(* A reference to a task not met before is a call.                         *)
LEMMA CallStep ==
    ASSUME IInv, NEW name \in Names, pass = "visit", stack # <<>>,
           NEW t, t = stack[Len(stack)],
           NEW next, next = Canonical(name),
           name \in pending[t], ~Skipped(name), next \notin visiting,
           Enter(next),
           pending' = [pending EXCEPT ![t] = @ \ {name},
                                      ![next] = given.references[next]],
           UNCHANGED <<given, pass, todo, aliasOf, visited, verdict>>
    PROVE  IInv'
<1>1. /\ Len(stack) \in Nat /\ Len(stack) > 0
      /\ \A i \in 1..Len(stack) : stack[i] \in given.tasks /\ stack[i] \in Names
  BY EmptySeq, LenProperties DEF IInv, TypeOK, Plan
<1>2. /\ t \in given.tasks /\ t \in visiting /\ t \in Names
      /\ next \in given.tasks /\ next \in Names /\ next \notin visited
      /\ name \notin Patterns
  BY <1>1 DEF IInv, TypeOK, Plan, StackInv, Skipped
<1>3. next \in Successors(stack[Len(stack)])
  BY <1>2 DEF IInv, StackInv, Successors
<1>4. /\ pending'[next] = given.references[next]
      /\ \A u \in visiting : pending'[u] \subseteq pending[u]
      /\ \A i \in 1..Len(stack) :
             \A r \in pending[stack[i]] \ pending'[stack[i]] :
                 i = Len(stack) /\ Canonical(r) = next
  <2>1. pending \in [Names -> SUBSET Names] /\ t # next
    BY <1>2 DEF IInv, TypeOK
  <2>2. \A u \in visiting : u \in Names /\ u # next
    BY DEF IInv, TypeOK, Plan
  <2>3. \A u \in visiting :
            pending'[u] = IF u = t THEN pending[t] \ {name} ELSE pending[u]
    BY <1>2, <2>1, <2>2
  <2>4. \A i \in 1..Len(stack) : stack[i] = t => i = Len(stack)
    BY <1>1 DEF IInv, StackInv
  <2>5. \A i \in 1..Len(stack) : stack[i] \in visiting
    BY DEF IInv, StackInv
  <2> QED
    BY <1>2, <2>1, <2>3, <2>4, <2>5
<1>5. StackInv' /\ FollowedInv' /\ VisitedInv'
  BY <1>2, <1>3, <1>4, EnterStep DEF IInv
<1>6. TypeOK'
  BY <1>2, AppendProperties DEF IInv, TypeOK, Enter, Plan
<1>7. AliasInv' /\ ReferenceInv' /\ VerdictInv'
  BY DEF IInv, AliasInv, Collected, ReferenceInv, Dangling, VerdictInv, Running
<1>8. ProgressInv'
  BY DEF IInv, ProgressInv, Enter
<1> QED
  BY <1>5, <1>6, <1>7, <1>8 DEF IInv

(* What the error reports when a reference leads back to the path.         *)
LEMMA CycleIsReal ==
    ASSUME IInv, NEW name \in Names, pass = "visit", stack # <<>>,
           NEW t, t = stack[Len(stack)],
           NEW next, next = Canonical(name),
           name \in pending[t], ~Skipped(name), next \in visiting
    PROVE  Decision!IsCycle(CycleTo(next)) /\ CycleTo(next) \in Seq(Names)
<1> DEFINE n == Len(stack)
           start == CHOOSE i \in 1..n : stack[i] = next
           part == SubSeq(stack, start, n)
           c == CycleTo(next)
<1>1. /\ n \in Nat /\ n > 0
      /\ \A i \in 1..n : stack[i] \in given.tasks /\ stack[i] \in Names
  BY EmptySeq, LenProperties DEF IInv, TypeOK, Plan
<1>2. start \in 1..n /\ stack[start] = next
  BY DEF IInv, StackInv
<1>3. next \in given.tasks /\ next \in Names
  BY <1>1, <1>2
<1>4. next \in Successors(t)
  BY <1>1 DEF IInv, StackInv, Skipped, Successors
<1>5. /\ part \in Seq(Names)
      /\ Len(part) = n - start + 1
      /\ \A i \in 1..(n - start + 1) : part[i] = stack[start + i - 1]
  <2>1. \A i \in start..n : stack[i] \in Names
    BY <1>1, <1>2
  <2> HIDE DEF start
  <2> QED
    BY <1>1, <1>2, <2>1, SubSeqProperties
<1> DEFINE m == n - start + 1
<1>6. /\ c \in Seq(Names)
      /\ Len(c) = m + 1
      /\ \A i \in 1..m : c[i] = stack[start + i - 1]
      /\ c[m + 1] = next
  <2>1. c = Append(part, next)
    BY DEF CycleTo
  <2> HIDE DEF start, part, c
  <2> QED
    BY <1>3, <1>5, <2>1, AppendProperties
<1> HIDE DEF start, part, c
<1>7. m \in Nat /\ m > 0 /\ \A i \in 1..m : start + i - 1 \in 1..n
  BY <1>1, <1>2
<1>8. c[1] = c[Len(c)]
  BY <1>1, <1>2, <1>6, <1>7
<1>9. \A i \in 1..Len(c) : c[i] \in given.tasks
  <2> TAKE i \in 1..Len(c)
  <2>1. CASE i = m + 1
    BY <1>3, <1>6, <2>1
  <2>2. CASE i # m + 1
    <3>1. i \in 1..m
      BY <1>6, <1>7, <2>2
    <3>2. c[i] = stack[start + i - 1] /\ start + i - 1 \in 1..n
      BY <1>6, <1>7, <3>1
    <3> QED
      BY <1>1, <3>2
  <2> QED
    BY <2>1, <2>2
<1>10. \A i \in 1..(Len(c) - 1) : c[i + 1] \in Decision!Successors(c[i])
  <2> TAKE i \in 1..(Len(c) - 1)
  <2>1. i \in 1..m /\ c[i] = stack[start + i - 1]
    BY <1>6, <1>7
  <2>2. c[i] \in given.tasks
    BY <1>1, <1>7, <2>1
  <2>3. CASE i = m
    <3>1. c[i] = t /\ c[i + 1] = next
      BY <1>1, <1>2, <1>6, <2>1, <2>3
    <3> QED
      BY <1>4, <2>2, <3>1, SuccessorsAgree DEF IInv
  <2>4. CASE i < m
    <3>1. c[i + 1] = stack[start + i]
      BY <1>2, <1>6, <1>7, <2>1, <2>4
    <3>2. start + i - 1 \in 1..(n - 1)
      BY <1>1, <1>2, <2>1, <2>4
    <3>3. stack[(start + i - 1) + 1] \in Successors(stack[start + i - 1])
      BY <3>2 DEF IInv, StackInv
    <3>4. (start + i - 1) + 1 = start + i
      BY <1>2, <2>1
    <3> QED
      BY <2>1, <2>2, <3>1, <3>3, <3>4, SuccessorsAgree DEF IInv
  <2> QED
    BY <1>7, <2>1, <2>3, <2>4
<1>11. \A i, j \in 1..(Len(c) - 1) : i # j => c[i] # c[j]
  <2> TAKE i, j \in 1..(Len(c) - 1)
  <2> HAVE i # j
  <2>1. /\ i \in 1..m /\ j \in 1..m
        /\ c[i] = stack[start + i - 1] /\ c[j] = stack[start + j - 1]
    BY <1>6, <1>7
  <2>2. start + i - 1 # start + j - 1
    BY <1>2, <2>1
  <2> QED
    BY <1>7, <2>1, <2>2 DEF IInv, StackInv
<1>12. Len(c) > 1
  BY <1>6, <1>7
<1>13. Decision!IsCycle(c)
  BY <1>12, <1>8, <1>9, <1>10, <1>11 DEF Decision!IsCycle
<1> QED
  BY <1>6, <1>13 DEF c

LEMMA FollowStep ==
    ASSUME IInv, NEW name \in Names, Follow(name)
    PROVE  IInv'
<1> DEFINE t == stack[Len(stack)]
           next == Canonical(name)
<1>1. /\ pass = "visit" /\ stack # <<>> /\ name \in pending[t]
      /\ UNCHANGED <<given, todo, aliasOf, visited>>
  BY DEF Follow
<1>2. CASE /\ Skipped(name)
           /\ pending' = [pending EXCEPT ![t] = @ \ {name}]
           /\ UNCHANGED <<pass, stack, visiting, verdict>>
  BY <1>1, <1>2, SkipStep
<1>3. CASE /\ ~Skipped(name) /\ next \in visiting
           /\ Finish("cycle", CycleTo(next))
           /\ UNCHANGED <<stack, pending, visiting>>
  <2>1. Decision!IsCycle(CycleTo(next)) /\ CycleTo(next) \in Seq(Names)
    BY <1>1, <1>3, CycleIsReal
  <2>2. /\ pass' = "done"
        /\ verdict' = [kind |-> "cycle", cycle |-> CycleTo(next)]
    BY <1>3 DEF Finish
  <2> DEFINE c == CycleTo(next)
  <2>3. Decision!IsCycle(verdict.cycle)'
    <3>1. verdict'.cycle = c
      BY <2>2
    <3> QED
      BY <1>1, <2>1, <3>1
      DEF Decision!IsCycle, Decision!Successors, Decision!Owners
  <2>4. TypeOK'
    BY <1>1, <1>3, <2>1, <2>2 DEF IInv, TypeOK, Verdict
  <2>5. AliasInv' /\ ReferenceInv' /\ ProgressInv'
    BY <1>1, <1>3, <2>2 DEF IInv, AliasInv, ReferenceInv, ProgressInv
  <2>6. StackInv' /\ FollowedInv' /\ VisitedInv'
    BY <1>1, <1>3, SearchUnchanged DEF IInv
  <2>7. VerdictInv'
    BY <2>2, <2>3 DEF VerdictInv
  <2> QED
    BY <2>4, <2>5, <2>6, <2>7 DEF IInv
<1>4. CASE /\ ~Skipped(name) /\ next \notin visiting
           /\ Enter(next)
           /\ pending' = [pending EXCEPT ![t] = @ \ {name},
                                         ![next] = given.references[next]]
           /\ UNCHANGED <<pass, verdict>>
  BY <1>1, <1>4, CallStep
<1> QED
  BY <1>2, <1>3, <1>4 DEF Follow
LEMMA PrefixProperties ==
    ASSUME NEW S, NEW s \in Seq(S), NEW m \in Nat, m <= Len(s)
    PROVE  /\ SubSeq(s, 1, m) \in Seq(S)
           /\ Len(SubSeq(s, 1, m)) = m
           /\ \A i \in 1..m : SubSeq(s, 1, m)[i] = s[i]
  OBVIOUS

(* A call that returns leaves a task all of whose successors are visited:  *)
(* either the task is a sink of a set it belongs to, or the rest of the    *)
(* set has one, which does not refer to the task.                          *)
LEMMA ReturnStep == ASSUME IInv, Return PROVE IInv'
<1> DEFINE n == Len(stack)
           t == stack[n]
<1>1. /\ pass = "visit" /\ stack # <<>> /\ pending[t] = {}
      /\ stack' = SubSeq(stack, 1, n - 1)
      /\ visiting' = visiting \ {t} /\ visited' = visited \cup {t}
      /\ UNCHANGED <<given, pass, todo, aliasOf, pending, verdict>>
  BY DEF Return
<1>2. /\ n \in Nat /\ n > 0
      /\ \A i \in 1..n : stack[i] \in given.tasks
  BY <1>1, EmptySeq, LenProperties DEF IInv, TypeOK
<1>3. /\ stack' \in Seq(given.tasks)
      /\ Len(stack') = n - 1
      /\ \A i \in 1..(n - 1) : stack'[i] = stack[i]
  <2>1. stack \in Seq(given.tasks) /\ n - 1 \in Nat /\ n - 1 <= Len(stack)
    BY <1>2 DEF IInv, TypeOK
  <2> DEFINE top == n - 1
  <2>2. /\ SubSeq(stack, 1, top) \in Seq(given.tasks)
        /\ Len(SubSeq(stack, 1, top)) = top
        /\ \A i \in 1..top : SubSeq(stack, 1, top)[i] = stack[i]
    BY <2>1, PrefixProperties, Zenon
  <2> QED
    BY <1>1, <2>2
<1>4. t \in given.tasks /\ t \in visiting /\ t \notin visited
  BY <1>2 DEF IInv, StackInv
<1>5. \A i \in 1..(n - 1) : stack[i] # t
  BY <1>2 DEF IInv, StackInv
<1>6. Successors(t) \subseteq visited
  <2> SUFFICES ASSUME NEW name \in given.references[t] \ Patterns
               PROVE  Canonical(name) \in visited
    BY DEF Successors
  <2> QED
    BY <1>1, <1>2 DEF IInv, FollowedInv
<1>7. \A u : Successors(u)' = Successors(u)
  BY <1>1 DEF Successors, Canonical
<1>8. TypeOK'
  BY <1>1, <1>3, <1>4 DEF IInv, TypeOK
<1>9. AliasInv' /\ ReferenceInv' /\ VerdictInv'
  BY <1>1
  DEF IInv, AliasInv, Collected, ReferenceInv, Dangling, VerdictInv, Running
<1>10. StackInv'
  <2>1. \A i \in 1..(n - 1) : stack'[i] \in visiting'
    BY <1>1, <1>2, <1>3, <1>5 DEF IInv, StackInv
  <2>2. \A u \in visiting' : \E i \in 1..(n - 1) : stack'[i] = u
    <3> TAKE u \in visiting'
    <3>1. PICK i \in 1..n : stack[i] = u
      BY <1>1 DEF IInv, StackInv
    <3>2. i \in 1..(n - 1)
      BY <1>1, <1>2, <3>1
    <3> QED
      BY <1>3, <3>1, <3>2
  <2>3. \A i, j \in 1..(n - 1) : i # j => stack'[i] # stack'[j]
    BY <1>2, <1>3 DEF IInv, StackInv
  <2>4. \A i \in 1..(n - 2) : stack'[i + 1] \in Successors(stack'[i])
    <3> TAKE i \in 1..(n - 2)
    <3>1. i \in 1..(n - 1) /\ i + 1 \in 1..(n - 1)
      BY <1>2
    <3> QED
      BY <1>3, <3>1 DEF IInv, StackInv
  <2>5. \A i \in 1..(Len(stack') - 1) :
            stack'[i + 1] \in (Successors(stack[i]))'
    BY <1>1, <1>2, <1>3, <2>4 DEF Successors, Canonical
  <2>6. /\ \A u \in visiting' : pending'[u] \subseteq given'.references[u]
        /\ \A u \in visiting' : u \notin visited'
    BY <1>1 DEF IInv, StackInv
  <2> QED
    BY <1>3, <2>1, <2>2, <2>3, <2>5, <2>6 DEF StackInv
<1>11. FollowedInv'
  <2> SUFFICES ASSUME NEW i \in 1..(n - 1),
                      NEW name \in given.references[stack'[i]]
                                   \ (Patterns \cup pending[stack'[i]])
               PROVE  \/ Canonical(name) \in visited'
                      \/ i < n - 1 /\ Canonical(name) = stack'[i + 1]
    BY <1>1, <1>3 DEF FollowedInv, Canonical
  <2>1. \/ Canonical(name) \in visited
        \/ i < n /\ Canonical(name) = stack[i + 1]
    BY <1>2, <1>3 DEF IInv, FollowedInv
  <2>2. CASE Canonical(name) \in visited
    BY <1>1, <2>2
  <2>3. CASE Canonical(name) = stack[i + 1] /\ i = n - 1
    BY <1>1, <1>2, <2>3
  <2>4. CASE Canonical(name) = stack[i + 1] /\ i < n - 1
    BY <1>2, <1>3, <2>4
  <2> QED
    BY <1>2, <2>1, <2>2, <2>3, <2>4
<1>12. VisitedInv'
  <2>1. \A u \in visited' : Successors(u) \subseteq visited'
    BY <1>1, <1>6 DEF IInv, VisitedInv
  <2>2. ASSUME NEW S \in SUBSET visited', S # {}
        PROVE  \E u \in S : Successors(u) \cap S = {}
    <3> DEFINE R == S \ {t}
    <3>1. R \in SUBSET visited
      BY <1>1
    <3>2. CASE R = {}
      BY <1>4, <1>6, <2>2, <3>2
    <3>3. CASE R # {}
      <4>1. PICK u \in R : Successors(u) \cap R = {}
        BY <3>1, <3>3 DEF IInv, VisitedInv
      <4>2. t \notin Successors(u)
        BY <1>4, <3>1, <4>1 DEF IInv, VisitedInv
      <4> QED
        BY <4>1, <4>2
    <3> QED
      BY <3>2, <3>3
  <2> QED
    BY <1>7, <2>1, <2>2 DEF VisitedInv
<1>13. ProgressInv'
  BY <1>1 DEF IInv, ProgressInv
<1> QED
  BY <1>8, <1>9, <1>10, <1>11, <1>12, <1>13 DEF IInv

(* Acyclicity and cycles depend on the plan alone.                         *)
LEMMA DecisionUnchanged ==
    ASSUME UNCHANGED given
    PROVE  /\ (Decision!Acyclic)' <=> Decision!Acyclic
           /\ (Decision!IsCycle(verdict.cycle))'
                  <=> Decision!IsCycle(verdict'.cycle)
<1>1. \A name : Decision!Owners(name)' = Decision!Owners(name)
  BY DEF Decision!Owners
<1>2. \A t : Decision!Successors(t)' = Decision!Successors(t)
  BY DEF Decision!Successors, Decision!Owners
<1>3. (Decision!Acyclic)' <=> Decision!Acyclic
  BY <1>2 DEF Decision!Acyclic
<1>4. (Decision!IsCycle(verdict.cycle))'
          <=> Decision!IsCycle(verdict'.cycle)
  BY <1>2 DEF Decision!IsCycle
<1> QED
  BY <1>3, <1>4

LEMMA AcceptIsAcyclic == ASSUME IInv, Accept PROVE Decision!Acyclic
<1>1. visiting = {}
  BY EmptySeq DEF Accept, IInv, StackInv
<1>2. given.tasks \subseteq visited
  BY <1>1 DEF Accept, IInv, ProgressInv
<1>3. \A t \in given.tasks : Decision!Successors(t) = Successors(t)
  BY SuccessorsAgree DEF Accept, IInv
<1> QED
  BY <1>2, <1>3 DEF IInv, VisitedInv, Decision!Acyclic

LEMMA AcceptStep == ASSUME IInv, Accept PROVE IInv'
<1> USE DEF Accept, Finish
<1>1. TypeOK'
  BY DEF IInv, TypeOK, Verdict
<1>2. AliasInv' /\ ReferenceInv' /\ ProgressInv'
  BY DEF IInv, AliasInv, ReferenceInv, ProgressInv
<1>3. StackInv' /\ FollowedInv' /\ VisitedInv'
  BY SearchUnchanged DEF IInv
<1>4. VerdictInv'
  <2>1. (Decision!Acyclic)'
    BY AcceptIsAcyclic, DecisionUnchanged
  <2> QED
    BY <2>1 DEF VerdictInv
<1> QED
  BY <1>1, <1>2, <1>3, <1>4 DEF IInv

LEMMA StepIInv == IInv /\ [TaskNext]_taskVars => IInv'
<1> SUFFICES ASSUME IInv, [TaskNext]_taskVars PROVE IInv'
  OBVIOUS
<1>1. ASSUME NEW t \in todo, CollectAliases(t) PROVE IInv'
  BY <1>1, CollectStep
<1>2. ASSUME NEW t \in todo, RejectAlias(t) \/ RejectReference(t) PROVE IInv'
  BY <1>2, RejectStep
<1>3. ASSUME NEW t \in todo, CheckReferences(t) PROVE IInv'
  BY <1>3, CheckStep
<1>4. ASSUME NEW t \in todo, VisitTask(t) PROVE IInv'
  BY <1>4, VisitStep
<1>5. CASE NextPass
  BY <1>5, NextPassStep
<1>6. ASSUME NEW name \in Names, Follow(name) PROVE IInv'
  BY <1>6, FollowStep
<1>7. CASE Return
  BY <1>7, ReturnStep
<1>8. CASE Accept
  BY <1>8, AcceptStep
<1>9. CASE UNCHANGED taskVars
  <2>1. UNCHANGED <<given, aliasOf, stack, pending, visiting, visited>>
    BY <1>9 DEF taskVars
  <2>2. StackInv' /\ FollowedInv' /\ VisitedInv'
    BY <2>1, SearchUnchanged DEF IInv
  <2>3. TypeOK' /\ ProgressInv'
    BY <1>9 DEF taskVars, IInv, TypeOK, ProgressInv
  <2>4. AliasInv' /\ ReferenceInv'
    BY <1>9 DEF taskVars, IInv, AliasInv, Collected, ReferenceInv, Dangling
  <2>5. VerdictInv'
    <3>1. (pass # "done" => verdict = Running)'
      BY <1>9 DEF taskVars, IInv, VerdictInv
    <3>2. (verdict.kind = "ok" => Decision!Acyclic)'
      BY <1>9, DecisionUnchanged DEF taskVars, IInv, VerdictInv
    <3>3. ASSUME verdict.kind = "cycle" PROVE (Decision!IsCycle(verdict.cycle))'
      <4>1. Decision!IsCycle(verdict.cycle) /\ verdict.cycle = verdict'.cycle
        BY <1>9, <3>3 DEF taskVars, IInv, VerdictInv
      <4> QED
        BY <1>9, <4>1, DecisionUnchanged DEF taskVars
    <3> QED
      BY <1>9, <3>1, <3>2, <3>3 DEF taskVars, VerdictInv
  <2> QED
    BY <2>2, <2>3, <2>4, <2>5 DEF IInv
<1> QED
  BY <1>1, <1>2, <1>3, <1>4, <1>5, <1>6, <1>7, <1>8, <1>9 DEF TaskNext

-----------------------------------------------------------------------------
(* The invariant holds in every reachable state.                           *)
THEOREM Invariance == TaskSpec => []IInv
<1>1. TaskInit => IInv
  BY InitIInv
<1>2. IInv /\ [TaskNext]_taskVars => IInv'
  BY StepIInv
<1> QED
  BY <1>1, <1>2, PTL DEF TaskSpec

(* The variables of the three passes keep their types.                     *)
THEOREM TypeCorrect == TaskSpec => []TypeOK
<1>1. IInv => TypeOK
  BY DEF IInv
<1> QED
  BY <1>1, Invariance, PTL

(* Whatever its graph, an accepted plan has no cyclic dependency.          *)
THEOREM AcceptanceIsSound == TaskSpec => []AcceptedIsAcyclic
<1>1. IInv => AcceptedIsAcyclic
  BY DEF IInv, VerdictInv, AcceptedIsAcyclic
<1> QED
  BY <1>1, Invariance, PTL

(* Whatever its graph, a plan refused for a cycle has the printed one.     *)
THEOREM CycleReportIsSound == TaskSpec => []ReportedCycleIsReal
<1>1. IInv => ReportedCycleIsReal
  BY DEF IInv, VerdictInv, ReportedCycleIsReal
<1> QED
  BY <1>1, Invariance, PTL

(* A step that ends the validation is the declared verdict; every other    *)
(* step leaves plan and verdict alone.                                     *)
LEMMA StepImplements ==
    IInv /\ IInv' /\ [TaskNext]_taskVars => [Decision!Next]_(Decision!vars)
<1> SUFFICES ASSUME IInv, IInv', [TaskNext]_taskVars
             PROVE  [Decision!Next]_(Decision!vars)
  OBVIOUS
<1> USE DEF Finish
<1>1. ASSUME NEW t \in todo, RejectAlias(t) PROVE Decision!Next
  <2>1. t \in given.tasks /\ given.aliases[t] \subseteq Names
    BY DEF IInv, TypeOK, Plan
  <2>2. PICK alias \in given.aliases[t] : Clashes(t, alias)
    BY <1>1 DEF RejectAlias
  <2>3. Decision!Ambiguous
    <3>1. alias \in Names
      BY <2>1
    <3>2. CASE alias \in given.tasks /\ alias # t
      BY <2>1, <3>1, <3>2 DEF Decision!Ambiguous, Decision!Owners
    <3>3. CASE aliasOf[alias] \notin {NoTask, t}
      BY <2>1, <3>1, <3>3
      DEF IInv, AliasInv, Decision!Ambiguous, Decision!Owners
    <3> QED
      BY <2>2, <3>2, <3>3 DEF Clashes
  <2> QED
    BY <1>1, <2>3
    DEF RejectAlias, IInv, VerdictInv, Running, Decision!Next,
        Decision!RefuseAlias, Decision!Running
<1>2. ASSUME NEW t \in todo, RejectReference(t) PROVE Decision!Next
  <2>1. t \in given.tasks /\ given.references[t] \subseteq Names
    BY DEF IInv, TypeOK, Plan
  <2>2. PICK name \in given.references[t] : Dangling(name)
    BY <1>2 DEF RejectReference
  <2>3. /\ ~Decision!Ambiguous
        /\ Decision!Owners(name) = {Canonical(name)} \cap given.tasks
    BY <1>2, <2>1, OwnersAreCanonical DEF RejectReference, IInv
  <2>4. Decision!Dangling
    BY <2>1, <2>2, <2>3 DEF Decision!Dangling, Dangling, Canonical
  <2> QED
    BY <1>2, <2>3, <2>4
    DEF RejectReference, IInv, VerdictInv, Running, Decision!Next,
        Decision!RefuseReference, Decision!Running
<1>3. CASE Accept
  <2>1. ~Decision!Ambiguous /\ ~Decision!Dangling /\ Decision!Acyclic
    BY <1>3, OwnersAreCanonical, SuccessorsAgree, AcceptIsAcyclic
    DEF Accept, IInv
  <2> QED
    BY <1>3, <2>1
    DEF Accept, IInv, VerdictInv, Running, Decision!Next,
        Decision!AcceptPlan, Decision!Running
<1>4. ASSUME NEW name \in Names, Follow(name)
      PROVE  [Decision!Next]_(Decision!vars)
  <2>1. pass = "visit" /\ UNCHANGED given /\ verdict = Running
    BY <1>4 DEF Follow, IInv, VerdictInv
  <2>2. CASE UNCHANGED verdict
    BY <2>1, <2>2 DEF Decision!vars
  <2>3. CASE Finish("cycle", CycleTo(Canonical(name)))
    <3> DEFINE c == CycleTo(Canonical(name))
    <3>1. verdict' = [kind |-> "cycle", cycle |-> c]
      BY <2>3
    <3>2. Decision!IsCycle(c)
      <4>1. Decision!IsCycle(verdict.cycle)'
        BY <3>1 DEF IInv, VerdictInv
      <4>2. verdict'.cycle = c
        BY <3>1
      <4> QED
        BY <2>1, <4>1, <4>2, DecisionUnchanged
    <3>3. ~Decision!Ambiguous /\ ~Decision!Dangling
      BY <2>1, OwnersAreCanonical, SuccessorsAgree DEF IInv
    <3> QED
      BY <2>1, <3>1, <3>2, <3>3
      DEF Running, Decision!Next, Decision!RefuseCycle, Decision!Running
  <2> QED
    BY <1>4, <2>2, <2>3 DEF Follow
<1>5. CASE UNCHANGED <<given, verdict>>
  BY <1>5 DEF Decision!vars
<1> QED
  BY <1>1, <1>2, <1>3, <1>4, <1>5
   DEF TaskNext, taskVars, CollectAliases, CheckReferences, VisitTask,
       NextPass, Return

(* The depth-first search decides exactly what TaskVerdict declares, for   *)
(* every plan: completeness (a refusal has its reason) and soundness.      *)
THEOREM TasksRefinement == TaskSpec => ImplementsTaskVerdict
<1>1. TaskInit => Decision!Init
  BY DEF TaskInit, Running, Decision!Init, Decision!Running
<1>2. IInv /\ IInv' /\ [TaskNext]_taskVars => [Decision!Next]_(Decision!vars)
  BY StepImplements
<1> QED
  BY <1>1, <1>2, Invariance, PTL
  DEF TaskSpec, Decision!Spec, ImplementsTaskVerdict
=============================================================================
