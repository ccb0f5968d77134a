--------------------------- MODULE PackageProofs ---------------------------
(***************************************************************************)
(* What Lockfile promises, for any identities, any entries and any files,  *)
(* and PackageRelease, for any manifests, targets and releases.            *)
(*                                                                         *)
(* The vectors of a lockfile are searched for their first match and kept   *)
(* in order by a stable sort: it is shown that retain, push and sort act   *)
(* on what a search finds as on a map, and that the document written is    *)
(* one that is read back and written again as it is.  Of releases it is    *)
(* shown that what a version spells tells its channel and its number, and  *)
(* of the manifest of a target that every check of the whole is one of     *)
(* the part.                                                               *)
(***************************************************************************)
EXTENDS Lockfile, PackageRelease

-----------------------------------------------------------------------------
(* Sorting, searching and replacing *)

(* What a search finds: the entry of the least position that has the key.  *)
LEMMA FindFirst ==
  ASSUME NEW entries, Len(entries) \in Nat, NEW key
  PROVE  /\ (\A i \in 1..Len(entries) : entries[i].key # key)
               => Find(entries, key) = NoEntry
         /\ \A i \in 1..Len(entries) :
               /\ entries[i].key = key
               /\ \A j \in 1..Len(entries) : entries[j].key = key => i <= j
               => Find(entries, key) = entries[i]
<1> DEFINE at == {i \in 1..Len(entries) : entries[i].key = key}
<1>1. ASSUME NEW i \in at, \A j \in at : i <= j
      PROVE  (CHOOSE k \in at : \A j \in at : k <= j) = i
  BY <1>1
<1> QED
  BY <1>1 DEF Find

(* A search finds nothing, or the first entry with the key. *)
LEMMA FindCases ==
  ASSUME NEW entries, Len(entries) \in Nat, NEW key
  PROVE  \/ /\ \A i \in 1..Len(entries) : entries[i].key # key
            /\ Find(entries, key) = NoEntry
         \/ \E i \in 1..Len(entries) :
               /\ entries[i].key = key
               /\ \A j \in 1..Len(entries) : entries[j].key = key => i <= j
               /\ Find(entries, key) = entries[i]
<1> DEFINE at == {i \in 1..Len(entries) : entries[i].key = key}
<1>1. CASE at = {}
  BY <1>1, FindFirst
<1>2. CASE at # {}
  <2>1. PICK i \in at : \A j \in at : i <= j
    <3>1. at \in SUBSET Nat
      OBVIOUS
    <3> HIDE DEF at
    <3> QED
      BY <3>1, <1>2, LeastNumber
  <2> QED
    BY <2>1, FindFirst
<1> QED
  BY <1>1, <1>2

(* Keeping some positions of a list, in an order in which entries of one   *)
(* key keep theirs, does not change which of those entries is found.       *)
LEMMA FindArranged ==
  ASSUME NEW S, NEW entries \in Seq(S),
         NEW kept \in SUBSET (1..Len(entries)),
         NEW before, StrictTotalOrder(kept, before),
         \A i, j \in kept :
            entries[i].key = entries[j].key /\ i < j => <<i, j>> \in before
  PROVE  LET list == Arranged(entries, kept, before)
         IN  /\ list \in Seq(S)
             /\ Len(list) \in Nat
             /\ \A key : (\A i \in kept : entries[i].key # key)
                            => Find(list, key) = NoEntry
             /\ \A i \in kept :
                   (\A j \in kept :
                       entries[j].key = entries[i].key => i <= j)
                   => Find(list, entries[i].key) = entries[i]
<1> DEFINE list == Arranged(entries, kept, before)
           order == InOrderOf(kept, before)
           n == Cardinality(kept)
<1>1. IsFiniteSet(kept)
  <2>1. IsFiniteSet(1..Len(entries))
    BY FS_Interval
  <2> QED
    BY <2>1, FS_Subset
<1>2. /\ n \in Nat
      /\ order \in [1..n -> kept]
      /\ \A p, q \in 1..n : p < q <=> <<order[p], order[q]>> \in before
      /\ \A p, q \in 1..n : order[p] = order[q] => p = q
      /\ \A i \in kept : \E p \in 1..n : order[p] = i
  BY <1>1, InOrderOfSet
<1>3. list = [p \in 1..n |-> entries[order[p]]]
  BY DEF Arranged
<1> HIDE DEF order, n, list
<1>4. \A i \in kept : i \in Int
  OBVIOUS
<1>5. list \in Seq(S) /\ Len(list) = n
  <2>1. \A p \in 1..n : entries[order[p]] \in S
    <3>1. \A i \in kept : entries[i] \in S
      OBVIOUS
    <3> QED
      BY <3>1, <1>2
  <2>2. list \in [1..n -> S]
    BY <2>1, <1>3
  <2> QED
    BY <2>2, <1>2
<1>6. ASSUME NEW key, \A i \in kept : entries[i].key # key
      PROVE  Find(list, key) = NoEntry
  <2>1. Len(list) \in Nat /\ \A p \in 1..Len(list) : list[p].key # key
    BY <1>2, <1>3, <1>5, <1>6
  <2> QED
    BY <2>1, FindFirst
<1>7. ASSUME NEW i \in kept,
             \A j \in kept : entries[j].key = entries[i].key => i <= j
      PROVE  Find(list, entries[i].key) = entries[i]
  <2>1. PICK p \in 1..n : order[p] = i
    BY <1>2
  <2>2. ASSUME NEW q \in 1..n, list[q].key = entries[i].key
        PROVE  p <= q
    <3>1. order[q] \in kept /\ entries[order[q]].key = entries[i].key
      BY <2>2, <1>2, <1>3
    <3>2. i <= order[q]
      BY <3>1, <1>7
    <3>3. CASE order[q] = i
      BY <3>3, <2>1, <1>2
    <3>4. CASE order[q] # i
      <4>1. i < order[q]
        <5>1. i \in Int /\ order[q] \in Int
          BY <3>1, <1>4
        <5> QED
          BY <5>1, <3>2, <3>4
      <4>2. <<order[p], order[q]>> \in before
        BY <4>1, <3>1, <2>1
      <4> QED
        BY <4>2, <1>2
    <3> QED
      BY <3>3, <3>4
  <2>3. list[p] = entries[i]
    BY <2>1, <1>3
  <2>4. /\ p \in 1..Len(list) /\ list[p].key = entries[i].key
        /\ \A q \in 1..Len(list) : list[q].key = entries[i].key => p <= q
        /\ Len(list) \in Nat
    BY <2>1, <2>2, <2>3, <1>2, <1>5
  <2>5. Find(list, entries[i].key) = list[p]
    BY <2>4, FindFirst
  <2> QED
    BY <2>3, <2>5
<1> QED
  BY <1>2, <1>5, <1>6, <1>7 DEF list

(* The orders the vectors are arranged in are total and strict. *)
LEMMA Orders ==
  ASSUME NEW S, \A e \in S : e.key \in Int, NEW entries \in Seq(S),
         NEW kept \in SUBSET (1..Len(entries))
  PROVE  /\ StrictTotalOrder(kept, ByKey(entries))
         /\ StrictTotalOrder(kept, ByPosition(entries))
<1>1. \A i \in kept : i \in Int
  OBVIOUS
<1>2. \A i \in kept : entries[i].key \in Int
  <2>1. \A i \in kept : entries[i] \in S
    OBVIOUS
  <2> QED
    BY <2>1
<1>3. \A i, j \in kept :
         <<i, j>> \in ByPosition(entries) <=> i < j
  BY DEF ByPosition
<1>4. \A i, j \in kept :
         <<i, j>> \in ByKey(entries) <=>
            \/ entries[i].key < entries[j].key
            \/ entries[i].key = entries[j].key /\ i < j
  BY DEF ByKey
<1>5. StrictTotalOrder(kept, ByPosition(entries))
  BY <1>1, <1>3 DEF StrictTotalOrder
<1>6. StrictTotalOrder(kept, ByKey(entries))
  <2> DEFINE K(i) == entries[i].key
  <2>1. /\ \A i \in kept : K(i) \in Int
        /\ \A i, j \in kept : <<i, j>> \in ByKey(entries) <=>
              K(i) < K(j) \/ (K(i) = K(j) /\ i < j)
    BY <1>2, <1>4
  <2> HIDE DEF K
  <2> QED
    BY <1>1, <2>1, SMTT(30) DEF StrictTotalOrder
<1> QED
  BY <1>5, <1>6

(* Sorting moves entries, and a search finds what it found before. *)
LEMMA SortedList ==
  ASSUME NEW S, \A e \in S : e.key \in Int, NEW entries \in Seq(S)
  PROVE  LET list == Sorted(entries)
             n == Len(entries)
         IN  /\ list \in Seq(S)
             /\ Len(list) = n
             /\ \A key : Find(list, key) = Find(entries, key)
             /\ \E order \in [1..n -> 1..n] :
                   /\ list = [p \in 1..n |-> entries[order[p]]]
                   /\ \A p, q \in 1..n : order[p] = order[q] => p = q
                   /\ \A i \in 1..n : \E p \in 1..n : order[p] = i
                   /\ \A p, q \in 1..n :
                         p < q => entries[order[p]].key <= entries[order[q]].key
<1> DEFINE list == Sorted(entries)
           n == Len(entries)
           all == 1..n
           before == ByKey(entries)
           order == InOrderOf(all, before)
<1>1. n \in Nat /\ IsFiniteSet(all) /\ Cardinality(all) = n
  <2>1. n \in Nat
    OBVIOUS
  <2> HIDE DEF n
  <2>2. IsFiniteSet(1..n) /\ Cardinality(1..n) = n
    BY <2>1, FS_Interval
  <2> QED
    BY <2>1, <2>2
<1>2. all \in SUBSET (1..Len(entries)) /\ StrictTotalOrder(all, before)
  BY Orders
<1>3. \A i, j \in all : <<i, j>> \in before =>
                             entries[i].key <= entries[j].key
  <2>1. \A i \in all : entries[i] \in S
    OBVIOUS
  <2>2. \A i \in all : entries[i].key \in Int
    BY <2>1
  <2> QED
    BY <2>2 DEF ByKey
<1>4. \A i, j \in all :
         entries[i].key = entries[j].key /\ i < j => <<i, j>> \in before
  BY DEF ByKey
<1>5. list = Arranged(entries, all, before)
  BY DEF Sorted
<1>6. /\ list = [p \in all |-> entries[order[p]]]
      /\ order \in [all -> all]
      /\ \A p, q \in all : order[p] = order[q] => p = q
      /\ \A i \in all : \E p \in all : order[p] = i
      /\ \A p, q \in all : p < q => <<order[p], order[q]>> \in before
  <2>1. list = [p \in 1..Cardinality(all) |-> entries[order[p]]]
    BY <1>5 DEF Arranged
  <2> HIDE DEF before, order
  <2> QED
    BY <1>1, <1>2, <2>1, InOrderOfSet DEF order
<1> HIDE DEF before, order, all, list, n
<1>7. /\ list \in Seq(S)
      /\ \A key : (\A i \in all : entries[i].key # key)
                     => Find(list, key) = NoEntry
      /\ \A i \in all :
            (\A j \in all : entries[j].key = entries[i].key => i <= j)
               => Find(list, entries[i].key) = entries[i]
  <2> DEFINE arranged == Arranged(entries, all, before)
  <2>1. /\ arranged \in Seq(S)
        /\ Len(arranged) \in Nat
        /\ \A key : (\A i \in all : entries[i].key # key)
                       => Find(arranged, key) = NoEntry
        /\ \A i \in all :
              (\A j \in all : entries[j].key = entries[i].key => i <= j)
                 => Find(arranged, entries[i].key) = entries[i]
    BY <1>2, <1>4, FindArranged, Zenon
  <2> HIDE DEF arranged
  <2> QED
    BY <2>1, <1>5 DEF arranged
<1>8. Len(list) = n
  BY <1>1, <1>6 DEF all
<1>9. ASSUME NEW key
      PROVE  Find(list, key) = Find(entries, key)
  <2>1. CASE /\ \A i \in 1..Len(entries) : entries[i].key # key
             /\ Find(entries, key) = NoEntry
    BY <1>7, <2>1 DEF all, n
  <2>2. ASSUME NEW i \in 1..Len(entries), entries[i].key = key,
               \A j \in 1..Len(entries) : entries[j].key = key => i <= j,
               Find(entries, key) = entries[i]
        PROVE  Find(list, key) = Find(entries, key)
    BY <1>7, <2>2 DEF all, n
  <2> QED
    BY <2>1, <2>2, <1>1, FindCases DEF n
<1>10. \A p, q \in all :
          p < q => entries[order[p]].key <= entries[order[q]].key
  BY <1>3, <1>6
<1> QED
  BY <1>6, <1>7, <1>8, <1>9, <1>10 DEF list, n, all

(* retain drops the entries of one key, and no other search notices. *)
LEMMA RetainedList ==
  ASSUME NEW S, \A e \in S : e.key \in Int, NEW entries \in Seq(S), NEW key
  PROVE  LET list == Retained(entries, key)
         IN  /\ list \in Seq(S)
             /\ \A other : Find(list, other) =
                   IF other = key THEN NoEntry ELSE Find(entries, other)
<1> DEFINE list == Retained(entries, key)
           kept == {i \in 1..Len(entries) : entries[i].key # key}
<1>1. kept \in SUBSET (1..Len(entries)) /\ Len(entries) \in Nat
  OBVIOUS
<1>2. StrictTotalOrder(kept, ByPosition(entries))
  <2> HIDE DEF kept
  <2> QED
    BY <1>1, Orders
<1>3. \A i, j \in kept :
         entries[i].key = entries[j].key /\ i < j
            => <<i, j>> \in ByPosition(entries)
  BY DEF ByPosition
<1>4. list = Arranged(entries, kept, ByPosition(entries))
  BY DEF Retained
<1>5. \A i \in 1..Len(entries) : i \in kept <=> entries[i].key # key
  OBVIOUS
<1> HIDE DEF kept, list
<1>6. /\ list \in Seq(S)
      /\ \A other : (\A i \in kept : entries[i].key # other)
                       => Find(list, other) = NoEntry
      /\ \A i \in kept :
            (\A j \in kept : entries[j].key = entries[i].key => i <= j)
               => Find(list, entries[i].key) = entries[i]
  <2> DEFINE arranged == Arranged(entries, kept, ByPosition(entries))
  <2>1. /\ arranged \in Seq(S)
        /\ Len(arranged) \in Nat
        /\ \A other : (\A i \in kept : entries[i].key # other)
                         => Find(arranged, other) = NoEntry
        /\ \A i \in kept :
              (\A j \in kept : entries[j].key = entries[i].key => i <= j)
                 => Find(arranged, entries[i].key) = entries[i]
    BY <1>1, <1>2, <1>3, FindArranged, Zenon
  <2> HIDE DEF arranged
  <2> QED
    BY <2>1, <1>4 DEF arranged
<1>7. ASSUME NEW other
      PROVE  Find(list, other) =
                IF other = key THEN NoEntry ELSE Find(entries, other)
  <2>1. CASE other = key
    BY <2>1, <1>1, <1>5, <1>6
  <2>2. CASE /\ \A i \in 1..Len(entries) : entries[i].key # other
             /\ Find(entries, other) = NoEntry
    BY <1>1, <1>6, <2>2
  <2>3. ASSUME NEW i \in 1..Len(entries), entries[i].key = other,
               \A j \in 1..Len(entries) : entries[j].key = other => i <= j,
               Find(entries, other) = entries[i], other # key
        PROVE  Find(list, other) = Find(entries, other)
    BY <1>1, <1>5, <1>6, <2>3
  <2> QED
    BY <2>1, <2>2, <2>3, <1>1, FindCases
<1> QED
  BY <1>6, <1>7 DEF list

(* retain, push and sort replace what is found under one key. *)
LEMMA UpsertedList ==
  ASSUME NEW S, \A e \in S : e.key \in Int, NoEntry \notin S,
         NEW entries \in Seq(S), NEW entry \in S
  PROVE  LET list == Upserted(entries, entry)
         IN  /\ list \in Seq(S)
             /\ \A key : Find(list, key) =
                   IF key = entry.key THEN entry ELSE Find(entries, key)
<1> DEFINE kept == Retained(entries, entry.key)
           list == Append(kept, entry)
<1>1. /\ kept \in Seq(S)
      /\ \A key : Find(kept, key) =
            IF key = entry.key THEN NoEntry ELSE Find(entries, key)
  BY RetainedList
<1>2. /\ Sorted(list) \in Seq(S)
      /\ \A key : Find(Sorted(list), key) = Find(list, key)
  <2>1. list \in Seq(S)
    <3> HIDE DEF kept
    <3> QED
      BY <1>1
  <2> HIDE DEF list
  <2> QED
    BY <2>1, SortedList
<1>3. Upserted(entries, entry) = Sorted(list)
  BY DEF Upserted
<1> HIDE DEF kept
<1>4. /\ Len(kept) \in Nat /\ Len(list) = Len(kept) + 1
      /\ \A i \in 1..Len(kept) : list[i] = kept[i] /\ kept[i] \in S
      /\ list[Len(kept) + 1] = entry
  BY <1>1
<1> HIDE DEF list
<1>5. ASSUME NEW key
      PROVE  Find(list, key) =
                IF key = entry.key THEN entry ELSE Find(kept, key)
  <2>1. CASE key = entry.key
    <3>1. \A i \in 1..Len(kept) : kept[i].key # key
      <4>1. Find(kept, key) = NoEntry
        BY <1>1, <2>1
      <4> QED
        BY <4>1, <1>4, FindCases
    <3>2. /\ Len(kept) + 1 \in 1..Len(list)
          /\ Len(list) \in Nat
          /\ \A i \in 1..Len(list) : list[i].key = key => Len(kept) + 1 <= i
      BY <1>4, <3>1
    <3> QED
      BY <3>2, <1>4, <2>1, FindFirst
  <2>2. CASE key # entry.key
    <3>1. CASE /\ \A i \in 1..Len(kept) : kept[i].key # key
               /\ Find(kept, key) = NoEntry
      <4>1. \A i \in 1..Len(list) : list[i].key # key
        BY <3>1, <2>2, <1>4
      <4> QED
        BY <4>1, <3>1, <2>2, <1>4, FindFirst
    <3>2. ASSUME NEW i \in 1..Len(kept), kept[i].key = key,
                 \A j \in 1..Len(kept) : kept[j].key = key => i <= j,
                 Find(kept, key) = kept[i]
          PROVE  Find(list, key) = Find(kept, key)
      <4>1. /\ i \in 1..Len(list) /\ Len(list) \in Nat
            /\ list[i].key = key
            /\ \A j \in 1..Len(list) : list[j].key = key => i <= j
        BY <3>2, <2>2, <1>4, SMTT(30)
      <4>2. Find(list, key) = list[i]
        BY <4>1, FindFirst
      <4> QED
        BY <4>2, <3>2, <1>4
    <3> QED
      BY <3>1, <3>2, <2>2, <1>4, FindCases
  <2> QED
    BY <2>1, <2>2
<1> QED
  BY <1>1, <1>2, <1>3, <1>5

-----------------------------------------------------------------------------
(* Documents *)

(* What a search of a section finds. *)
Found(lock, section, key) == Find(lock.entries[section], key)

(* What the type of an entry says of it. *)
LEMMA EntryTypes ==
  /\ \A e \in Entries : e.key \in Int /\ e.key \in Keys
  /\ \A section \in Sections : EntryOf(section) \subseteq Entries
  /\ \A section \in LockedSections : EntryOf(section) = LockedPackage
  /\ \A section \in Sections : NoEntry \notin EntryOf(section)
<1>1. /\ Keys \subseteq Int
      /\ NoEntry \notin Entries
  BY LockfileAssumption
<1>2. \A e \in Entries : e.key \in Keys
  BY DEF Entries, LockedPackage, ProvenanceRecord
<1>3. \A section \in Sections : EntryOf(section) \subseteq Entries
  BY DEF EntryOf, Entries
<1> QED
  BY <1>1, <1>2, <1>3 DEF EntryOf

(* The fields of a value of the Rust type. *)
LEMMA LockfileFields ==
  ASSUME NEW lock, IsLockfile(lock)
  PROVE  /\ lock = [version |-> lock.version, entries |-> lock.entries]
         /\ lock.version \in Versions
         /\ lock.entries \in [Sections -> Seq(Entries)]
         /\ \A section \in Sections :
               /\ lock.entries[section] \in Seq(EntryOf(section))
               /\ lock.entries[section] \in Seq(Entries)
               /\ Len(lock.entries[section]) \in Nat
<1>1. /\ lock \in [version : Versions, entries : [Sections -> Seq(Entries)]]
      /\ \A section \in Sections :
            lock.entries[section] \in Seq(EntryOf(section))
  BY DEF IsLockfile
<1>2. \A list \in Seq(Entries) : Len(list) \in Nat
  OBVIOUS
<1>3. \A section \in Sections : lock.entries[section] \in Seq(Entries)
  BY <1>1
<1> QED
  BY <1>1, <1>2, <1>3

(* Making a revision explicit keeps an entry's type and its key, and what  *)
(* is acceptable is explicit already.                                      *)
LEMMA ExplicitEntry ==
  ASSUME NEW section \in Sections, NEW entry \in EntryOf(section)
  PROVE  /\ Explicit(section, entry) \in EntryOf(section)
         /\ Explicit(section, entry).key = entry.key
         /\ Acceptable(section, entry) => Explicit(section, entry) = entry
<1>1. CASE section \in LockedSections /\ entry.vcs_commit = NoRevision
  <2>1. entry \in LockedPackage
    BY <1>1, EntryTypes
  <2>2. Explicit(section, entry)
           = [entry EXCEPT !.vcs_commit = ArtifactRevision[entry.digest]]
    BY <1>1 DEF Explicit
  <2>3. ArtifactRevision[entry.digest] \in Revisions
    BY <2>1, LockfileAssumption DEF LockedPackage
  <2>4. Explicit(section, entry) \in LockedPackage
    BY <2>1, <2>2, <2>3 DEF LockedPackage
  <2>5. Explicit(section, entry).key = entry.key
    BY <2>1, <2>2 DEF LockedPackage
  <2>6. ~Acceptable(section, entry)
    BY <1>1, LockfileAssumption DEF Acceptable, PackageIsValid
  <2> QED
    BY <1>1, <2>4, <2>5, <2>6, EntryTypes
<1>2. CASE ~(section \in LockedSections /\ entry.vcs_commit = NoRevision)
  BY <1>2 DEF Explicit
<1> QED
  BY <1>1, <1>2

(* Normalizing makes the revisions explicit, of all entries and of those   *)
(* a search finds.                                                         *)
LEMMA NormalizedLock ==
  ASSUME NEW lock, IsLockfile(lock)
  PROVE  /\ IsLockfile(Normalized(lock))
         /\ Normalized(lock).version = lock.version
         /\ \A section \in Sections :
               /\ Normalized(lock).entries[section]
                     = [i \in 1..Len(lock.entries[section]) |->
                           Explicit(section, lock.entries[section][i])]
               /\ Len(Normalized(lock).entries[section])
                     = Len(lock.entries[section])
               /\ \A key : Found(Normalized(lock), section, key) =
                     IF Found(lock, section, key) = NoEntry THEN NoEntry
                     ELSE Explicit(section, Found(lock, section, key))
<1> DEFINE normal(section) == [i \in 1..Len(lock.entries[section]) |->
                                 Explicit(section, lock.entries[section][i])]
<1>1. /\ lock = [version |-> lock.version, entries |-> lock.entries]
      /\ lock.version \in Versions
      /\ \A section \in Sections :
            /\ lock.entries[section] \in Seq(EntryOf(section))
            /\ Len(lock.entries[section]) \in Nat
  BY LockfileFields
<1>2. Normalized(lock) =
         [version |-> lock.version,
          entries |-> [section \in Sections |-> normal(section)]]
  <2> DEFINE new == [section \in Sections |-> normal(section)]
  <2>1. Normalized(lock) = [lock EXCEPT !.entries = new]
    BY DEF Normalized
  <2> HIDE DEF new
  <2>2. [[version |-> lock.version, entries |-> lock.entries]
            EXCEPT !.entries = new]
        = [version |-> lock.version, entries |-> new]
    OBVIOUS
  <2>3. Normalized(lock) = [version |-> lock.version, entries |-> new]
    BY <1>1, <2>1, <2>2
  <2> QED
    BY <2>3 DEF new
<1>3. ASSUME NEW section \in Sections
      PROVE  /\ normal(section) \in Seq(EntryOf(section))
             /\ Len(normal(section)) = Len(lock.entries[section])
             /\ \A i \in 1..Len(lock.entries[section]) :
                   /\ normal(section)[i]
                         = Explicit(section, lock.entries[section][i])
                   /\ normal(section)[i].key = lock.entries[section][i].key
  <2> DEFINE list == lock.entries[section]
  <2>1. list \in Seq(EntryOf(section)) /\ Len(list) \in Nat
    BY <1>1
  <2> HIDE DEF list
  <2>2. \A i \in 1..Len(list) : list[i] \in EntryOf(section)
    BY <2>1
  <2>3. \A i \in 1..Len(list) :
           /\ Explicit(section, list[i]) \in EntryOf(section)
           /\ Explicit(section, list[i]).key = list[i].key
    BY <2>2, ExplicitEntry
  <2>4. normal(section) = [i \in 1..Len(list) |-> Explicit(section, list[i])]
    BY DEF list
  <2> HIDE DEF normal
  <2>5. normal(section) \in [1..Len(list) -> EntryOf(section)]
    BY <2>3, <2>4
  <2>6. normal(section) \in Seq(EntryOf(section))
        /\ Len(normal(section)) = Len(list)
    BY <2>1, <2>5
  <2> QED
    BY <2>3, <2>4, <2>6 DEF list
<1> HIDE DEF normal
<1>4. IsLockfile(Normalized(lock))
  <2>1. \A section \in Sections : normal(section) \in Seq(Entries)
    <3> SUFFICES ASSUME NEW section \in Sections
                 PROVE  normal(section) \in Seq(Entries)
      OBVIOUS
    <3>1. /\ normal(section) \in Seq(EntryOf(section))
          /\ EntryOf(section) \subseteq Entries
      BY <1>3, EntryTypes
    <3> QED
      BY <3>1
  <2> QED
    BY <1>1, <1>2, <1>3, <2>1 DEF IsLockfile
<1>5. ASSUME NEW section \in Sections, NEW key
      PROVE  Find(normal(section), key) =
                IF Find(lock.entries[section], key) = NoEntry THEN NoEntry
                ELSE Explicit(section, Find(lock.entries[section], key))
  <2> DEFINE list == lock.entries[section]
             new == normal(section)
  <2>1. /\ Len(list) \in Nat /\ Len(new) = Len(list)
        /\ \A i \in 1..Len(list) :
              /\ new[i] = Explicit(section, list[i])
              /\ new[i].key = list[i].key
              /\ list[i] # NoEntry
    BY <1>1, <1>3, EntryTypes
  <2> HIDE DEF list, new
  <2>2. CASE /\ \A i \in 1..Len(list) : list[i].key # key
             /\ Find(list, key) = NoEntry
    <3>1. Find(new, key) = NoEntry
      BY <2>1, <2>2, FindFirst
    <3> QED
      BY <3>1, <2>2 DEF list, new
  <2>3. ASSUME NEW i \in 1..Len(list), list[i].key = key,
               \A j \in 1..Len(list) : list[j].key = key => i <= j,
               Find(list, key) = list[i]
        PROVE  Find(new, key) = Explicit(section, Find(list, key))
               /\ Find(list, key) # NoEntry
    <3>1. /\ i \in 1..Len(new) /\ Len(new) \in Nat /\ new[i].key = key
          /\ \A j \in 1..Len(new) : new[j].key = key => i <= j
      BY <2>1, <2>3
    <3>2. Find(new, key) = new[i]
      BY <3>1, FindFirst
    <3> QED
      BY <3>2, <2>1, <2>3
  <2>4. \/ /\ \A i \in 1..Len(list) : list[i].key # key
           /\ Find(list, key) = NoEntry
        \/ \E i \in 1..Len(list) :
              /\ list[i].key = key
              /\ \A j \in 1..Len(list) : list[j].key = key => i <= j
              /\ Find(list, key) = list[i]
    BY <2>1, FindCases
  <2> QED
    BY <2>2, <2>3, <2>4 DEF list, new
<1>6. \A section \in Sections : \A key :
         Found(Normalized(lock), section, key) =
            IF Found(lock, section, key) = NoEntry THEN NoEntry
            ELSE Explicit(section, Found(lock, section, key))
  BY <1>2, <1>5 DEF Found
<1> QED
  BY <1>1, <1>2, <1>3, <1>4, <1>6 DEF normal

(* Sorting does so section by section, and keeps what a search finds. *)
LEMMA DocumentLock ==
  ASSUME NEW lock, IsLockfile(lock)
  PROVE  /\ IsLockfile(Document(lock))
         /\ Document(lock).version = lock.version
         /\ \A section \in Sections :
               /\ Document(lock).entries[section]
                     = Sorted(Normalized(lock).entries[section])
               /\ \A key : Found(Document(lock), section, key)
                              = Found(Normalized(lock), section, key)
<1> DEFINE normal == Normalized(lock)
           sorted == [section \in Sections |-> Sorted(normal.entries[section])]
<1>1. /\ IsLockfile(normal)
      /\ normal.version = lock.version
      /\ lock = [version |-> lock.version, entries |-> lock.entries]
  BY NormalizedLock, LockfileFields
<1> HIDE DEF normal
<1>2. Document(lock) = [version |-> lock.version, entries |-> sorted]
  <2>1. Document(lock) = [lock EXCEPT !.entries = sorted]
    BY DEF Document, normal
  <2> HIDE DEF sorted
  <2>2. [[version |-> lock.version, entries |-> lock.entries]
            EXCEPT !.entries = sorted]
        = [version |-> lock.version, entries |-> sorted]
    OBVIOUS
  <2> QED
    BY <1>1, <2>1, <2>2
<1>3. ASSUME NEW section \in Sections
      PROVE  LET from == normal.entries[section]
                 to == Sorted(from)
             IN  /\ to \in Seq(EntryOf(section))
                 /\ to \in Seq(Entries)
                 /\ \A key : Find(to, key) = Find(from, key)
  <2> DEFINE from == normal.entries[section]
  <2>1. /\ from \in Seq(EntryOf(section))
        /\ from \in Seq(Entries)
        /\ \A e \in Entries : e.key \in Int
        /\ \A e \in EntryOf(section) : e.key \in Int
    BY <1>1, LockfileFields, EntryTypes
  <2> HIDE DEF from
  <2>2. Sorted(from) \in Seq(Entries)
    BY <2>1, SortedList
  <2>3. /\ Sorted(from) \in Seq(EntryOf(section))
        /\ \A key : Find(Sorted(from), key) = Find(from, key)
    BY <2>1, SortedList
  <2> QED
    BY <2>2, <2>3 DEF from
<1>4. IsLockfile(Document(lock))
  <2>1. lock.version \in Versions
    BY LockfileFields
  <2>2. \A section \in Sections :
           /\ sorted[section] \in Seq(Entries)
           /\ sorted[section] \in Seq(EntryOf(section))
    BY <1>3
  <2> QED
    BY <1>2, <2>1, <2>2 DEF IsLockfile
<1>5. /\ Document(lock).version = lock.version
      /\ \A section \in Sections :
            Document(lock).entries[section] = Sorted(normal.entries[section])
  BY <1>2
<1>6. \A section \in Sections :
         \A key : Found(Document(lock), section, key)
                     = Found(normal, section, key)
  BY <1>3, <1>5 DEF Found
<1> QED
  BY <1>4, <1>5, <1>6 DEF normal

(* What it takes for the validations to pass. *)
LEMMA NoProblem ==
  ASSUME NEW lock
  PROVE  Problem(lock) = "ok" <=>
            /\ lock.version = CurrentVersion
            /\ \A section \in Sections : SectionIsValid(lock, section)
            /\ ~Conflicting(lock)
  BY DEF Problem, Sections, LockedSections, RecordSections

(* A list in strict key order is sorted already. *)
LEMMA SortedAlready ==
  ASSUME NEW S, \A e \in S : e.key \in Int, NEW entries \in Seq(S),
         \A i, j \in 1..Len(entries) :
            i < j => entries[i].key < entries[j].key
  PROVE  Sorted(entries) = entries
<1> DEFINE n == Len(entries)
           all == 1..n
           before == ByKey(entries)
           order == [p \in all |-> p]
<1>1. n \in Nat
  OBVIOUS
<1>2. IsFiniteSet(all) /\ Cardinality(all) = n
  <2> HIDE DEF n
  <2> QED
    BY <1>1, FS_Interval
<1>3. StrictTotalOrder(all, before)
  <2>1. all \in SUBSET (1..Len(entries))
    OBVIOUS
  <2> QED
    BY <2>1, Orders
<1>4. \A p, q \in all : p < q => <<p, q>> \in before
  BY DEF ByKey
<1> HIDE DEF before
<1>5. order = InOrderOf(all, before)
  <2>1. /\ order \in [1..n -> all]
        /\ \A p, q \in 1..n : p < q => <<order[p], order[q]>> \in before
        /\ \A x \in all : \E p \in 1..n : order[p] = x
    BY <1>4
  <2> HIDE DEF order, all, n
  <2>2. Arranges(order, n, all, before)
    BY <2>1, Zenon DEF Arranges
  <2> QED
    BY <1>1, <1>2, <1>3, <2>2, OnlyArrangement
<1>6. Sorted(entries) = [p \in all |-> entries[order[p]]]
  BY <1>2, <1>5 DEF Sorted, Arranged, before
<1>7. entries = [p \in all |-> entries[p]]
  OBVIOUS
<1> QED
  BY <1>6, <1>7

(* What the writer lets through is a document that parse accepts, whose    *)
(* arrays are in strict key order, and that is written again as it is:     *)
(* every revision is explicit, and there is one entry to a key.            *)
LEMMA CanonicalDocument ==
  ASSUME NEW lock, IsLockfile(lock), Problem(Normalized(lock)) = "ok"
  PROVE  /\ Problem(Document(lock)) = "ok"
         /\ Document(Document(lock)) = Document(lock)
         /\ \A section \in Sections :
               LET entries == Document(lock).entries[section]
               IN  \A i, j \in 1..Len(entries) :
                       i < j => entries[i].key < entries[j].key
<1> DEFINE normal == Normalized(lock)
           document == Document(lock)
<1>1. /\ IsLockfile(normal) /\ normal.version = lock.version
      /\ IsLockfile(document) /\ document.version = lock.version
      /\ \A section \in Sections :
            /\ document.entries[section] = Sorted(normal.entries[section])
            /\ \A key : Found(document, section, key)
                           = Found(normal, section, key)
  BY NormalizedLock, DocumentLock
<1>2. /\ normal.version = CurrentVersion
      /\ \A section \in Sections : SectionIsValid(normal, section)
      /\ ~Conflicting(normal)
  BY NoProblem
<1> HIDE DEF normal, document
<1>3. ASSUME NEW section \in Sections
      PROVE  LET from == normal.entries[section]
                 to == document.entries[section]
             IN  /\ \A p \in 1..Len(to) :
                       \E i \in 1..Len(from) : to[p] = from[i]
                 /\ KeysAreDistinct(to)
                 /\ \A p, q \in 1..Len(to) : p < q => to[p].key < to[q].key
                 /\ to \in Seq(Entries) /\ Len(to) \in Nat
                 /\ \A p \in 1..Len(to) : to[p] \in EntryOf(section)
  <2> DEFINE from == normal.entries[section]
             to == document.entries[section]
             n == Len(from)
  <2>1. /\ from \in Seq(Entries) /\ n \in Nat
        /\ from \in Seq(EntryOf(section))
        /\ to \in Seq(EntryOf(section))
        /\ \A e \in Entries : e.key \in Int
        /\ to = Sorted(from)
    BY <1>1, LockfileFields, EntryTypes
  <2> HIDE DEF from, to
  <2>2. PICK order \in [1..n -> 1..n] :
           /\ Sorted(from) = [p \in 1..n |-> from[order[p]]]
           /\ \A p, q \in 1..n : order[p] = order[q] => p = q
           /\ \A p, q \in 1..n :
                 p < q => from[order[p]].key <= from[order[q]].key
    BY <2>1, SortedList
  <2>3. to \in Seq(Entries) /\ Len(to) = n
    BY <2>1, SortedList
  <2>4. \A p \in 1..n : order[p] \in 1..n /\ to[p] = from[order[p]]
    BY <2>1, <2>2
  <2>5. \A i \in 1..n : from[i].key \in Int
    <3>1. \A i \in 1..n : from[i] \in Entries
      BY <2>1
    <3> QED
      BY <3>1, <2>1
  <2>6. \A i, j \in 1..n : from[i].key = from[j].key => i = j
    BY <1>2 DEF SectionIsValid, KeysAreDistinct, from
  <2>7. \A p, q \in 1..n : to[p].key = to[q].key => p = q
    BY <2>2, <2>4, <2>6, SMTT(30)
  <2>8. ASSUME NEW p \in 1..n, NEW q \in 1..n, p < q
        PROVE  to[p].key < to[q].key
    <3>1. to[p].key <= to[q].key /\ to[p].key \in Int /\ to[q].key \in Int
      <4>1. order[p] \in 1..n /\ order[q] \in 1..n
        OBVIOUS
      <4>2. from[order[p]].key \in Int /\ from[order[q]].key \in Int
        BY <2>5, <4>1
      <4>3. from[order[p]].key <= from[order[q]].key
        BY <2>2, <2>8
      <4> QED
        BY <2>4, <4>2, <4>3
    <3>2. to[p].key # to[q].key
      BY <2>1, <2>7, <2>8
    <3> QED
      BY <3>1, <3>2
  <2>9. \A p \in 1..n : to[p] \in EntryOf(section)
    BY <2>1, <2>3
  <2>10. KeysAreDistinct(to)
    BY <2>3, <2>7 DEF KeysAreDistinct
  <2> QED
    BY <2>1, <2>3, <2>4, <2>8, <2>9, <2>10 DEF from, to
<1>4. ASSUME NEW section \in Sections
      PROVE  /\ SectionIsValid(document, section)
             /\ \A p \in 1..Len(document.entries[section]) :
                   Acceptable(section, document.entries[section][p])
  BY <1>2, <1>3 DEF SectionIsValid
<1>5. ~Conflicting(document)
  <2>1. "tools" \in Sections /\ "packages" \in Sections
    BY DEF Sections, LockedSections
  <2>2. \A key : Find(document.entries["packages"], key)
                   = Find(normal.entries["packages"], key)
    BY <1>1, <2>1 DEF Found
  <2>3. \A p \in 1..Len(document.entries["tools"]) :
           \E i \in 1..Len(normal.entries["tools"]) :
              document.entries["tools"][p] = normal.entries["tools"][i]
    BY <1>3, <2>1
  <2> QED
    BY <1>2, <2>2, <2>3 DEF Conflicting
<1>6. Problem(document) = "ok"
  BY <1>1, <1>2, <1>4, <1>5, NoProblem
<1>7. Document(document) = document
  <2>1. /\ IsLockfile(Document(document))
        /\ Document(document).version = document.version
        /\ \A section \in Sections :
              Document(document).entries[section]
                 = Sorted(Normalized(document).entries[section])
    BY <1>1, DocumentLock
  <2>2. ASSUME NEW section \in Sections
        PROVE  Document(document).entries[section] = document.entries[section]
    <3> DEFINE list == document.entries[section]
    <3>1. Normalized(document).entries[section]
             = [i \in 1..Len(list) |-> Explicit(section, list[i])]
      BY <1>1, NormalizedLock
    <3>2. \A i \in 1..Len(list) : Explicit(section, list[i]) = list[i]
      BY <1>3, <1>4, ExplicitEntry
    <3>3. /\ list \in Seq(Entries)
          /\ \A i, j \in 1..Len(list) : i < j => list[i].key < list[j].key
          /\ \A e \in Entries : e.key \in Int
      BY <1>3, EntryTypes
    <3> HIDE DEF list
    <3>4. Sorted(list) = list
      BY <3>3, SortedAlready
    <3>5. list = [i \in 1..Len(list) |-> list[i]]
      BY <3>3
    <3>6. [i \in 1..Len(list) |-> Explicit(section, list[i])] = list
      BY <3>2, <3>5
    <3> QED
      BY <2>1, <3>1, <3>4, <3>6 DEF list
  <2> QED
    <3> DEFINE again == Document(document)
    <3>1. /\ again = [version |-> again.version, entries |-> again.entries]
          /\ document = [version |-> document.version,
                         entries |-> document.entries]
          /\ again.entries \in [Sections -> Seq(Entries)]
          /\ document.entries \in [Sections -> Seq(Entries)]
      BY <1>1, <2>1, LockfileFields
    <3> HIDE DEF again
    <3>2. again.entries = document.entries
      BY <2>2, <3>1 DEF again
    <3>3. again.version = document.version
      BY <2>1 DEF again
    <3> QED
      BY <3>1, <3>2, <3>3 DEF again
<1> QED
  BY <1>3, <1>6, <1>7 DEF document

-----------------------------------------------------------------------------
(* The invariant *)

(* What the process holds, and what the program wrote, is a lockfile.      *)
TypesHold ==
    /\ IsLockfile(memory)
    /\ disk \in {NoFile, Garbage} \/ IsLockfile(disk)
    /\ written \in BOOLEAN
    /\ written => IsLockfile(disk)

IInv == TypesHold /\ WrittenFileIsCanonical

(* The empty lockfile is one, and has no entries to find. *)
LEMMA EmptyLock ==
  /\ IsLockfile(Empty)
  /\ \A section \in Sections : \A key :
        Found(Empty, section, key) = NoEntry
<1>1. /\ Empty.version = CurrentVersion
      /\ \A section \in Sections : Empty.entries[section] = <<>>
      /\ Empty.entries \in [Sections -> Seq(Entries)]
      /\ Empty \in [version : {CurrentVersion},
                    entries : [Sections -> Seq(Entries)]]
  BY DEF Empty
<1>2. IsLockfile(Empty)
  <2>1. Empty \in [version : Versions, entries : [Sections -> Seq(Entries)]]
    BY <1>1, LockfileAssumption
  <2>2. \A section \in Sections :
           Empty.entries[section] \in Seq(EntryOf(section))
    BY <1>1
  <2> QED
    BY <2>1, <2>2 DEF IsLockfile
<1>3. \A key : Find(<<>>, key) = NoEntry
  <2> SUFFICES ASSUME NEW key
               PROVE  Find(<<>>, key) = NoEntry
    OBVIOUS
  <2>1. Len(<<>>) \in Nat /\ \A i \in 1..Len(<<>>) : <<>>[i].key # key
    OBVIOUS
  <2> QED
    BY <2>1, FindFirst
<1> QED
  BY <1>1, <1>2, <1>3 DEF Found

(* An upsert replaces one list by another, in which one key leads to the   *)
(* entry and all others to what they led to.                               *)
LEMMA UpsertedLock ==
  ASSUME NEW lock, IsLockfile(lock), NEW section \in Sections,
         NEW entry \in EntryOf(section), NEW new,
         new = [lock EXCEPT !.entries[section] = Upserted(@, entry)]
  PROVE  /\ IsLockfile(new)
         /\ \A other \in Sections : \A key :
               Found(new, other, key) =
                  IF other = section /\ key = entry.key THEN entry
                  ELSE Found(lock, other, key)
<1> DEFINE list == lock.entries[section]
           changed == Upserted(list, entry)
<1>1. /\ list \in Seq(EntryOf(section)) /\ list \in Seq(Entries)
      /\ lock = [version |-> lock.version, entries |-> lock.entries]
      /\ lock.version \in Versions
      /\ lock.entries \in [Sections -> Seq(Entries)]
      /\ \A other \in Sections :
            lock.entries[other] \in Seq(EntryOf(other))
  BY LockfileFields
<1>2. /\ \A e \in Entries : e.key \in Int
      /\ \A e \in EntryOf(section) : e.key \in Int
      /\ NoEntry \notin Entries /\ NoEntry \notin EntryOf(section)
      /\ entry \in Entries
  BY EntryTypes, LockfileAssumption
<1> HIDE DEF list
<1>3. changed \in Seq(Entries)
  BY <1>1, <1>2, UpsertedList
<1>4. /\ changed \in Seq(EntryOf(section))
      /\ \A key : Find(changed, key) =
            IF key = entry.key THEN entry ELSE Find(list, key)
  <2> DEFINE S == EntryOf(section)
  <2>1. /\ \A e \in S : e.key \in Int
        /\ NoEntry \notin S /\ list \in Seq(S) /\ entry \in S
    BY <1>1, <1>2
  <2> HIDE DEF S
  <2>2. /\ changed \in Seq(S)
        /\ \A key : Find(changed, key) =
              IF key = entry.key THEN entry ELSE Find(list, key)
    BY <2>1, UpsertedList, ZenonT(60)
  <2> QED
    BY <2>2 DEF S
<1>5. new = [lock EXCEPT !.entries[section] = changed]
  BY DEF list
<1> HIDE DEF changed
<1>6. new = [version |-> lock.version,
             entries |-> [lock.entries EXCEPT ![section] = changed]]
  BY <1>1, <1>5
<1>7. \A other \in Sections :
         new.entries[other] = IF other = section THEN changed
                              ELSE lock.entries[other]
  BY <1>1, <1>6
<1>8. IsLockfile(new)
  <2>1. new.entries \in [Sections -> Seq(Entries)]
    BY <1>1, <1>3, <1>6
  <2>2. \A other \in Sections : new.entries[other] \in Seq(EntryOf(other))
    BY <1>1, <1>4, <1>7
  <2> QED
    BY <1>1, <1>6, <2>1, <2>2 DEF IsLockfile
<1>9. \A other \in Sections : \A key :
         Found(new, other, key) =
            IF other = section /\ key = entry.key THEN entry
            ELSE Found(lock, other, key)
  BY <1>4, <1>7 DEF list, Found
<1> QED
  BY <1>8, <1>9

(* The invariant holds at first, and every operation keeps it.             *)
LEMMA InvariantHolds ==
  Spec => []IInv
<1>1. Init => IInv
  BY EmptyLock, LockfileAssumption
  DEF Init, IInv, TypesHold, WrittenFileIsCanonical
<1>2. IInv /\ [Next]_vars => IInv'
  <2> SUFFICES ASSUME IInv, [Next]_vars
               PROVE  IInv'
    OBVIOUS
  <2> USE DEF IInv
  <2>0. TypesHold /\ WrittenFileIsCanonical
    OBVIOUS
  <2>1. CASE Read
    <3>1. UNCHANGED <<disk, written>>
      BY <2>1 DEF Read
    <3>2. IsLockfile(memory')
      BY <2>0, <2>1 DEF Read, Problem, TypesHold
    <3> QED
      BY <2>0, <3>1, <3>2 DEF TypesHold, WrittenFileIsCanonical
  <2>2. CASE Write
    <3>1. CASE result' # "ok"
      BY <2>0, <2>2, <3>1 DEF Write, TypesHold, WrittenFileIsCanonical
    <3>2. CASE result' = "ok"
      <4>1. /\ disk' = Document(memory) /\ written' = TRUE
            /\ UNCHANGED memory
            /\ Problem(Normalized(memory)) = "ok"
            /\ IsLockfile(memory)
        BY <2>0, <2>2, <3>2 DEF Write, WriteProblem, TypesHold
      <4>2. IsLockfile(disk')
        BY <4>1, DocumentLock
      <4>3. WrittenFileIsCanonical'
        BY <4>1, CanonicalDocument DEF WrittenFileIsCanonical
      <4> QED
        BY <4>1, <4>2, <4>3 DEF TypesHold
    <3> QED
      BY <3>1, <3>2
  <2>3. ASSUME NEW section \in Sections, NEW entry \in Offered[section],
               UpsertLocked(section, entry) \/ UpsertRecord(section, entry)
        PROVE  IInv'
    <3>1. UNCHANGED <<disk, written>>
      BY <2>3 DEF UpsertLocked, UpsertRecord
    <3>2. \/ UNCHANGED memory
          \/ memory' = [memory EXCEPT !.entries[section] = Upserted(@, entry)]
      BY <2>3 DEF UpsertLocked, UpsertRecord
    <3>3. IsLockfile(memory')
      <4>1. entry \in EntryOf(section) /\ IsLockfile(memory)
        BY <2>0, LockfileAssumption DEF TypesHold
      <4> QED
        BY <3>2, <4>1, UpsertedLock
    <3> QED
      BY <2>0, <3>1, <3>3 DEF TypesHold, WrittenFileIsCanonical
  <2>4. ASSUME NEW lock \in Assembled, Assemble(lock)
        PROVE  IInv'
    BY <2>0, <2>4, LockfileAssumption
    DEF Assemble, TypesHold, WrittenFileIsCanonical
  <2>5. ASSUME NEW document \in Documents \cup {NoFile, Garbage},
               Edit(document)
        PROVE  IInv'
    BY <2>0, <2>5, LockfileAssumption
    DEF Edit, TypesHold, WrittenFileIsCanonical
  <2>6. CASE UNCHANGED vars
    BY <2>0, <2>6 DEF vars, TypesHold, WrittenFileIsCanonical
  <2> QED
    BY <2>1, <2>2, <2>3, <2>4, <2>5, <2>6 DEF Next
<1> QED
  BY <1>1, <1>2, PTL DEF Spec

-----------------------------------------------------------------------------
(* The maps *)

(* What a search finds is an entry with the key it searched for, or none;  *)
(* every entry of a list can be found by its key, or one before it.        *)
LEMMA FindPin ==
  ASSUME NEW lock, IsLockfile(lock), NEW section \in Sections, NEW key
  PROVE  \/ /\ Found(lock, section, key) = NoEntry
            /\ \A i \in 1..Len(lock.entries[section]) :
                  lock.entries[section][i].key # key
         \/ /\ Found(lock, section, key) # NoEntry
            /\ Found(lock, section, key) \in EntryOf(section)
            /\ \E i \in 1..Len(lock.entries[section]) :
                  /\ lock.entries[section][i].key = key
                  /\ Found(lock, section, key) = lock.entries[section][i]
<1> DEFINE list == lock.entries[section]
<1>1. /\ list \in Seq(EntryOf(section)) /\ Len(list) \in Nat
      /\ NoEntry \notin EntryOf(section)
  BY LockfileFields, EntryTypes
<1> HIDE DEF list
<1>2. \A i \in 1..Len(list) : list[i] \in EntryOf(section)
  BY <1>1
<1>3. \/ /\ \A i \in 1..Len(list) : list[i].key # key
         /\ Find(list, key) = NoEntry
      \/ \E i \in 1..Len(list) :
            /\ list[i].key = key
            /\ \A j \in 1..Len(list) : list[j].key = key => i <= j
            /\ Find(list, key) = list[i]
  BY <1>1, FindCases
<1> QED
  BY <1>1, <1>2, <1>3 DEF list, Found

(* A lockfile's pins are a map, which is no unreadable file. *)
LEMMA PinsAreMaps ==
  ASSUME NEW lock, IsLockfile(lock)
  PROVE  /\ Pins(lock) \in [Sections -> [Keys -> Entries \cup {NoEntry}]]
         /\ Pins(lock) # Garbage
<1>1. \A section \in Sections : \A key \in Keys :
         Found(lock, section, key) \in Entries \cup {NoEntry}
  BY FindPin, EntryTypes
<1>2. Pins(lock) \in [Sections -> [Keys -> Entries \cup {NoEntry}]]
  BY <1>1 DEF Pins, Found
<1> QED
  BY <1>2, LockfileAssumption

(* The document written has the pins in memory, their revisions explicit.  *)
LEMMA PinsOfDocument ==
  ASSUME NEW lock, IsLockfile(lock)
  PROVE  Pins(Document(lock)) = Maps!Sealed(Pins(lock))
<1>1. ASSUME NEW section \in Sections, NEW key
      PROVE  Found(Document(lock), section, key) =
                IF Found(lock, section, key) = NoEntry THEN NoEntry
                ELSE Explicit(section, Found(lock, section, key))
  <2>1. Found(Document(lock), section, key)
           = Found(Normalized(lock), section, key)
    BY DocumentLock
  <2>2. Found(Normalized(lock), section, key) =
           IF Found(lock, section, key) = NoEntry THEN NoEntry
           ELSE Explicit(section, Found(lock, section, key))
    BY NormalizedLock
  <2> QED
    BY <2>1, <2>2
<1> QED
  BY <1>1 DEF Pins, Found, Maps!Sealed

(* What the writer lets through is a consistent map: its pins are          *)
(* acceptable, and none is both a package and a tool.                      *)
LEMMA PinsAreConsistent ==
  ASSUME NEW lock, IsLockfile(lock), Problem(Normalized(lock)) = "ok"
  PROVE  Maps!Consistent(Maps!Sealed(Pins(lock)))
<1> DEFINE normal == Normalized(lock)
           found(section, key) == Found(normal, section, key)
           map == Maps!Sealed(Pins(lock))
<1>1. /\ IsLockfile(normal)
      /\ \A section \in Sections : SectionIsValid(normal, section)
      /\ ~Conflicting(normal)
  BY NormalizedLock, NoProblem
<1>2. \A section \in Sections : \A key \in Keys :
         map[section][key] = found(section, key)
  <2> SUFFICES ASSUME NEW section \in Sections, NEW key \in Keys
               PROVE  map[section][key] = found(section, key)
    OBVIOUS
  <2>1. found(section, key) =
           IF Found(lock, section, key) = NoEntry THEN NoEntry
           ELSE Explicit(section, Found(lock, section, key))
    BY NormalizedLock
  <2> HIDE DEF found
  <2> QED
    BY <2>1 DEF Maps!Sealed, Pins, Found
<1> HIDE DEF normal, map
<1>3. ASSUME NEW section \in Sections, NEW key \in Keys,
             found(section, key) # NoEntry
      PROVE  Acceptable(section, found(section, key))
  <2>1. PICK i \in 1..Len(normal.entries[section]) :
           found(section, key) = normal.entries[section][i]
    BY <1>1, <1>3, FindPin
  <2> QED
    BY <1>1, <2>1 DEF SectionIsValid
<1>4. ASSUME NEW key \in Keys,
             found("packages", key) # NoEntry, found("tools", key) # NoEntry
      PROVE  FALSE
  <2>1. "tools" \in Sections
    BY DEF Sections, LockedSections
  <2>2. PICK i \in 1..Len(normal.entries["tools"]) :
           normal.entries["tools"][i].key = key
    BY <1>1, <1>4, <2>1, FindPin
  <2> QED
    BY <1>1, <1>4, <2>2 DEF Conflicting, Found
<1> HIDE DEF found
<1>5. \A s, t \in LockedSections : \A key \in Keys :
         s # t => map[s][key] = NoEntry \/ map[t][key] = NoEntry
  BY <1>2, <1>4 DEF LockedSections, Sections
<1> QED
  BY <1>2, <1>3, <1>5 DEF Maps!Consistent, map

-----------------------------------------------------------------------------
(* The theorems *)

(* Whatever the entries, the files met and the order of the operations,    *)
(* a file that the program wrote last is readable, lists each array in     *)
(* strict key order, and is written again as it is (to_toml_string).       *)
THEOREM WrittenFiles ==
  Spec => []WrittenFileIsCanonical
<1>1. IInv => WrittenFileIsCanonical
  BY DEF IInv
<1> QED
  BY <1>1, InvariantHolds, PTL

(* An operation that reports an error has changed neither the lockfile in  *)
(* memory nor the file.                                                    *)
THEOREM FailuresAreHarmless ==
  Spec => FailureChangesNothing
<1>1. [Next]_vars => [result' # "ok" => UNCHANGED <<memory, disk>>]_vars
  <2> SUFFICES ASSUME Next, result' # "ok"
               PROVE  UNCHANGED <<memory, disk>>
    BY DEF vars
  <2>1. CASE Read
    BY <2>1 DEF Read
  <2>2. CASE Write
    BY <2>2 DEF Write
  <2>3. ASSUME NEW section \in Sections, NEW entry \in Offered[section],
               UpsertLocked(section, entry) \/ UpsertRecord(section, entry)
        PROVE  UNCHANGED <<memory, disk>>
    BY <2>3 DEF UpsertLocked, UpsertRecord
  <2>4. ASSUME NEW lock \in Assembled, Assemble(lock)
        PROVE  UNCHANGED <<memory, disk>>
    BY <2>4 DEF Assemble
  <2>5. ASSUME NEW document \in Documents \cup {NoFile, Garbage},
               Edit(document)
        PROVE  UNCHANGED <<memory, disk>>
    BY <2>5 DEF Edit
  <2> QED
    BY <2>1, <2>2, <2>3, <2>4, <2>5 DEF Next
<1> QED
  BY <1>1, PTL DEF Spec, FailureChangesNothing

(* The vectors, and the file, are a map from identities to pins and what a *)
(* reader finds of it: Lockfile implements PinnedLock.                     *)
THEOREM Refinement ==
  Spec => ImplementsPinnedLock
<1>1. Init => Maps!Init
  <2> SUFFICES ASSUME Init
               PROVE  Maps!Init
    OBVIOUS
  <2>1. Pins(memory) = Maps!Nothing
    BY EmptyLock DEF Init, Pins, Found, Maps!Nothing
  <2> QED
    BY <2>1 DEF Init, Maps!Init
<1>2. IInv /\ [Next]_vars => [Maps!Next]_(Maps!vars)
  <2> SUFFICES ASSUME IInv, [Next]_vars
               PROVE  [Maps!Next]_(Maps!vars)
    OBVIOUS
  <2>0. /\ IsLockfile(memory)
        /\ disk \in {NoFile, Garbage} \/ IsLockfile(disk)
    BY DEF IInv, TypesHold
  <2>1. CASE Read
    <3>1. CASE result' = "ok"
      <4>1. /\ memory' = disk /\ UNCHANGED disk
            /\ Problem(disk) = "ok" /\ disk \notin {NoFile, Garbage}
        BY <2>1, <3>1 DEF Read
      <4>2. Contents(disk) = Pins(disk) /\ Contents(disk)' = Contents(disk)
        BY <4>1 DEF Contents
      <4>3. Pins(disk) # Garbage
        BY <2>0, <4>1, PinsAreMaps
      <4>4. Pins(memory)' = Pins(disk)
        BY <4>1 DEF Pins
      <4> QED
        BY <4>2, <4>3, <4>4 DEF Maps!Next, Maps!Load
    <3>2. CASE result' # "ok"
      BY <2>1, <3>2 DEF Read, Maps!vars, Pins, Contents
    <3> QED
      BY <3>1, <3>2
  <2>2. CASE Write
    <3>1. CASE result' = "ok"
      <4>1. /\ disk' = Document(memory) /\ UNCHANGED memory
            /\ Problem(Normalized(memory)) = "ok"
        BY <2>2, <3>1 DEF Write, WriteProblem
      <4>2. Problem(Document(memory)) = "ok"
        BY <2>0, <4>1, CanonicalDocument
      <4>3. disk' \notin {NoFile, Garbage}
        BY <2>0, <4>1, DocumentLock, LockfileAssumption
      <4>4. Contents(disk)' = Maps!Sealed(Pins(memory))
        BY <2>0, <4>1, <4>2, <4>3, PinsOfDocument DEF Contents
      <4>5. Maps!Consistent(Maps!Sealed(Pins(memory)))
        BY <2>0, <4>1, PinsAreConsistent
      <4>6. UNCHANGED Pins(memory)
        BY <4>1
      <4> QED
        BY <4>4, <4>5, <4>6 DEF Maps!Next, Maps!Store
    <3>2. CASE result' # "ok"
      BY <2>2, <3>2 DEF Write, Maps!vars, Pins, Contents
    <3> QED
      BY <3>1, <3>2
  <2>3. ASSUME NEW section \in Sections, NEW entry \in Offered[section],
               UpsertLocked(section, entry) \/ UpsertRecord(section, entry)
        PROVE  [Maps!Next]_(Maps!vars)
    <3>1. UNCHANGED disk /\ UNCHANGED Contents(disk)
      BY <2>3 DEF UpsertLocked, UpsertRecord
    <3>2. CASE UNCHANGED memory
      BY <3>1, <3>2 DEF Maps!vars, Pins
    <3>3. CASE memory' = [memory EXCEPT !.entries[section] = Upserted(@, entry)]
      <4>1. /\ entry \in EntryOf(section) /\ entry.key \in Keys
            /\ entry # NoEntry
        BY LockfileAssumption, EntryTypes
      <4>2. \A other \in Sections : \A key :
               Found(memory', other, key) =
                  IF other = section /\ key = entry.key THEN entry
                  ELSE Found(memory, other, key)
        BY <2>0, <3>3, <4>1, UpsertedLock
      <4>3. Pins(memory)' =
               [Pins(memory) EXCEPT ![section][entry.key] = entry]
        BY <4>1, <4>2 DEF Pins, Found
      <4>4. Pins(memory)'[section][entry.key] = entry
        BY <4>1, <4>2 DEF Pins, Found
      <4>5. Maps!Pin(section, entry.key)
        BY <3>1, <4>1, <4>3, <4>4 DEF Maps!Pin
      <4> QED
        BY <4>1, <4>5 DEF Maps!Next
    <3> QED
      BY <2>3, <3>2, <3>3 DEF UpsertLocked, UpsertRecord
  <2>4. ASSUME NEW lock \in Assembled, Assemble(lock)
        PROVE  [Maps!Next]_(Maps!vars)
    <3>1. Pins(memory)' = Pins(lock) /\ UNCHANGED Contents(disk)
      BY <2>4 DEF Assemble, Pins, Contents
    <3> QED
      BY <3>1 DEF Maps!Next, Maps!Build
  <2>5. ASSUME NEW document \in Documents \cup {NoFile, Garbage},
               Edit(document)
        PROVE  [Maps!Next]_(Maps!vars)
    <3>1. Contents(disk)' = Contents(document) /\ UNCHANGED Pins(memory)
      BY <2>5 DEF Edit, Pins, Contents
    <3> QED
      BY <3>1 DEF Maps!Next, Maps!Replace
  <2>6. CASE UNCHANGED vars
    BY <2>6 DEF vars, Maps!vars, Pins, Contents
  <2> QED
    BY <2>1, <2>2, <2>3, <2>4, <2>5, <2>6 DEF Next
<1> QED
  BY <1>1, <1>2, InvariantHolds, PTL
  DEF Spec, ImplementsPinnedLock, Maps!Spec

-----------------------------------------------------------------------------
(* Releases on channels *)

(* The syntaxes of hosts, and which hosts have those without a mark. *)
LEMMA Syntaxes ==
  ASSUME NEW host
  PROVE  /\ PrereleaseSyntax(host) \in
              {"endpoint only", "pep440", "rubygems dotted",
               "maven qualifier", "cpan trial", "reference channel",
               "unsupported", "semver"}
         /\ PrereleaseSyntax(host) = "endpoint only" <=> host = "hackage"
         /\ PrereleaseSyntax(host) = "reference channel"
               <=> host = "conan-center"
         /\ AllowsRepublish(host)
               <=> PrereleaseSyntax(host) = "maven qualifier"
  BY DEF PrereleaseSyntax, AllowsRepublish

(* The marks of PEP 440. *)
LEMMA Pep440Marks ==
  /\ Pep440Mark["rc"] = "rc" /\ Pep440Mark["beta"] = "b"
  /\ Pep440Mark["alpha"] = "a" /\ Pep440Mark["nightly"] = "dev"
BY DEF Pep440Mark

(* What a version that a host accepts says of its channel. *)
Spells(host, channel, iteration, base, version) ==
    /\ version.base = base
    /\ channel = "stable" \/ host \in OneVersionForAllCandidates
          => version.mark = ""
    /\ channel = "snapshot" => /\ host \notin OneVersionForAllCandidates
                               /\ version.mark = "SNAPSHOT"
    /\ channel \notin {"stable", "snapshot"}
       /\ host \notin OneVersionForAllCandidates =>
          /\ version.mark \notin {"", "SNAPSHOT"}
          /\ version.number = iteration
LEMMA Spelled ==
  ASSUME NEW host, NEW base, NEW channel \in Channels, NEW iteration,
         ~Unroutable(host, channel, iteration)
  PROVE  Spells(host, channel, iteration, base,
                Apply(PrereleaseSyntax(host), base, channel, iteration))
<1> DEFINE syntax == PrereleaseSyntax(host)
           plain == Apply(syntax, "base", channel, iteration)
<1>1. /\ channel = "snapshot" => AllowsRepublish(host)
      /\ plain # NoVersion
  BY DEF Unroutable, IsMutable
<1>2. /\ syntax \in {"endpoint only", "pep440", "rubygems dotted",
               "maven qualifier", "cpan trial", "reference channel",
               "unsupported", "semver"}
      /\ syntax = "endpoint only" <=> host = "hackage"
      /\ syntax = "reference channel" <=> host = "conan-center"
      /\ AllowsRepublish(host) <=> syntax = "maven qualifier"
  BY Syntaxes
<1>3. channel \in {"stable", "rc", "beta", "alpha", "nightly", "snapshot"}
  BY DEF Channels
<1>4. CASE channel = "stable"
  BY <1>1, <1>2, <1>4 DEF Spells, Apply, Version, OneVersionForAllCandidates
<1>5. CASE channel = "snapshot"
  BY <1>1, <1>2, <1>5 DEF Spells, Apply, Version, OneVersionForAllCandidates
<1>6. CASE channel \in {"rc", "beta", "alpha", "nightly"}
  <2>1. CASE syntax = "pep440"
    BY <1>2, <1>6, <2>1, Pep440Marks
    DEF Spells, Apply, Version, OneVersionForAllCandidates
  <2>2. CASE syntax \in {"endpoint only", "reference channel"}
    BY <1>2, <1>6, <2>2 DEF Spells, Apply, Version, OneVersionForAllCandidates
  <2>3. CASE syntax \in {"cpan trial", "unsupported"}
    BY <1>1, <1>2, <1>6, <2>3
    DEF Spells, Apply, Version, NoVersion, OneVersionForAllCandidates
  <2>4. CASE syntax \in {"rubygems dotted", "maven qualifier", "semver"}
    BY <1>2, <1>6, <2>4 DEF Spells, Apply, Version, OneVersionForAllCandidates
  <2> QED
    BY <1>2, <2>1, <2>2, <2>3, <2>4
<1> QED
  BY <1>3, <1>4, <1>5, <1>6

(* Candidates of different channels are spelled differently. *)
LEMMA MarksDiffer ==
  ASSUME NEW host, host \notin OneVersionForAllCandidates,
         NEW c \in Channels, NEW d \in Channels, NEW i, NEW j,
         NEW a, NEW b,
         ~Unroutable(host, c, i), ~Unroutable(host, d, j),
         Apply(PrereleaseSyntax(host), a, c, i).mark
            = Apply(PrereleaseSyntax(host), b, d, j).mark
  PROVE  c = d
<1> DEFINE syntax == PrereleaseSyntax(host)
<1>1. /\ Apply(syntax, "base", c, i) # NoVersion
      /\ Apply(syntax, "base", d, j) # NoVersion
      /\ c = "snapshot" => AllowsRepublish(host)
      /\ d = "snapshot" => AllowsRepublish(host)
  BY DEF Unroutable, IsMutable
<1>2. /\ syntax \in {"pep440", "rubygems dotted", "maven qualifier",
                     "cpan trial", "unsupported", "semver"}
      /\ AllowsRepublish(host) <=> syntax = "maven qualifier"
  BY Syntaxes DEF OneVersionForAllCandidates
<1>3. Apply(syntax, a, c, i).mark = Apply(syntax, b, d, j).mark
  OBVIOUS
<1>4. /\ c \in {"stable", "rc", "beta", "alpha", "nightly", "snapshot"}
      /\ d \in {"stable", "rc", "beta", "alpha", "nightly", "snapshot"}
  BY DEF Channels
<1>5. CASE syntax = "pep440"
  <2>1. \A channel \in {"stable", "rc", "beta", "alpha", "nightly"} :
          \A base, iteration :
            Apply("pep440", base, channel, iteration).mark =
              IF channel = "stable" THEN "" ELSE Pep440Mark[channel]
    BY DEF Apply, Version
  <2>2. /\ c \in {"stable", "rc", "beta", "alpha", "nightly"}
        /\ d \in {"stable", "rc", "beta", "alpha", "nightly"}
    BY <1>1, <1>2, <1>4, <1>5
  <2> QED
    BY <1>3, <1>5, <2>1, <2>2, Pep440Marks
<1>6. CASE syntax = "cpan trial"
  BY <1>1, <1>2, <1>3, <1>4, <1>6 DEF Apply, Version, NoVersion
<1>7. CASE syntax \in {"rubygems dotted", "semver"}
  BY <1>1, <1>2, <1>3, <1>4, <1>7 DEF Apply, Version
<1>8. CASE syntax = "maven qualifier"
  BY <1>3, <1>4, <1>8 DEF Apply, Version
<1>9. CASE syntax = "unsupported"
  BY <1>1, <1>3, <1>4, <1>9 DEF Apply, Version, NoVersion
<1> QED
  BY <1>2, <1>5, <1>6, <1>7, <1>8, <1>9
-----------------------------------------------------------------------------
(* A release that was planned, and the coordinate it asks for. *)
Planned(release) ==
    /\ release.channel \in Channels
    /\ ~Unroutable(release.host, release.channel, release.iteration)
    /\ release.at = Coordinate(ChannelRoute(release.host, release.base,
                                            release.channel,
                                            release.iteration),
                               CanonicalPackage(release.host, release.name))

(* A registry refuses what another release has the place of. *)
Preceded(release) ==
    /\ release.channel # "snapshot"
    /\ \E upload \in uploads : /\ upload.host = release.host
                               /\ upload.at = release.at
ReleasesHold ==
    /\ \A release \in uploads \cup refused : Planned(release)
    /\ SnapshotsStayApart
    /\ \A release \in refused : Preceded(release)

(* What the coordinate of a release says. *)
LEMMA PlannedPlace ==
  ASSUME NEW r, Planned(r)
  PROVE  /\ r.channel \in Channels
         /\ ~Unroutable(r.host, r.channel, r.iteration)
         /\ r.at.version = Apply(PrereleaseSyntax(r.host), r.base,
                                r.channel, r.iteration)
         /\ r.at.place = ChannelEndpoints(r.host, r.channel).publish
         /\ r.at.tag = DistTag(r.host, r.channel)
  BY DEF Planned, Coordinate, ChannelRoute

(* What its version says. *)
LEMMA PlannedVersion ==
  ASSUME NEW r, Planned(r)
  PROVE  Spells(r.host, r.channel, r.iteration, r.base, r.at.version)
BY PlannedPlace, Spelled

(* Releases of one host that meet are of one channel and one version. *)
LEMMA SamePlace ==
  ASSUME NEW one, NEW two, Planned(one), Planned(two),
         one.host = two.host, one.at = two.at
  PROVE  /\ one.base = two.base
         /\ one.channel = "snapshot" <=> two.channel = "snapshot"
         /\ one.host \notin OneVersionForAllCandidates =>
               /\ one.channel = two.channel
               /\ \/ one.iteration = two.iteration
                  \/ one.channel \in {"stable", "snapshot"}
<1>1. one.host \notin OneVersionForAllCandidates
         => one.channel = two.channel
  <2> SUFFICES ASSUME one.host \notin OneVersionForAllCandidates
               PROVE  one.channel = two.channel
    OBVIOUS
  <2>1. PICK host, c, d, i, j, a, b :
            /\ host = one.host /\ c = one.channel /\ d = two.channel
            /\ i = one.iteration /\ j = two.iteration
            /\ a = one.base /\ b = two.base
    OBVIOUS
  <2>2. /\ c \in Channels /\ d \in Channels
        /\ ~Unroutable(host, c, i) /\ ~Unroutable(host, d, j)
        /\ Apply(PrereleaseSyntax(host), a, c, i)
              = Apply(PrereleaseSyntax(host), b, d, j)
    BY <2>1, PlannedPlace
  <2>3. host \notin OneVersionForAllCandidates
    BY <2>1
  <2>4. c = d
    BY <2>2, <2>3, MarksDiffer
  <2> QED
    BY <2>1, <2>4
<1>2. one.channel = "snapshot" => two.channel = "snapshot"
  BY <1>1, PlannedVersion DEF Spells
<1>3. two.channel = "snapshot" => one.channel = "snapshot"
  BY <1>1, PlannedVersion DEF Spells
<1> QED
  BY <1>1, <1>2, <1>3, PlannedVersion DEF Spells

(* A release is uploaded, or refused, as it was planned. *)
LEMMA ReleaseHolds ==
  ASSUME NEW native, NEW channel \in Channels, NEW iteration,
         Upload(native, channel, iteration), ReleasesHold
  PROVE  ReleasesHold'
<1> DEFINE host == native.registry
           route == ChannelRoute(host, manifest.package.version, channel,
                                 iteration)
           coordinate == Coordinate(route,
                                    CanonicalPackage(host, native.package))
           release == [host |-> host, channel |-> channel,
                       iteration |-> iteration, at |-> coordinate,
                       base |-> manifest.package.version,
                       name |-> native.package]
           taken == \E upload \in uploads : /\ upload.host = host
                                            /\ upload.at = coordinate
<1>1. /\ ~Unroutable(host, channel, iteration)
      /\ \/ /\ taken /\ ~(route.mutable /\ AllowsRepublish(host))
            /\ refused' = refused \cup {release} /\ UNCHANGED uploads
         \/ /\ ~(taken /\ ~(route.mutable /\ AllowsRepublish(host)))
            /\ uploads' = uploads \cup {release} /\ UNCHANGED refused
  BY DEF Upload
<1>2. route.mutable <=> channel = "snapshot"
  BY DEF ChannelRoute, IsMutable
<1>3. Planned(release)
  BY <1>1 DEF Planned
<1>4. channel = "snapshot" => AllowsRepublish(host)
  BY <1>1 DEF Unroutable, IsMutable
<1>5. \A r : r \in uploads \cup refused => Planned(r)
  BY DEF ReleasesHold
<1>6. /\ release.host = host /\ release.channel = channel
      /\ release.at = coordinate
  OBVIOUS
<1> HIDE DEF release, coordinate, route, host
<1>7. \A r : r \in uploads' \cup refused' => Planned(r)
  BY <1>1, <1>3, <1>5
<1>8. \A r \in refused' : Preceded(r)'
  BY <1>1, <1>2, <1>4, <1>6 DEF Preceded, ReleasesHold
<1>9. SnapshotsStayApart'
  <2> SUFFICES ASSUME NEW one \in uploads', NEW two \in uploads',
                      one.host = two.host, one.at = two.at, one # two
               PROVE  one.channel = "snapshot" /\ two.channel = "snapshot"
    BY DEF SnapshotsStayApart
  <2>1. CASE one \in uploads /\ two \in uploads
    BY <2>1 DEF ReleasesHold, SnapshotsStayApart
  <2>2. CASE ~(one \in uploads /\ two \in uploads)
    <3>1. taken /\ uploads' = uploads \cup {release}
      BY <2>2, <1>1, <1>6
    <3>2. channel = "snapshot"
      BY <3>1, <1>1, <1>2, <2>2
    <3>3. one = release \/ two = release
      BY <3>1, <2>2
    <3>4. Planned(one) /\ Planned(two)
      BY <1>7
    <3> QED
      BY <3>2, <3>3, <3>4, <1>6, SamePlace
  <2> QED
    BY <2>1, <2>2
<1>10. \A r \in uploads' \cup refused' : Planned(r)'
  BY <1>7 DEF Planned
<1> QED
  BY <1>8, <1>9, <1>10 DEF ReleasesHold

(* The releases hold at every step. *)
LEMMA ReleasesInvariant == PackageSpec => []ReleasesHold
<1>1. PackageInit => ReleasesHold
  BY DEF PackageInit, ReleasesHold, SnapshotsStayApart
<1>2. ReleasesHold /\ [PackageNext]_packageVars => ReleasesHold'
  <2> SUFFICES ASSUME ReleasesHold, [PackageNext]_packageVars
               PROVE  ReleasesHold'
    OBVIOUS
  <2>1. CASE UNCHANGED <<uploads, refused>>
    BY <2>1 DEF ReleasesHold, SnapshotsStayApart, Planned, Preceded
  <2>2. CASE Release
    BY <2>2, ReleaseHolds DEF Release
  <2> QED
    BY <2>1, <2>2
    DEF PackageNext, packageVars, Save, PublishWhole, PublishTarget
<1> QED
  BY <1>1, <1>2, PTL DEF PackageSpec

(* What is planned lands, unless it landed before: two releases of one     *)
(* package compete for a coordinate only if they are the same one          *)
(* (NativeHost::channel_route, PrereleaseSyntax::apply).                   *)
THEOREM PlansAreKept == PackageSpec => []PlannedReleasesLand
<1>1. ReleasesHold => PlannedReleasesLand
  <2> SUFFICES ASSUME ReleasesHold, NEW release \in refused,
                      release.host \notin OneVersionForAllCandidates
               PROVE  \E upload \in uploads :
                         /\ upload.channel = release.channel
                         /\ upload.base = release.base
                         /\ \/ upload.iteration = release.iteration
                            \/ release.channel = "stable"
    BY DEF PlannedReleasesLand
  <2>1. PICK upload \in uploads : /\ upload.host = release.host
                                 /\ upload.at = release.at
    BY DEF ReleasesHold, Preceded
  <2>2. Planned(release) /\ Planned(upload) /\ release.channel # "snapshot"
    BY DEF ReleasesHold, Preceded
  <2> QED
    BY <2>1, <2>2, SamePlace
<1> QED
  BY <1>1, ReleasesInvariant, PTL

(* Neither a candidate nor a snapshot reaches the consumers of stable      *)
(* releases, and a snapshot replaces nothing but snapshots (dist_tag,      *)
(* channel_endpoints, PrereleaseSyntax::apply, allows_republish).          *)
THEOREM ChannelsApart == PackageSpec => []ChannelsStayApart
<1>1. ReleasesHold => UnpinnedConsumersSeeStable
  <2> SUFFICES ASSUME ReleasesHold, NEW upload \in uploads,
                      upload.at.place = Endpoints(upload.host).publish,
                      upload.at.tag = DistTag(upload.host, "stable"),
                      upload.at.version.mark = "",
                      upload.channel # "stable"
               PROVE  FALSE
    BY DEF UnpinnedConsumersSeeStable
  <2> DEFINE host == upload.host
             channel == upload.channel
  <2>0. Planned(upload)
    BY DEF ReleasesHold
  <2>1. /\ channel \in Channels
        /\ ChannelEndpoints(host, channel).publish = Endpoints(host).publish
        /\ DistTag(host, channel) = DistTag(host, "stable")
    BY <2>0, PlannedPlace
  <2>2. host \in OneVersionForAllCandidates
    BY <2>0, PlannedVersion DEF Spells
  <2>3. CASE host = "hackage"
    BY <2>1, <2>3 DEF ChannelEndpoints, Endpoints
  <2>4. CASE host = "conan-center"
    BY <2>1, <2>4 DEF DistTag
  <2> QED
    BY <2>2, <2>3, <2>4 DEF OneVersionForAllCandidates
<1>2. ReleasesHold => SnapshotsStayApart
  BY DEF ReleasesHold
<1> QED
  BY <1>1, <1>2, ReleasesInvariant, PTL DEF ChannelsStayApart

-----------------------------------------------------------------------------
(* Artifacts of targets *)

(* A check of every element of two lists is one of the lists together. *)
LEMMA AllTogether ==
  ASSUME NEW s, IsList(s), NEW t, IsList(t), AllWellFormed(s),
         \A i \in 1..Len(t) : WellFormed(t[i])
  PROVE  AllWellFormed(s \o t)
<1>1. DOMAIN s = 1..Len(s) /\ Len(s) \in Nat /\ Len(t) \in Nat
  BY ListIsSeq
<1>2. \A i \in 1..(Len(s) + Len(t)) :
         /\ i <= Len(s) => i \in 1..Len(s)
         /\ ~(i <= Len(s)) => i - Len(s) \in 1..Len(t)
  BY <1>1
<1> QED
  BY <1>1, <1>2, Concatenated DEF AllWellFormed

(* The packages of a target that were not seen, after those that were. *)
LEMMA JoinedLists ==
  ASSUME NEW seen, IsList(seen), NEW items, IsList(items),
         AllWellFormed(seen), AllWellFormed(items), IsInjective(seen)
  PROVE  /\ AllWellFormed(Joined(seen, items))
         /\ IsInjective(Joined(seen, items))
<1> DEFINE kept == Unseen(seen, items)
           before == ByPosition(items)
           order == InOrderOf(kept, before)
           n == Cardinality(kept)
           new == Arranged(items, kept, before)
           u == seen \o new
           m == Len(seen)
<1>1. /\ DOMAIN seen = 1..m /\ m \in Nat
      /\ DOMAIN items = 1..Len(items) /\ Len(items) \in Nat
  BY ListIsSeq
<1>2. kept \subseteq 1..Len(items) /\ IsFiniteSet(kept)
  <2>1. kept \subseteq 1..Len(items)
    BY DEF Unseen
  <2>2. IsFiniteSet(1..Len(items))
    BY <1>1, FS_Interval
  <2> QED
    BY <2>1, <2>2, FS_Subset
<1>3. StrictTotalOrder(kept, before)
  BY <1>1, <1>2 DEF StrictTotalOrder, ByPosition
<1>4. /\ n \in Nat /\ order \in [1..n -> kept]
      /\ \A p, q \in 1..n : order[p] = order[q] => p = q
  BY <1>2, <1>3, InOrderOfSet
<1>5. new = [p \in 1..n |-> items[order[p]]]
  BY DEF Arranged
<1> HIDE DEF kept, before, order, n, new
<1>6. Len(new) = n /\ IsList(new)
  BY <1>4, <1>5 DEF IsList
<1>7. \A p \in 1..n : /\ order[p] \in 1..Len(items)
                      /\ new[p] = items[order[p]]
                      /\ \A j \in 1..m : seen[j] # new[p]
  BY <1>2, <1>4, <1>5 DEF kept, Unseen
<1>8. \A p, q \in 1..n : new[p] = new[q] => p = q
  <2> SUFFICES ASSUME NEW p \in 1..n, NEW q \in 1..n, new[p] = new[q]
               PROVE  order[p] = order[q]
    BY <1>4
  <2>1. /\ order[p] \in kept /\ order[q] \in kept
        /\ items[order[p]] = items[order[q]]
        /\ order[p] \in 1..Len(items) /\ order[q] \in 1..Len(items)
    BY <1>4, <1>7
  <2>2. ~(order[p] < order[q])
    BY <2>1, <1>1 DEF kept, Unseen
  <2>3. ~(order[q] < order[p])
    BY <2>1, <1>1 DEF kept, Unseen
  <2> QED
    BY <2>1, <2>2, <2>3, <1>1
<1>9. /\ DOMAIN u = 1..(m + n)
      /\ \A i \in 1..(m + n) : u[i] = IF i <= m THEN seen[i] ELSE new[i - m]
  BY <1>6, Concatenated
<1>10. \A i \in 1..(m + n) : /\ i <= m => i \in 1..m
                             /\ ~(i <= m) => i - m \in 1..n
  BY <1>1, <1>4
<1>11. AllWellFormed(u)
  BY <1>6, <1>7, <1>1, AllTogether DEF AllWellFormed
<1>12. IsInjective(u)
  <2> SUFFICES ASSUME NEW i \in 1..(m + n), NEW j \in 1..(m + n),
                      u[i] = u[j]
               PROVE  i = j
    BY <1>9 DEF IsInjective
  <2>1. CASE i <= m /\ j <= m
    BY <2>1, <1>1, <1>9, <1>10 DEF IsInjective
  <2>2. CASE ~(i <= m) /\ ~(j <= m)
    <3>1. i - m = j - m
      BY <2>2, <1>8, <1>9, <1>10
    <3> QED
      BY <3>1, <1>1
  <2>3. CASE i <= m /\ ~(j <= m)
    <3>1. /\ i \in 1..m /\ j - m \in 1..n
          /\ u[i] = seen[i] /\ u[j] = new[j - m]
      BY <2>3, <1>9, <1>10
    <3> QED
      BY <3>1, <1>7
  <2>4. CASE ~(i <= m) /\ j <= m
    <3>1. /\ j \in 1..m /\ i - m \in 1..n
          /\ u[j] = seen[j] /\ u[i] = new[i - m]
      BY <2>4, <1>9, <1>10
    <3> QED
      BY <3>1, <1>7
  <2> QED
    BY <2>1, <2>2, <2>3, <2>4
<1> QED
  BY <1>11, <1>12 DEF Joined, kept, before, new

(* The native dependencies of a target and its package are sound when each *)
(* of them is.                                                             *)
LEMMA MergedDependencies ==
  ASSUME NEW package, IsNativeDependencies(package),
         ValidNativeDependencies(package),
         NEW target, IsNativeDependencies(target),
         ValidNativeDependencies(target)
  PROVE  ValidNativeDependencies(MergedNativeDependencies(package, target))
<1> DEFINE merged == MergedNativeDependencies(package, target)
<1>1. IsList(<<>>) /\ AllWellFormed(<<>>) /\ IsInjective(<<>>)
  BY DEF IsList, AllWellFormed, IsInjective
<1>2. \A manager : /\ IsList(Packages(package, manager))
                   /\ AllWellFormed(Packages(package, manager))
                   /\ IsInjective(Packages(package, manager))
                   /\ IsList(Packages(target, manager))
                   /\ AllWellFormed(Packages(target, manager))
  BY <1>1 DEF IsNativeDependencies, ValidNativeDependencies, Packages
<1>3. /\ DOMAIN merged \subseteq NativePackageManagers
      /\ \A manager \in DOMAIN merged :
            merged[manager] = Joined(Packages(package, manager),
                                     Packages(target, manager))
  BY DEF MergedNativeDependencies, ValidNativeDependencies
<1> HIDE DEF merged
<1>4. \A manager \in DOMAIN merged : /\ AllWellFormed(merged[manager])
                                     /\ IsInjective(merged[manager])
  BY <1>2, <1>3, JoinedLists
<1> QED
  BY <1>3, <1>4 DEF ValidNativeDependencies, merged

(* The parts of the manifest of a target: its own and its package's. *)
KeepsPackage(slice, m, key) ==
    /\ slice.package.org = m.package.org
    /\ slice.package.version = m.package.version
    /\ slice.package.repository = m.package.repository
    /\ slice.package.artifacts = m.package.artifacts
    /\ slice.package.name = TargetPackageName(m, key)
    /\ slice.package.kind = EffectiveKind(m.targets[key], m.package.kind)
    /\ FromToken(key) # NoLanguage =>
          /\ slice.package.language = FromToken(key)
          /\ slice.package.ecosystem = EcosystemFor(m.targets[key], key)
LEMMA SliceOfPackage ==
  ASSUME NEW m, IsManifest(m), NEW key \in DOMAIN m.targets
  PROVE  KeepsPackage(ManifestForTarget(m, key), m, key)
<1> DEFINE section == m.targets[key]
           stamped == IF FromToken(key) = NoLanguage THEN m.package
                      ELSE [m.package EXCEPT
                               !.language = FromToken(key),
                               !.ecosystem = EcosystemFor(section, key)]
           package == [stamped EXCEPT
                          !.name = TargetPackageName(m, key),
                          !.kind = EffectiveKind(section, @)]
<1>1. ManifestForTarget(m, key).package = package
  BY DEF ManifestForTarget, IsManifest, HasFields
<1>2. {"org", "name", "kind", "version", "repository", "artifacts",
       "language", "ecosystem"} \subseteq DOMAIN m.package
  BY DEF IsManifest, HasFields
<1>3. /\ {"org", "name", "kind", "version", "repository", "artifacts",
          "language", "ecosystem"} \subseteq DOMAIN stamped
      /\ stamped.org = m.package.org /\ stamped.version = m.package.version
      /\ stamped.repository = m.package.repository
      /\ stamped.artifacts = m.package.artifacts
      /\ stamped.kind = m.package.kind
      /\ FromToken(key) # NoLanguage =>
            /\ stamped.language = FromToken(key)
            /\ stamped.ecosystem = EcosystemFor(section, key)
  BY <1>2
<1> HIDE DEF stamped
<1>4. /\ package.org = stamped.org /\ package.version = stamped.version
      /\ package.repository = stamped.repository
      /\ package.artifacts = stamped.artifacts
      /\ package.name = TargetPackageName(m, key)
      /\ package.kind = EffectiveKind(section, stamped.kind)
      /\ package.language = stamped.language
      /\ package.ecosystem = stamped.ecosystem
  BY <1>3
<1> HIDE DEF package
<1> QED
  BY <1>1, <1>3, <1>4 DEF KeepsPackage

(* The other sections, with the fields that relate to others. *)
KeepsSections(slice, m, key) ==
    /\ slice.dependencies = m.dependencies
    /\ slice.build_dependencies = m.build_dependencies
    /\ slice.tool_dependencies = m.tool_dependencies
    /\ slice.lifecycle = m.lifecycle /\ slice.build = m.build
    /\ slice.overrides = m.overrides /\ slice.bin = m.bin
    /\ slice.interop = m.interop
    /\ slice.native_dependencies
          = MergedNativeDependencies(m.native_dependencies,
                                     m.targets[key].native_dependencies)
    /\ slice.hooks = MergedHooks(m.hooks, m.targets[key].hooks)
    /\ DOMAIN slice.targets = {} /\ slice.workspace = <<>>
KeepsFields(slice, m, key) ==
    /\ slice.publish.tag_format = m.publish.tag_format
    /\ slice.publish.smoke_test_windows = m.publish.smoke_test_windows
    /\ slice.publish.native = m.targets[key].native
    /\ slice.publish.nix = m.targets[key].nix
    /\ slice.install.dir = m.install.dir
    /\ slice.install.target = Absent
LEMMA SliceOfSections ==
  ASSUME NEW m, IsManifest(m), NEW key \in DOMAIN m.targets
  PROVE  /\ KeepsSections(ManifestForTarget(m, key), m, key)
         /\ KeepsFields(ManifestForTarget(m, key), m, key)
<1> DEFINE slice == ManifestForTarget(m, key)
           section == m.targets[key]
<1>1. KeepsSections(slice, m, key)
  BY DEF KeepsSections, ManifestForTarget, IsManifest, HasFields
<1>2. /\ slice.publish = [m.publish EXCEPT !.native = section.native,
                                           !.nix = section.nix]
      /\ slice.install = [m.install EXCEPT
                             !.adapter = Or(section.adapter, @),
                             !.target = Absent]
  BY DEF ManifestForTarget, IsManifest, HasFields
<1> HIDE DEF slice
<1>3. KeepsFields(slice, m, key)
  BY <1>2 DEF KeepsFields, IsManifest, HasFields
<1> QED
  BY <1>1, <1>3 DEF slice

-----------------------------------------------------------------------------
(* The slice of a target whose key names a language is valid. *)
LEMMA SliceIsValid ==
  ASSUME NEW m, IsManifest(m), ValidManifest(m),
         NEW key \in DOMAIN m.targets, FromToken(key) # NoLanguage
  PROVE  ValidManifest(ManifestForTarget(m, key))
<1> DEFINE slice == ManifestForTarget(m, key)
           section == m.targets[key]
           name == TargetPackageName(m, key)
<1>1. /\ slice.package.org = m.package.org
      /\ slice.package.version = m.package.version
      /\ slice.package.repository = m.package.repository
      /\ slice.package.artifacts = m.package.artifacts
      /\ slice.package.name = name
      /\ slice.package.language = FromToken(key)
      /\ slice.package.ecosystem = EcosystemFor(section, key)
  BY SliceOfPackage DEF KeepsPackage
<1>2. /\ slice.dependencies = m.dependencies
      /\ slice.build_dependencies = m.build_dependencies
      /\ slice.tool_dependencies = m.tool_dependencies
      /\ slice.lifecycle = m.lifecycle /\ slice.build = m.build
      /\ slice.overrides = m.overrides /\ slice.bin = m.bin
      /\ slice.interop = m.interop
      /\ slice.native_dependencies
            = MergedNativeDependencies(m.native_dependencies,
                                       section.native_dependencies)
      /\ slice.hooks = MergedHooks(m.hooks, section.hooks)
      /\ DOMAIN slice.targets = {} /\ slice.workspace = <<>>
  BY SliceOfSections DEF KeepsSections
<1>3. /\ slice.publish.smoke_test_windows = m.publish.smoke_test_windows
      /\ slice.publish.native = section.native
      /\ slice.publish.nix = section.nix
      /\ slice.install.dir = m.install.dir
      /\ slice.install.target = Absent
  BY SliceOfSections DEF KeepsFields
<1> HIDE DEF slice
<1>4. ValidTarget(m, key)
  BY DEF ValidManifest
<1>5. ValidPackage(slice.package)
  <2>1. WellFormed(name)
    BY <1>4 DEF ValidTarget
  <2>2. ValidPackage(m.package)
    BY DEF ValidManifest
  <2> QED
    BY <1>1, <2>1, <2>2 DEF ValidPackage
<1>6. ValidDependencies(slice)
  BY <1>2 DEF ValidManifest, ValidDependencies
<1>7. PackageEcosystem(slice.package) = EcosystemFor(section, key)
  BY <1>1 DEF PackageEcosystem, EcosystemFor, LanguageFor
<1>8. slice.publish.native # Absent =>
         ValidNativeRelease(slice.publish.native, Dot,
                            PackageEcosystem(slice.package))
  <2>1. section.native # Absent =>
           ValidNativeRelease(section.native, section.dir,
                              EcosystemFor(section, key))
    BY <1>4 DEF ValidTarget
  <2> QED
    BY <1>3, <1>7, <2>1 DEF ValidNativeRelease
<1>9. slice.publish.nix # Absent =>
         ValidNixExport(slice.publish.nix, slice.package.name)
  BY <1>1, <1>3, <1>4 DEF ValidTarget
<1>10. ValidNativeDependencies(slice.native_dependencies)
  <2>1. /\ ValidNativeDependencies(m.native_dependencies)
        /\ ValidNativeDependencies(section.native_dependencies)
    BY <1>4 DEF ValidManifest, ValidTarget
  <2>2. /\ IsNativeDependencies(m.native_dependencies)
        /\ IsNativeDependencies(section.native_dependencies)
    BY DEF IsManifest
  <2> QED
    BY <1>2, <2>1, <2>2, MergedDependencies
<1>11. ValidInstallHooks(slice.hooks)
  <2>1. ValidInstallHooks(m.hooks) /\ ValidInstallHooks(section.hooks)
    BY <1>4 DEF ValidManifest, ValidTarget
  <2>2. IsHooks(m.hooks) /\ IsHooks(section.hooks)
    BY DEF IsManifest
  <2>0. slice.hooks = MergedHooks(m.hooks, section.hooks)
    BY <1>2
  <2>3. /\ slice.hooks.pre_install
              = m.hooks.pre_install \o section.hooks.pre_install
        /\ slice.hooks.post_install
              = m.hooks.post_install \o section.hooks.post_install
    <3>1. PICK pre, post :
             /\ pre = m.hooks.pre_install \o section.hooks.pre_install
             /\ post = m.hooks.post_install \o section.hooks.post_install
      OBVIOUS
    <3>2. slice.hooks = [pre_install |-> pre, post_install |-> post]
      BY <2>0, <3>1 DEF MergedHooks
    <3>3. slice.hooks.pre_install = pre /\ slice.hooks.post_install = post
      BY <3>2
    <3> QED
      BY <3>1, <3>3
  <2>4. ASSUME NEW s, NEW t, IsList(s), IsList(t), AllWellFormed(s),
               AllWellFormed(t)
        PROVE  AllWellFormed(s \o t)
    BY <2>4, AllTogether, ListIsSeq DEF AllWellFormed
  <2> QED
    BY <2>1, <2>2, <2>3, <2>4 DEF ValidInstallHooks, IsHooks
<1>12. ValidSourceComposition(slice)
  <2>1. ModulesDir(slice) = ModulesDir(m)
    BY <1>3 DEF ModulesDir
  <2>2. \A path : ValidSourcePath(slice, path) <=> ValidSourcePath(m, path)
    BY <2>1 DEF ValidSourcePath
  <2>3. ValidSourceComposition(m)
    BY DEF ValidManifest
  <2> QED
    BY <1>2, <2>2, <2>3 DEF ValidSourceComposition
<1>13. ValidFlagsInterop(slice)
  BY <1>2 DEF ValidManifest, ValidFlagsInterop
<1>14. WellFormed(slice.install.target) /\ AllWellFormed(slice.workspace)
  BY <1>2, <1>3, PackageReleaseAssumption DEF WellFormed, AllWellFormed
<1>15. /\ ValidLifecycle(slice.lifecycle)
       /\ \A bin \in DOMAIN slice.bin :
             WellFormed(bin) /\ IsSafeRelativePath(slice.bin[bin])
       /\ WellFormed(slice.publish.smoke_test_windows)
       /\ slice.build # Absent => ValidBuild(slice.build)
       /\ ValidOverrides(slice.overrides)
       /\ slice.install.dir # Absent => IsSafeRelativePath(slice.install.dir)
  BY <1>2, <1>3 DEF ValidManifest
<1> QED
  BY <1>2, <1>5, <1>6, <1>8, <1>9, <1>10, <1>11, <1>12, <1>13, <1>14, <1>15
  DEF ValidManifest, slice

-----------------------------------------------------------------------------
(* Every artifact comes from a valid manifest: as it is, or one target. *)
ShelfHolds ==
    /\ manifest # Absent => IsManifest(manifest)
    /\ \A artifact \in shelf :
          /\ IsManifest(artifact.from) /\ ValidManifest(artifact.from)
          /\ \/ /\ artifact.target = Repository
                /\ artifact.manifest = artifact.from
             \/ /\ artifact.target \in DOMAIN artifact.from.targets
                /\ artifact.target # Repository
                /\ artifact.manifest
                      = ManifestForTarget(artifact.from, artifact.target)

(* The shelf holds such artifacts at every step. *)
LEMMA ShelfInvariant == PackageSpec => []ShelfHolds
<1>1. PackageInit => ShelfHolds
  BY DEF PackageInit, ShelfHolds
<1>2. ShelfHolds /\ [PackageNext]_packageVars => ShelfHolds'
  <2> SUFFICES ASSUME ShelfHolds, [PackageNext]_packageVars
               PROVE  ShelfHolds'
    OBVIOUS
  <2>1. CASE UNCHANGED <<manifest, shelf>>
    BY <2>1 DEF ShelfHolds
  <2>2. CASE \E draft \in Drafts : Save(draft)
    BY <2>2, PackageReleaseAssumption DEF ShelfHolds, Save
  <2>3. CASE PublishWhole
    BY <2>3 DEF ShelfHolds, PublishWhole, Artifact, Parsed
  <2>4. ASSUME NEW key \in Range(KeyOrder), PublishTarget(key)
        PROVE  ShelfHolds'
    BY <2>4, PackageReleaseAssumption
    DEF ShelfHolds, PublishTarget, Artifact, Parsed
  <2> QED
    BY <2>1, <2>2, <2>3, <2>4
    DEF PackageNext, packageVars, Release, Upload
<1> QED
  BY <1>1, <1>2, PTL DEF PackageSpec

(* An artifact of a target is a slice. *)
LEMMA ShelfOfTargets ==
  ASSUME ShelfHolds, NEW artifact \in shelf, artifact.target # Repository
  PROVE  /\ IsManifest(artifact.from) /\ ValidManifest(artifact.from)
         /\ artifact.target \in DOMAIN artifact.from.targets
         /\ artifact.manifest
               = ManifestForTarget(artifact.from, artifact.target)
  BY DEF ShelfHolds

(* A route that is moved to the repository. *)
Moved(r) == [r EXCEPT !.target = Repository, !.dir = Dot]

(* That of a registry. *)
LEMMA MovedNative ==
  ASSUME NEW target, NEW dir, NEW a, NEW b, NEW c, NEW d
  PROVE  Moved([target |-> target, dir |-> dir,
                registry |-> a, package |-> b, channel |-> c, vcs_tag |-> d])
            = [target |-> Repository, dir |-> Dot,
               registry |-> a, package |-> b, channel |-> c, vcs_tag |-> d]
<1> DEFINE r == [target |-> target, dir |-> dir,
                 registry |-> a, package |-> b, channel |-> c, vcs_tag |-> d]
           u == [r EXCEPT !.target = Repository, !.dir = Dot]
           v == [target |-> Repository, dir |-> Dot,
                 registry |-> a, package |-> b, channel |-> c, vcs_tag |-> d]
           fields == {"target", "dir", "registry", "package", "channel",
                      "vcs_tag"}
<1>1. DOMAIN u = fields
  OBVIOUS
<1>2. DOMAIN v = fields
  OBVIOUS
<1>3. /\ u["target"] = v["target"]
      /\ u["dir"] = v["dir"]
      /\ u["registry"] = v["registry"]
      /\ u["package"] = v["package"]
      /\ u["channel"] = v["channel"]
      /\ u["vcs_tag"] = v["vcs_tag"]
  OBVIOUS
<1>4. u = [f \in DOMAIN u |-> u[f]]
  OBVIOUS
<1>5. v = [f \in DOMAIN v |-> v[f]]
  OBVIOUS
<1> HIDE DEF u, v
<1>6. u = v
  BY <1>1, <1>2, <1>3, <1>4, <1>5
<1> QED
  BY <1>6 DEF u, v, Moved

(* That of a forge. *)
LEMMA MovedForge ==
  ASSUME NEW target, NEW dir, NEW a, NEW b, NEW c
  PROVE  Moved([target |-> target, dir |-> dir,
                registry |-> a, format |-> b, package |-> c])
            = [target |-> Repository, dir |-> Dot,
               registry |-> a, format |-> b, package |-> c]
<1> DEFINE r == [target |-> target, dir |-> dir,
                 registry |-> a, format |-> b, package |-> c]
           u == [r EXCEPT !.target = Repository, !.dir = Dot]
           v == [target |-> Repository, dir |-> Dot,
                 registry |-> a, format |-> b, package |-> c]
           fields == {"target", "dir", "registry", "format", "package"}
<1>1. DOMAIN u = fields
  OBVIOUS
<1>2. DOMAIN v = fields
  OBVIOUS
<1>3. /\ u["target"] = v["target"]
      /\ u["dir"] = v["dir"]
      /\ u["registry"] = v["registry"]
      /\ u["format"] = v["format"]
      /\ u["package"] = v["package"]
  OBVIOUS
<1>4. u = [f \in DOMAIN u |-> u[f]]
  OBVIOUS
<1>5. v = [f \in DOMAIN v |-> v[f]]
  OBVIOUS
<1> HIDE DEF u, v
<1>6. u = v
  BY <1>1, <1>2, <1>3, <1>4, <1>5
<1> QED
  BY <1>6 DEF u, v, Moved

(* A slice is routed as its target. *)
LEMMA SliceRoutes ==
  ASSUME NEW m, IsManifest(m), NEW key \in DOMAIN m.targets,
         key # Repository
  PROVE  LET slice == ManifestForTarget(m, key)
             OfTarget(routes) == {r \in routes : r.target = key}
         IN  /\ NativeReleaseRoutes(slice)
                   = Anywhere(OfTarget(NativeReleaseRoutes(m)))
             /\ ForgeReleaseRoutes(slice)
                   = Anywhere(OfTarget(ForgeReleaseRoutes(m)))
<1> DEFINE slice == ManifestForTarget(m, key)
           section == m.targets[key]
           own == [target |-> Repository, dir |-> Dot,
                   native |-> section.native]
           its == [target |-> key, dir |-> section.dir,
                   native |-> section.native]
           whole == RouteSources(m)
           OfTarget(routes) == {r \in routes : r.target = key}
           Native(x, s) == NativeRoute(x, s.target, s.dir, s.native)
           Forge(s, forge) ==
              [target |-> s.target, dir |-> s.dir, registry |-> forge,
               format |-> s.native.registry, package |-> s.native.package]
<1>1. /\ RouteSources(slice) = {own}
      /\ slice.publish.tag_format = m.publish.tag_format
      /\ slice.package.version = m.package.version
  <2>1. KeepsPackage(slice, m, key) /\ KeepsSections(slice, m, key)
        /\ KeepsFields(slice, m, key)
    BY SliceOfPackage, SliceOfSections
  <2> HIDE DEF slice
  <2>2. /\ DOMAIN slice.targets = {} /\ slice.publish.native = section.native
        /\ slice.publish.tag_format = m.publish.tag_format
        /\ slice.package.version = m.package.version
    BY <2>1 DEF KeepsPackage, KeepsSections, KeepsFields
  <2> QED
    BY <2>2 DEF RouteSources
<1>2. /\ its \in whole
      /\ \A s \in whole : s.target = key => s = its
  BY DEF RouteSources
<1>3. Native(slice, own) = Moved(Native(m, its))
  <2>1. /\ own.target = Repository /\ own.dir = Dot
        /\ own.native = section.native /\ its.native = section.native
    OBVIOUS
  <2> HIDE DEF own, its
  <2> DEFINE n == section.native
             tag == Tag(Or(n.tag_format, m.publish.tag_format),
                        m.package.version)
  <2>2. /\ Native(slice, own)
              = [target |-> Repository, dir |-> Dot, registry |-> n.registry,
                 package |-> n.package, channel |-> n.channel,
                 vcs_tag |-> tag]
        /\ Native(m, its)
              = [target |-> its.target, dir |-> its.dir,
                 registry |-> n.registry, package |-> n.package,
                 channel |-> n.channel, vcs_tag |-> tag]
    BY <1>1, <2>1 DEF NativeRoute
  <2> HIDE DEF n, tag, Native
  <2> QED
    BY <2>2, MovedNative
<1>4. \A forge : Forge(own, forge) = Moved(Forge(its, forge))
  <2>1. /\ own.target = Repository /\ own.dir = Dot
        /\ own.native = section.native /\ its.native = section.native
    OBVIOUS
  <2> HIDE DEF own, its
  <2> QED
    BY <2>1, MovedForge
<1>5. \A x, s : Native(x, s).target = s.target
  BY DEF NativeRoute
<1>6. \A s, forge : Forge(s, forge).target = s.target
  OBVIOUS
<1>7. /\ NativeReleaseRoutes(slice)
            = {Native(slice, s) : s \in {s \in {own} : s.native # Absent}}
      /\ NativeReleaseRoutes(m)
            = {Native(m, s) : s \in {s \in whole : s.native # Absent}}
      /\ ForgeReleaseRoutes(slice)
            = UNION {{Forge(s, forge) : forge \in Range(s.native.forge)} :
                        s \in {s \in {own} : s.native # Absent}}
      /\ ForgeReleaseRoutes(m)
            = UNION {{Forge(s, forge) : forge \in Range(s.native.forge)} :
                        s \in {s \in whole : s.native # Absent}}
  BY <1>1 DEF NativeReleaseRoutes, ForgeReleaseRoutes
<1>8. \A routes : Anywhere(routes) = {Moved(r) : r \in routes}
  BY DEF Anywhere, Moved
<1>9. /\ own.native = section.native /\ its.native = section.native
      /\ its.target = key
  OBVIOUS
<1> HIDE DEF slice, own, its, whole, Native, Forge
<1>10. NativeReleaseRoutes(slice) = Anywhere(OfTarget(NativeReleaseRoutes(m)))
  BY <1>2, <1>3, <1>5, <1>7, <1>8, <1>9
<1>11. ForgeReleaseRoutes(slice) = Anywhere(OfTarget(ForgeReleaseRoutes(m)))
  BY <1>2, <1>4, <1>6, <1>7, <1>8, <1>9
<1> QED
  BY <1>10, <1>11 DEF slice

(* What is published, built, installed or routed from the artifact of a    *)
(* target is what the target of the package would give, and it parses      *)
(* (manifest_for_target).                                                  *)
THEOREM SlicesAreTargets == PackageSpec => []SlicesStandForTargets
<1>1. ShelfHolds => SlicesParse
  BY SliceIsValid DEF ShelfHolds, SlicesParse, Named
<1>2. ShelfHolds => SlicesKeepTheirRoutes
  BY ShelfOfTargets, SliceRoutes DEF SlicesKeepTheirRoutes
<1>3. ShelfHolds => SliceInstallsAsItsTarget
  <2> SUFFICES ASSUME ShelfHolds, NEW artifact \in shelf,
                      artifact.target # Repository, NEW request \in Requests,
                      Resolve(artifact.from, request) = artifact.target
               PROVE  LET slice == artifact.manifest
                          whole == artifact.from
                      IN  /\ EffectiveNativeDependencies(slice, request)
                                = EffectiveNativeDependencies(whole, request)
                          /\ EffectiveInstallHooks(slice, request)
                                = EffectiveInstallHooks(whole, request)
                          /\ slice.package.kind
                                = EffectiveTargetKind(whole, request)
    BY DEF SliceInstallsAsItsTarget
  <2> DEFINE slice == artifact.manifest
             m == artifact.from
             key == artifact.target
  <2>1. /\ key \in DOMAIN m.targets /\ KeepsPackage(slice, m, key)
        /\ KeepsSections(slice, m, key)
    BY ShelfOfTargets, SliceOfPackage, SliceOfSections
  <2>2. request # Absent /\ DOMAIN m.targets # {}
    BY <2>1, PackageReleaseAssumption
  <2> QED
    BY <2>1, <2>2
    DEF EffectiveNativeDependencies, EffectiveInstallHooks,
        EffectiveTargetKind, KeepsPackage, KeepsSections
<1>4. ShelfHolds => SliceBuildsAsItsPackage
  <2> SUFFICES ASSUME ShelfHolds, NEW artifact \in shelf,
                      artifact.target # Repository
               PROVE  LET slice == artifact.manifest
                          whole == artifact.from
                      IN  /\ LifecycleCommands(slice)
                                = LifecycleCommands(whole)
                          /\ \A package \in {Repository} \cup
                                   DOMAIN whole.overrides.build,
                                windows \in BOOLEAN :
                                BuiltFor(slice, package, slice, windows)
                                  = BuiltFor(whole, package, whole, windows)
    BY DEF SliceBuildsAsItsPackage
  <2>1. KeepsSections(artifact.manifest, artifact.from, artifact.target)
    BY ShelfOfTargets, SliceOfSections
  <2> QED
    BY <2>1 DEF LifecycleCommands, BuiltFor, EffectiveBuild, KeepsSections
<1> QED
  BY <1>1, <1>2, <1>3, <1>4, ShelfInvariant, PTL DEF SlicesStandForTargets
=============================================================================
