---------------------------- MODULE InteropProofs ----------------------------
(***************************************************************************)
(* Proofs about what Zed exchanges with others, for every set of plans,    *)
(* records, families and results that is typed as the code types it.  Each *)
(* part has its own invariant; the hypotheses on constants say what the    *)
(* types of the code say, and what a digest, a store path or a package     *)
(* version decides.                                                        *)
(***************************************************************************)
EXTENDS Interop, FiniteSetTheorems, FunctionTheorems, SequenceTheorems, TLAPS

-----------------------------------------------------------------------------
(* Namespace plans. *)

(* What can be compared in one way only. *)
EarlierProviders ==
    {pair \in ProviderSet \X ProviderSet : ByProvider(pair[1], pair[2])}
EarlierTexts(texts) ==
    {pair \in texts \X texts : ByText(pair[1], pair[2])}

(* Texts are numbered as they sort. *)
Numbered(texts) ==
    /\ \A v \in texts : v.text \in Int
    /\ \A v, w \in texts : v.text = w.text => v = w

(* The types of the code: proofs are numbered, warnings are texts.         *)
TypedEntry(e, texts) ==
    /\ IsMap(e) /\ {"provider", "proofs", "warnings"} \subseteq DOMAIN e
    /\ e.provider \in ProviderSet
    /\ ListOf(e.proofs, Int) /\ ListOf(e.warnings, texts)
TypedPlan(plan, texts) ==
    /\ plan = [request |-> plan.request, entries |-> plan.entries,
               warnings |-> plan.warnings]
    /\ IsMap(plan.request) /\ "providers" \in DOMAIN plan.request
    /\ ListOf(plan.request.providers, ProviderSet)
    /\ IsList(plan.entries)
    /\ \A i \in 1..Len(plan.entries) : TypedEntry(plan.entries[i], texts)
    /\ ListOf(plan.warnings, texts)

(* As the normal form is. *)
SettledEntry(e, texts) ==
    /\ TypedEntry(e, texts)
    /\ Ordered(e.proofs, LessNumbers) /\ Once(e.proofs)
    /\ Ordered(e.warnings, EarlierTexts(texts))
SettledPlan(plan, texts) ==
    /\ TypedPlan(plan, texts)
    /\ Ordered(plan.request.providers, EarlierProviders)
    /\ Once(plan.request.providers)
    /\ \A i \in 1..Len(plan.entries) : SettledEntry(plan.entries[i], texts)
    /\ \A i, j \in 1..Len(plan.entries) :
          i < j => ByProvider(plan.entries[i].provider,
                              plan.entries[j].provider)
    /\ {e.provider : e \in Elements(plan.entries)}
          = Elements(plan.request.providers)
    /\ Ordered(plan.warnings, EarlierTexts(texts))

(* The positions of a list are its domain. *)
LEMMA ListDomain ==
  ASSUME NEW s, IsList(s)
  PROVE  /\ DOMAIN s = 1..Len(s) /\ Len(s) \in Nat
         /\ ToSet(s) = Elements(s)
BY DEF IsList, ToSet, Elements

(* Providers are in one order. *)
LEMMA ProvidersTotal ==
  /\ StrictTotalOrder(ProviderSet, EarlierProviders)
  /\ \A p \in ProviderSet : ProviderOrder(p) \in Int
  /\ \A p, q \in ProviderSet : ProviderOrder(p) = ProviderOrder(q) => p = q
<1>1. \A p \in ProviderSet :
         ProviderOrder(p) \in DOMAIN Providers
         /\ Providers[ProviderOrder(p)] = p
  BY DEF ProviderOrder, ProviderSet, ToSet
<1>2. DOMAIN Providers \subseteq Int
  BY DEF Providers
<1>3. \A p \in ProviderSet : ProviderOrder(p) \in Int
  BY <1>1, <1>2
<1>4. \A p, q \in ProviderSet : ProviderOrder(p) = ProviderOrder(q) => p = q
  BY <1>1
<1> QED
  BY <1>3, <1>4 DEF StrictTotalOrder, EarlierProviders, ByProvider

(* Texts that are numbered are in a total order. *)
LEMMA TextsTotal ==
  ASSUME NEW texts, Numbered(texts)
  PROVE  StrictTotalOrder(texts, EarlierTexts(texts))
BY DEF StrictTotalOrder, EarlierTexts, ByText, Numbered

(* What the sort of a list leaves: of a list of texts, ... *)
LEMMA TextsSorted ==
  ASSUME NEW texts, Numbered(texts), NEW s, ListOf(s, texts)
  PROVE  LET t == SortedBy(s, ByText)
         IN  ListOf(t, texts) /\ Ordered(t, EarlierTexts(texts))
<1> DEFINE less == Positions(s, ByText)
           t == SortedBy(s, ByText)
<1>1. \A i \in 1..Len(s) : s[i] \in texts
  BY DEF ListOf
<1>2. \A i, j \in 1..Len(s) :
         <<i, j>> \in less <=> <<s[i], s[j]>> \in EarlierTexts(texts)
  BY <1>1 DEF Positions, EarlierTexts
<1>3. t = Arranged(s, 1..Len(s), Stably(Len(s), less))
  BY DEF SortedBy
<1> HIDE DEF less, t
<1>4. ListOf(t, texts) /\ Ordered(t, EarlierTexts(texts))
  BY <1>2, <1>3, TextsTotal, SortedValues
<1> QED
  BY <1>4 DEF t

(* ... of providers, ... *)
LEMMA ProvidersSorted ==
  ASSUME NEW s, ListOf(s, ProviderSet)
  PROVE  LET t == SortedBy(s, ByProvider)
         IN  /\ ListOf(t, ProviderSet) /\ Ordered(t, EarlierProviders)
             /\ Once(s) => Once(t)
             /\ Elements(t) = Elements(s)
<1> DEFINE less == Positions(s, ByProvider)
           t == SortedBy(s, ByProvider)
<1>1. \A i \in 1..Len(s) : s[i] \in ProviderSet
  BY DEF ListOf
<1>2. \A i, j \in 1..Len(s) :
         <<i, j>> \in less <=> <<s[i], s[j]>> \in EarlierProviders
  BY <1>1 DEF Positions, EarlierProviders
<1>3. t = Arranged(s, 1..Len(s), Stably(Len(s), less))
  BY DEF SortedBy
<1> HIDE DEF less, t
<1>4. /\ ListOf(t, ProviderSet) /\ Ordered(t, EarlierProviders)
      /\ Once(s) => Once(t)
      /\ Elements(t) = Elements(s)
  BY <1>2, <1>3, ProvidersTotal, SortedValues
<1> QED
  BY <1>4 DEF t

(* ... and of entries for distinct providers. *)
LEMMA EntriesSorted ==
  ASSUME NEW E, NEW s, ListOf(s, E),
         \A i \in 1..Len(s) : s[i].provider \in ProviderSet,
         \A i, j \in 1..Len(s) : s[i].provider = s[j].provider => i = j
  PROVE  LET t == SortedBy(s, OfProviders)
         IN  /\ ListOf(t, E)
             /\ \A i, j \in 1..Len(t) :
                   i < j => ByProvider(t[i].provider, t[j].provider)
             /\ Elements(t) = Elements(s)
<1> DEFINE less == Positions(s, OfProviders)
           S == Elements(s)
           before == {pair \in S \X S : OfProviders(pair[1], pair[2])}
           t == SortedBy(s, OfProviders)
<1>1. ListOf(s, S) /\ IsList(s)
  BY DEF ListOf, Elements
<1>2. \A x, y \in S : x.provider = y.provider => x = y
  BY DEF Elements
<1>3. \A x \in S : x.provider \in ProviderSet
                   /\ ProviderOrder(x.provider) \in Int
  BY ProvidersTotal DEF Elements
<1>4. StrictTotalOrder(S, before)
  <2>1. \A x, y \in S : <<x, y>> \in before
           <=> ProviderOrder(x.provider) < ProviderOrder(y.provider)
    BY DEF OfProviders, ByProvider
  <2>2. \A x, y \in S :
           ProviderOrder(x.provider) = ProviderOrder(y.provider) => x = y
    BY <1>2, <1>3, ProvidersTotal
  <2> HIDE DEF before, S
  <2> QED
    BY <2>1, <2>2, <1>3 DEF StrictTotalOrder
<1>5. \A i, j \in 1..Len(s) :
         <<i, j>> \in less <=> <<s[i], s[j]>> \in before
  BY DEF Positions, Elements
<1>6. t = Arranged(s, 1..Len(s), Stably(Len(s), less))
  BY DEF SortedBy
<1>7. \A x, y \in S : <<x, y>> \in before
         => ByProvider(x.provider, y.provider)
  BY DEF OfProviders
<1>8. S \subseteq E /\ Once(s)
  BY DEF Elements, ListOf, Once
<1> HIDE DEF less, t, before
<1>9. /\ ListOf(t, S) /\ Ordered(t, before)
      /\ Elements(t) = S /\ Once(t)
  <2> HIDE DEF S
  <2>1. /\ ListOf(t, S) /\ Ordered(t, before)
        /\ Elements(t) = Elements(s)
        /\ Once(s) => Once(t)
    BY <1>1, <1>4, <1>5, <1>6, SortedValues
  <2> QED
    BY <1>8, <2>1 DEF S
<1> HIDE DEF S
<1>10. ASSUME NEW i \in 1..Len(t), NEW j \in 1..Len(t), i < j
       PROVE  ByProvider(t[i].provider, t[j].provider)
  <2>1. t[i] # t[j] /\ <<t[j], t[i]>> \notin before
        /\ t[i] \in S /\ t[j] \in S
    BY <1>9, <1>10 DEF Ordered, Once, ListOf
  <2>2. <<t[i], t[j]>> \in before
    BY <1>4, <2>1 DEF StrictTotalOrder
  <2> QED
    BY <1>7, <2>1, <2>2
<1>11. ListOf(t, E)
  BY <1>8, <1>9 DEF ListOf
<1> QED
  BY <1>9, <1>10, <1>11 DEF t, S

(* The normal form of an entry is settled. *)
LEMMA EntrySettled ==
  ASSUME NEW texts, Numbered(texts), NEW e, TypedEntry(e, texts),
         ValidEntry(e)
  PROVE  /\ SettledEntry(NormalizedEntry(e), texts)
         /\ NormalizedEntry(e).provider = e.provider
<1> DEFINE proofs == SortedBy(e.proofs, LAMBDA a, b : a < b)
           warnings == SortedBy(e.warnings, ByText)
           f == NormalizedEntry(e)
<1>1. Once(e.proofs)
  <2>1. DOMAIN e.proofs = 1..Len(e.proofs)
    BY ListDomain DEF TypedEntry, ListOf
  <2> QED
    BY <2>1 DEF Once, ValidEntry, Unique
<1>2. ListOf(proofs, Int) /\ Ordered(proofs, LessNumbers) /\ Once(proofs)
  BY <1>1, NumbersSorted DEF TypedEntry
<1>3. ListOf(warnings, texts) /\ Ordered(warnings, EarlierTexts(texts))
  BY TextsSorted DEF TypedEntry
<1>4. f = [e EXCEPT !.proofs = proofs, !.warnings = warnings]
  BY DEF NormalizedEntry
<1> HIDE DEF proofs, warnings, f
<1>5. /\ IsMap(e) /\ {"provider", "proofs", "warnings"} \subseteq DOMAIN e
      /\ e.provider \in ProviderSet
  BY DEF TypedEntry
<1>6. /\ f.provider = e.provider /\ f.proofs = proofs
      /\ f.warnings = warnings /\ IsMap(f) /\ DOMAIN f = DOMAIN e
  BY <1>4, <1>5 DEF IsMap
<1> QED
  BY <1>2, <1>3, <1>5, <1>6 DEF SettledEntry, TypedEntry, f

(* The normal form of a valid plan is settled. *)
LEMMA PlanSettled ==
  ASSUME NEW texts, Numbered(texts), NEW plan, TypedPlan(plan, texts),
         ValidClaimPlan(plan)
  PROVE  SettledPlan(NormalizedClaimPlan(plan), texts)
<1> DEFINE providers == SortedBy(plan.request.providers, ByProvider)
           settled == [i \in DOMAIN plan.entries |->
                          NormalizedEntry(plan.entries[i])]
           entries == SortedBy(settled, OfProviders)
           warnings == SortedBy(plan.warnings, ByText)
           request == [plan.request EXCEPT !.providers = providers]
           S == {e \in Elements(settled) : SettledEntry(e, texts)}
<1>1. NormalizedClaimPlan(plan) =
         [request |-> request, entries |-> entries, warnings |-> warnings]
  <2>1. NormalizedClaimPlan(plan) =
           [plan EXCEPT !.request.providers = providers,
                        !.entries = entries, !.warnings = warnings]
    BY DEF NormalizedClaimPlan
  <2> HIDE DEF providers, entries, warnings
  <2>2. plan = [request |-> plan.request, entries |-> plan.entries,
                warnings |-> plan.warnings]
    BY DEF TypedPlan
  <2> QED
    BY <2>1, <2>2
<1>2. /\ IsList(plan.request.providers) /\ IsList(plan.entries)
      /\ DOMAIN plan.entries = 1..Len(plan.entries)
      /\ Len(plan.entries) \in Nat
      /\ DOMAIN plan.request.providers = 1..Len(plan.request.providers)
  BY ListDomain DEF TypedPlan, ListOf
<1>3. Once(plan.request.providers)
  BY <1>2 DEF ValidClaimPlan, ValidRequest, Unique, Once
<1>4. /\ ListOf(providers, ProviderSet)
      /\ Ordered(providers, EarlierProviders) /\ Once(providers)
      /\ Elements(providers) = Elements(plan.request.providers)
  BY <1>3, ProvidersSorted DEF TypedPlan
<1>5. ListOf(warnings, texts) /\ Ordered(warnings, EarlierTexts(texts))
  BY TextsSorted DEF TypedPlan
<1>6. Len(settled) = Len(plan.entries) /\ IsList(settled)
  BY <1>2 DEF IsList
<1>7. ASSUME NEW i \in 1..Len(plan.entries)
      PROVE  /\ settled[i] = NormalizedEntry(plan.entries[i])
             /\ SettledEntry(settled[i], texts)
             /\ settled[i].provider = plan.entries[i].provider
             /\ settled[i].provider \in ProviderSet
  <2>1. TypedEntry(plan.entries[i], texts) /\ ValidEntry(plan.entries[i])
    BY <1>2 DEF TypedPlan, ValidClaimPlan
  <2>2. settled[i] = NormalizedEntry(plan.entries[i])
    BY <1>2
  <2> QED
    BY <2>1, <2>2, EntrySettled DEF TypedEntry
<1>8. \A i, j \in 1..Len(plan.entries) :
         plan.entries[i].provider = plan.entries[j].provider => i = j
  BY <1>2 DEF ValidClaimPlan
<1>9. {e.provider : e \in Elements(plan.entries)}
         = Elements(plan.request.providers)
  BY <1>2, ListDomain DEF ValidClaimPlan
<1>10. {e.provider : e \in Elements(settled)}
          = {e.provider : e \in Elements(plan.entries)}
  <2>1. {e.provider : e \in Elements(settled)}
           = {settled[i].provider : i \in 1..Len(plan.entries)}
    <3> HIDE DEF settled
    <3> QED
      BY <1>6 DEF Elements
  <2>2. {settled[i].provider : i \in 1..Len(plan.entries)}
           = {plan.entries[i].provider : i \in 1..Len(plan.entries)}
    <3> HIDE DEF settled
    <3> QED
      BY <1>7
  <2>3. {plan.entries[i].provider : i \in 1..Len(plan.entries)}
           = {e.provider : e \in Elements(plan.entries)}
    BY DEF Elements
  <2> QED
    BY <2>1, <2>2, <2>3
<1> HIDE DEF settled
<1>11. ListOf(settled, S)
  BY <1>6, <1>7 DEF ListOf, Elements
<1>12. /\ ListOf(entries, S)
       /\ \A i, j \in 1..Len(entries) :
             i < j => ByProvider(entries[i].provider, entries[j].provider)
       /\ Elements(entries) = Elements(settled)
  <2>1. \A i \in 1..Len(settled) : settled[i].provider \in ProviderSet
    BY <1>6, <1>7
  <2>2. \A i, j \in 1..Len(settled) :
           settled[i].provider = settled[j].provider => i = j
    BY <1>6, <1>7, <1>8
  <2> HIDE DEF S
  <2> QED
    BY <1>11, <2>1, <2>2, EntriesSorted
<1>13. \A i \in 1..Len(entries) : SettledEntry(entries[i], texts)
  BY <1>12 DEF ListOf
<1>14. IsList(entries)
  BY <1>12 DEF ListOf
<1> DEFINE p == NormalizedClaimPlan(plan)
<1> HIDE DEF S, entries, warnings, providers
<1>15. /\ IsMap(request) /\ "providers" \in DOMAIN request
       /\ request.providers = providers
  BY DEF TypedPlan, IsMap
<1>16. /\ p.request = request /\ p.entries = entries
       /\ p.warnings = warnings
       /\ p = [request |-> p.request, entries |-> p.entries,
               warnings |-> p.warnings]
  BY <1>1
<1> HIDE DEF p, request
<1>17. TypedPlan(p, texts)
  BY <1>4, <1>5, <1>13, <1>14, <1>15, <1>16 DEF TypedPlan, SettledEntry
<1>18. SettledPlan(p, texts)
  BY <1>4, <1>5, <1>9, <1>10, <1>12, <1>13, <1>15, <1>16, <1>17
    DEF SettledPlan
<1> QED
  BY <1>18 DEF p

(* Settled entries of which the same is said are the same. *)
LEMMA SettledEntriesAgree ==
  ASSUME NEW texts, Numbered(texts), NEW e, NEW f,
         SettledEntry(e, texts), SettledEntry(f, texts), SameEntry(e, f)
  PROVE  e = f
<1>1. /\ [e EXCEPT !.proofs = ToSet(@), !.warnings = <<>>]
            = [f EXCEPT !.proofs = ToSet(@), !.warnings = <<>>]
      /\ SameElements(e.warnings, f.warnings)
  BY DEF SameEntry
<1>2. /\ IsMap(e) /\ IsMap(f)
      /\ {"provider", "proofs", "warnings"} \subseteq DOMAIN e
      /\ {"provider", "proofs", "warnings"} \subseteq DOMAIN f
  BY DEF SettledEntry, TypedEntry
<1>3. /\ DOMAIN e = DOMAIN f /\ ToSet(e.proofs) = ToSet(f.proofs)
      /\ \A x \in DOMAIN e \ {"proofs", "warnings"} : e[x] = f[x]
  <2> DEFINE a == [e EXCEPT !.proofs = ToSet(@), !.warnings = <<>>]
             b == [f EXCEPT !.proofs = ToSet(@), !.warnings = <<>>]
  <2>1. DOMAIN a = DOMAIN e /\ DOMAIN b = DOMAIN f
    OBVIOUS
  <2>2. a["proofs"] = ToSet(e.proofs) /\ b["proofs"] = ToSet(f.proofs)
    BY <1>2
  <2>3. /\ \A x \in DOMAIN e \ {"proofs", "warnings"} : a[x] = e[x]
        /\ \A x \in DOMAIN f \ {"proofs", "warnings"} : b[x] = f[x]
    BY <1>2
  <2>4. a = b
    BY <1>1
  <2> HIDE DEF a, b
  <2> QED
    BY <2>1, <2>2, <2>3, <2>4
<1>4. e.proofs = f.proofs
  <2>1. /\ ListOf(e.proofs, Int) /\ IsList(e.proofs) /\ IsList(f.proofs)
        /\ Once(e.proofs) /\ Ordered(e.proofs, LessNumbers)
        /\ Once(f.proofs) /\ Ordered(f.proofs, LessNumbers)
    BY DEF SettledEntry, TypedEntry, ListOf
  <2>2. Elements(e.proofs) = Elements(f.proofs)
    BY <1>3, <2>1, ListDomain
  <2> QED
    BY <2>1, <2>2, NumbersTotal, SameSetSameList
<1>5. e.warnings = f.warnings
  <2>1. /\ ListOf(e.warnings, texts) /\ IsList(f.warnings)
        /\ Ordered(e.warnings, EarlierTexts(texts))
        /\ Ordered(f.warnings, EarlierTexts(texts))
    BY DEF SettledEntry, TypedEntry, ListOf
  <2> QED
    BY <1>1, <2>1, TextsTotal, SameElementsSameList
<1>6. \A x \in DOMAIN e : e[x] = f[x]
  BY <1>3, <1>4, <1>5
<1> QED
  BY <1>2, <1>3, <1>6 DEF IsMap

(* So are settled plans. *)
LEMMA SettledPlansAgree ==
  ASSUME NEW texts, Numbered(texts), NEW one, NEW two,
         SettledPlan(one, texts), SettledPlan(two, texts),
         SamePlan(one, two)
  PROVE  one = two
<1>1. /\ TypedPlan(one, texts) /\ TypedPlan(two, texts)
      /\ IsMap(one.request) /\ "providers" \in DOMAIN one.request
      /\ IsMap(two.request) /\ "providers" \in DOMAIN two.request
      /\ IsList(one.entries) /\ IsList(two.entries)
  BY DEF SettledPlan, TypedPlan
<1>2. one.request = two.request
  <2> DEFINE a == [one.request EXCEPT !.providers = ToSet(@)]
             b == [two.request EXCEPT !.providers = ToSet(@)]
  <2>1. /\ DOMAIN a = DOMAIN one.request /\ DOMAIN b = DOMAIN two.request
        /\ a["providers"] = ToSet(one.request.providers)
        /\ b["providers"] = ToSet(two.request.providers)
        /\ \A x \in DOMAIN one.request \ {"providers"} :
              a[x] = one.request[x]
        /\ \A x \in DOMAIN two.request \ {"providers"} :
              b[x] = two.request[x]
    BY <1>1
  <2>2. a = b
    BY DEF SamePlan
  <2> HIDE DEF a, b
  <2>3. /\ DOMAIN one.request = DOMAIN two.request
        /\ ToSet(one.request.providers) = ToSet(two.request.providers)
        /\ \A x \in DOMAIN one.request \ {"providers"} :
              one.request[x] = two.request[x]
    BY <2>1, <2>2
  <2>4. /\ ListOf(one.request.providers, ProviderSet)
        /\ IsList(one.request.providers) /\ IsList(two.request.providers)
        /\ Once(one.request.providers) /\ Once(two.request.providers)
        /\ Ordered(one.request.providers, EarlierProviders)
        /\ Ordered(two.request.providers, EarlierProviders)
    BY DEF SettledPlan, TypedPlan, ListOf
  <2>5. Elements(one.request.providers) = Elements(two.request.providers)
    BY <2>3, <2>4, ListDomain
  <2>6. one.request.providers = two.request.providers
    BY <2>4, <2>5, ProvidersTotal, SameSetSameList
  <2>7. \A x \in DOMAIN one.request : one.request[x] = two.request[x]
    BY <2>3, <2>6
  <2> QED
    BY <1>1, <2>3, <2>7 DEF IsMap
<1>3. one.warnings = two.warnings
  <2>1. /\ ListOf(one.warnings, texts) /\ IsList(two.warnings)
        /\ Ordered(one.warnings, EarlierTexts(texts))
        /\ Ordered(two.warnings, EarlierTexts(texts))
        /\ SameElements(one.warnings, two.warnings)
    BY DEF SettledPlan, TypedPlan, ListOf, SamePlan
  <2> QED
    BY <2>1, TextsTotal, SameElementsSameList
<1> DEFINE S == Elements(one.entries)
           before == {pair \in S \X S : OfProviders(pair[1], pair[2])}
<1>4. /\ \A e \in Elements(one.entries) : SettledEntry(e, texts)
      /\ \A f \in Elements(two.entries) : SettledEntry(f, texts)
  BY DEF SettledPlan, Elements
<1>5. \A e \in Elements(one.entries) : e \in Elements(two.entries)
  <2> SUFFICES ASSUME NEW e \in Elements(one.entries)
               PROVE  e \in Elements(two.entries)
    OBVIOUS
  <2>1. e \in ToSet(one.entries) /\ ToSet(two.entries) = Elements(two.entries)
    BY <1>1, ListDomain
  <2>2. PICK f \in Elements(two.entries) : SameEntry(e, f)
    BY <2>1 DEF SamePlan
  <2> QED
    BY <2>2, <1>4, SettledEntriesAgree
<1>6. \A e, f \in Elements(two.entries) : e.provider = f.provider => e = f
  <2> SUFFICES ASSUME NEW i \in 1..Len(two.entries),
                      NEW j \in 1..Len(two.entries), i < j
               PROVE  two.entries[i].provider # two.entries[j].provider
    <3>1. Len(two.entries) \in Nat
      BY <1>1, ListDomain
    <3> QED
      BY <3>1 DEF Elements
  <2>1. ByProvider(two.entries[i].provider, two.entries[j].provider)
    BY DEF SettledPlan
  <2>2. two.entries[i].provider \in ProviderSet
    BY DEF SettledPlan, SettledEntry, TypedEntry
  <2>3. ProviderOrder(two.entries[i].provider) \in Int
    BY <2>2, ProvidersTotal
  <2> QED
    BY <2>1, <2>3 DEF ByProvider
<1>7. \A f \in Elements(two.entries) : f \in Elements(one.entries)
  <2> SUFFICES ASSUME NEW f \in Elements(two.entries)
               PROVE  f \in Elements(one.entries)
    OBVIOUS
  <2>1. f.provider \in {e.provider : e \in Elements(one.entries)}
    BY <1>2 DEF SettledPlan
  <2>2. PICK e \in Elements(one.entries) : f.provider = e.provider
    BY <2>1
  <2> QED
    BY <1>5, <1>6, <2>2
<1>8. Elements(one.entries) = Elements(two.entries)
  BY <1>5, <1>7
<1>9. \A e \in S : e.provider \in ProviderSet
                   /\ ProviderOrder(e.provider) \in Int
  BY <1>4, ProvidersTotal DEF SettledEntry, TypedEntry
<1>10. StrictTotalOrder(S, before)
  <2>1. \A x, y \in S : <<x, y>> \in before
           <=> ProviderOrder(x.provider) < ProviderOrder(y.provider)
    BY DEF OfProviders, ByProvider
  <2>2. \A x, y \in S :
           ProviderOrder(x.provider) = ProviderOrder(y.provider) => x = y
    BY <1>6, <1>8, <1>9, ProvidersTotal
  <2> HIDE DEF before, S
  <2> QED
    BY <2>1, <2>2, <1>9 DEF StrictTotalOrder
<1>11. ASSUME NEW plan \in {one, two}
       PROVE  Ordered(plan.entries, before) /\ Once(plan.entries)
  <2>1. /\ SettledPlan(plan, texts) /\ Len(plan.entries) \in Nat
        /\ Elements(plan.entries) = S
    BY <1>1, <1>8, ListDomain
  <2>2. \A i \in 1..Len(plan.entries) : plan.entries[i] \in S
    BY <2>1 DEF Elements
  <2>3. \A i, j \in 1..Len(plan.entries) : i < j =>
           ProviderOrder(plan.entries[i].provider)
              < ProviderOrder(plan.entries[j].provider)
    BY <2>1 DEF SettledPlan, ByProvider
  <2>4. \A x, y \in S : <<x, y>> \in before =>
           ProviderOrder(x.provider) < ProviderOrder(y.provider)
    BY DEF OfProviders, ByProvider
  <2> HIDE DEF S, before
  <2>5. Ordered(plan.entries, before)
    <3> SUFFICES ASSUME NEW i \in 1..Len(plan.entries),
                        NEW j \in 1..Len(plan.entries), i < j
                 PROVE  <<plan.entries[j], plan.entries[i]>> \notin before
      BY DEF Ordered
    <3> QED
      BY <1>9, <2>2, <2>3, <2>4
  <2>6. Once(plan.entries)
    <3> SUFFICES ASSUME NEW i \in 1..Len(plan.entries),
                        NEW j \in 1..Len(plan.entries), i < j
                 PROVE  plan.entries[i] # plan.entries[j]
      BY <2>1 DEF Once
    <3> QED
      BY <1>9, <2>2, <2>3
  <2> QED
    BY <2>5, <2>6
<1>12. one.entries = two.entries
  <2>1. ListOf(one.entries, S)
    BY <1>1 DEF ListOf, Elements
  <2> HIDE DEF S, before
  <2> QED
    BY <1>1, <1>8, <1>10, <1>11, <2>1, SameSetSameList
<1> QED
  BY <1>1, <1>2, <1>3, <1>12 DEF TypedPlan

(* Every plan that is written is the normal form of a valid one, and so    *)
(* the plans of which the same is said are one                             *)
(* (RegistryNamespacePlan::canonical_json_bytes): for any plans of the     *)
(* types of the code.                                                      *)
THEOREM ClaimPlannersAgree ==
  ASSUME NEW texts, Numbered(texts),
         \A plan \in Plans : TypedPlan(plan, texts)
  PROVE  ClaimSpec => []PlannersAgree
<1> DEFINE Inv == \A plan \in plans : SettledPlan(plan, texts)
<1>1. ClaimInit => Inv
  BY DEF ClaimInit
<1>2. ASSUME Inv, [ClaimNext]_claimVars
      PROVE  Inv'
  <2>1. CASE \E plan \in Plans : Write(plan)
    <3>1. PICK plan \in Plans : Write(plan)
      BY <2>1
    <3>2. ValidClaimPlan(plan)
          /\ ClaimPlanBytes(plan) = NormalizedClaimPlan(plan)
      BY <3>1 DEF Write, ClaimPlanBytes
    <3>3. SettledPlan(NormalizedClaimPlan(plan), texts)
      BY <3>2, PlanSettled
    <3>4. plans' = plans \union {NormalizedClaimPlan(plan)}
      BY <3>1, <3>2 DEF Write
    <3> QED
      BY <1>2, <3>3, <3>4
  <2>2. CASE UNCHANGED plans
    BY <2>2, <1>2
  <2> QED
    BY <2>1, <2>2, <1>2 DEF ClaimNext, claimVars, TakenByOthers, Adapter,
      DoStep, Report
<1>3. Inv => PlannersAgree
  BY SettledPlansAgree DEF PlannersAgree
<1> QED
  BY <1>1, <1>2, <1>3, PTL DEF ClaimSpec

-----------------------------------------------------------------------------
(* Plans and records of translations between Zed and Nix.                  *)

(* Every word that is sorted is in the list of words. *)
Words == ToSet(NixOrder)
WordsListed ==
    IsList(NixOrder) /\ NixSystems \union NixNames \union StorePaths
                           \subseteq Words

(* The types of the code. *)
TypedIntent(intent) ==
    /\ IsMap(intent) /\ {"systems", "outputs"} \subseteq DOMAIN intent
    /\ IsList(intent.systems) /\ IsList(intent.outputs)
TypedDraft(plan) ==
    IsMap(plan) /\ "intent" \in DOMAIN plan /\ TypedIntent(plan.intent)
TypedResult(o) ==
    /\ IsMap(o) /\ {"system", "output", "store_path", "references",
                    "signatures"} \subseteq DOMAIN o
    /\ IsList(o.references) /\ ListOf(o.signatures, Words)

EarlierWords == {pair \in Words \X Words : Place(pair[1]) < Place(pair[2])}

(* Words are compared by their places. *)
LEMMA WordsTotal ==
  ASSUME WordsListed
  PROVE  /\ StrictTotalOrder(Words, EarlierWords)
         /\ \A v \in Words : Place(v) \in Int
         /\ \A v, w \in Words : Place(v) = Place(w) => v = w
<1>1. \A v \in Words : Place(v) \in DOMAIN NixOrder /\ NixOrder[Place(v)] = v
  BY DEF Place, Words, ToSet
<1>2. DOMAIN NixOrder \subseteq Int
  BY ListDomain DEF WordsListed
<1>3. /\ \A v \in Words : Place(v) \in Int
      /\ \A v, w \in Words : Place(v) = Place(w) => v = w
  BY <1>1, <1>2
<1> QED
  BY <1>3 DEF StrictTotalOrder, EarlierWords

(* A list of words that has nothing twice, sorted. *)
LEMMA WordsSorted ==
  ASSUME WordsListed, NEW s, ListOf(s, Words)
  PROVE  /\ ListOf(Sorted(s), Words) /\ Ordered(Sorted(s), EarlierWords)
         /\ Elements(Sorted(s)) = Elements(s)
         /\ Once(s) => Once(Sorted(s))
<1> DEFINE less == Positions(s, LAMBDA v, w : Place(v) < Place(w))
           t == Sorted(s)
<1>1. \A i \in 1..Len(s) : s[i] \in Words
  BY DEF ListOf
<1>2. \A i, j \in 1..Len(s) :
         <<i, j>> \in less <=> <<s[i], s[j]>> \in EarlierWords
  BY <1>1 DEF Positions, EarlierWords
<1>3. t = Arranged(s, 1..Len(s), Stably(Len(s), less))
  BY DEF Sorted, SortedBy
<1> HIDE DEF less, t
<1>4. /\ ListOf(t, Words) /\ Ordered(t, EarlierWords)
      /\ Elements(t) = Elements(s)
      /\ Once(s) => Once(t)
  BY <1>2, <1>3, WordsTotal, SortedValues
<1> QED
  BY <1>4 DEF t

(* Lists of words in the normal form that have the same words are the      *)
(* same.                                                                   *)
LEMMA SameWordsSameList ==
  ASSUME WordsListed, NEW s, NEW t, ListOf(s, Words), ListOf(t, Words),
         Once(s), Once(t),
         Ordered(s, EarlierWords), Ordered(t, EarlierWords),
         ToSet(s) = ToSet(t)
  PROVE  s = t
<1>1. IsList(s) /\ IsList(t)
  BY DEF ListOf
<1>2. Elements(s) = Elements(t)
  BY <1>1, ListDomain
<1> QED
  BY <1>1, <1>2, WordsTotal, SameSetSameList

(* A list that is sorted is a list, whatever is in it. *)
LEMMA SortedIsList ==
  ASSUME NEW s, IsList(s)
  PROVE  IsList(Sorted(s))
<1> DEFINE less == Positions(s, LAMBDA v, w : Place(v) < Place(w))
<1>1. Sorted(s) = Arranged(s, 1..Len(s), Stably(Len(s), less))
  BY DEF Sorted, SortedBy
<1>2. Cardinality(1..Len(s)) = Len(s) /\ Len(s) \in Nat
  BY AsManyPositions DEF IsList
<1> HIDE DEF less
<1>3. /\ DOMAIN Sorted(s) = 1..Len(s)
      /\ Sorted(s) = [i \in 1..Len(s) |-> Sorted(s)[i]]
  BY <1>1, <1>2 DEF Arranged
<1> QED
  BY <1>2, <1>3 DEF IsList

(* What is injective has nothing twice. *)
LEMMA InjectiveOnce ==
  ASSUME NEW s, IsList(s)
  PROVE  IsInjective(s) <=> Once(s)
BY ListDomain DEF IsInjective, Once

-----------------------------------------------------------------------------
(* An intent in the normal form. *)
SettledIntent(intent) ==
    /\ TypedIntent(intent)
    /\ ListOf(intent.systems, Words) /\ ListOf(intent.outputs, Words)
    /\ Once(intent.systems) /\ Once(intent.outputs)
    /\ Ordered(intent.systems, EarlierWords)
    /\ Ordered(intent.outputs, EarlierWords)

(* A valid intent has words, each once. *)
LEMMA ValidIntentWords ==
  ASSUME WordsListed, NEW intent, TypedIntent(intent), NEW name,
         ValidIntent(intent, name)
  PROVE  /\ ListOf(intent.systems, Words) /\ ListOf(intent.outputs, Words)
         /\ Once(intent.systems) /\ Once(intent.outputs)
<1>1. IsList(intent.systems) /\ IsList(intent.outputs)
  BY DEF TypedIntent
<1>2. /\ Elements(intent.systems) \subseteq Words
      /\ Elements(intent.outputs) \subseteq Words
  BY <1>1, ListDomain DEF ValidIntent, WordsListed
<1>3. Once(intent.systems) /\ Once(intent.outputs)
  BY <1>1, InjectiveOnce DEF ValidIntent
<1> QED
  BY <1>1, <1>2, <1>3 DEF ListOf, Elements

(* The normal form of an intent. *)
LEMMA IntentSettled ==
  ASSUME WordsListed, NEW intent, TypedIntent(intent),
         ListOf(intent.systems, Words), ListOf(intent.outputs, Words),
         Once(intent.systems), Once(intent.outputs)
  PROVE  /\ SettledIntent(NormalizedIntent(intent))
         /\ Elements(NormalizedIntent(intent).systems)
               = Elements(intent.systems)
<1> DEFINE t == NormalizedIntent(intent)
           systems == Sorted(intent.systems)
           outputs == Sorted(intent.outputs)
<1>1. /\ ListOf(systems, Words) /\ Once(systems)
      /\ Ordered(systems, EarlierWords)
      /\ ListOf(outputs, Words) /\ Once(outputs)
      /\ Ordered(outputs, EarlierWords)
      /\ Elements(systems) = Elements(intent.systems)
  BY WordsSorted
<1>2. t = [intent EXCEPT !.systems = systems, !.outputs = outputs]
  BY DEF NormalizedIntent
<1> HIDE DEF systems, outputs, t
<1>3. /\ t.systems = systems /\ t.outputs = outputs /\ IsMap(t)
      /\ DOMAIN t = DOMAIN intent
  BY <1>2 DEF TypedIntent, IsMap
<1> QED
  BY <1>1, <1>3 DEF SettledIntent, TypedIntent, ListOf, t

(* Intents in the normal form that mean the same are the same. *)
LEMMA SettledIntentsAgree ==
  ASSUME WordsListed, NEW a, NEW b, SettledIntent(a), SettledIntent(b),
         IntentMeaning(a) = IntentMeaning(b)
  PROVE  a = b
<1>1. /\ IsMap(a) /\ IsMap(b)
      /\ {"systems", "outputs"} \subseteq DOMAIN a
      /\ {"systems", "outputs"} \subseteq DOMAIN b
  BY DEF SettledIntent, TypedIntent
<1> DEFINE m == IntentMeaning(a)
           n == IntentMeaning(b)
<1>2. /\ DOMAIN m = DOMAIN a /\ DOMAIN n = DOMAIN b
      /\ m["systems"] = ToSet(a.systems) /\ m["outputs"] = ToSet(a.outputs)
      /\ n["systems"] = ToSet(b.systems) /\ n["outputs"] = ToSet(b.outputs)
      /\ \A x \in DOMAIN a \ {"systems", "outputs"} : m[x] = a[x]
      /\ \A x \in DOMAIN b \ {"systems", "outputs"} : n[x] = b[x]
  BY <1>1 DEF IntentMeaning
<1>3. m = n
  OBVIOUS
<1> HIDE DEF m, n
<1>4. /\ DOMAIN a = DOMAIN b
      /\ ToSet(a.systems) = ToSet(b.systems)
      /\ ToSet(a.outputs) = ToSet(b.outputs)
      /\ \A x \in DOMAIN a \ {"systems", "outputs"} : a[x] = b[x]
  BY <1>2, <1>3
<1>5. a.systems = b.systems /\ a.outputs = b.outputs
  BY <1>4, SameWordsSameList DEF SettledIntent
<1>6. \A x \in DOMAIN a : a[x] = b[x]
  BY <1>4, <1>5
<1> QED
  BY <1>1, <1>4, <1>6 DEF IsMap

(* Plans whose intents are in the normal form, as those that are accepted  *)
(* are.                                                                    *)
SettledDraft(plan) == TypedDraft(plan) /\ SettledIntent(plan.intent)

(* A draft that is accepted is kept in the normal form, and is valid. *)
LEMMA DraftSettled ==
  ASSUME WordsListed, NEW plan, TypedDraft(plan), PlanBytes(plan) # Refused
  PROVE  SettledDraft(PlanBytes(plan)) /\ ValidPlan(PlanBytes(plan))
<1> DEFINE t == NormalizedPlan(plan)
           intent == NormalizedIntent(plan.intent)
<1>1. PlanBytes(plan) = t /\ ValidPlan(t)
  BY DEF PlanBytes
<1>2. /\ TypedIntent(plan.intent) /\ IsMap(plan)
      /\ "intent" \in DOMAIN plan
  BY DEF TypedDraft
<1>3. t = [plan EXCEPT !.intent = intent]
  BY DEF NormalizedPlan
<1> HIDE DEF intent
<1>4. t.intent = intent /\ IsMap(t) /\ DOMAIN t = DOMAIN plan
  BY <1>2, <1>3 DEF IsMap
<1>5. SortedAndUnique(intent.systems) /\ SortedAndUnique(intent.outputs)
      /\ ValidIntent(intent, t.package.name)
  BY <1>1, <1>4 DEF ValidPlan, ValidResolvedIntent
<1>6. TypedIntent(intent)
  <2>1. /\ intent.systems = Sorted(plan.intent.systems)
        /\ intent.outputs = Sorted(plan.intent.outputs)
        /\ IsMap(intent) /\ DOMAIN intent = DOMAIN plan.intent
    BY <1>2 DEF intent, NormalizedIntent, TypedIntent, IsMap
  <2>2. /\ IsList(Sorted(plan.intent.systems))
        /\ IsList(Sorted(plan.intent.outputs))
    BY <1>2, SortedIsList DEF TypedIntent
  <2> QED
    BY <1>2, <2>1, <2>2 DEF TypedIntent
<1>7. /\ ListOf(intent.systems, Words) /\ ListOf(intent.outputs, Words)
      /\ Once(intent.systems) /\ Once(intent.outputs)
  BY <1>5, <1>6, ValidIntentWords
<1>8. /\ intent.systems = Sorted(intent.systems)
      /\ intent.outputs = Sorted(intent.outputs)
  BY <1>5 DEF SortedAndUnique
<1>9. /\ Ordered(intent.systems, EarlierWords)
      /\ Ordered(intent.outputs, EarlierWords)
  BY <1>7, <1>8, WordsSorted
<1>10. SettledIntent(intent)
  BY <1>6, <1>7, <1>9 DEF SettledIntent
<1> HIDE DEF t
<1> QED
  BY <1>1, <1>2, <1>4, <1>6, <1>10 DEF SettledDraft, TypedDraft

(* Accepted plans that mean the same are the same. *)
LEMMA SettledDraftsAgree ==
  ASSUME WordsListed, NEW p, NEW q, SettledDraft(p), SettledDraft(q),
         PlanMeaning(p) = PlanMeaning(q)
  PROVE  p = q
<1>1. /\ IsMap(p) /\ IsMap(q)
      /\ "intent" \in DOMAIN p /\ "intent" \in DOMAIN q
  BY DEF SettledDraft, TypedDraft
<1> DEFINE m == PlanMeaning(p)
           n == PlanMeaning(q)
<1>2. /\ DOMAIN m = DOMAIN p /\ DOMAIN n = DOMAIN q
      /\ m["intent"] = IntentMeaning(p.intent)
      /\ n["intent"] = IntentMeaning(q.intent)
      /\ \A x \in DOMAIN p \ {"intent"} : m[x] = p[x]
      /\ \A x \in DOMAIN q \ {"intent"} : n[x] = q[x]
  BY <1>1 DEF PlanMeaning
<1>3. m = n
  OBVIOUS
<1> HIDE DEF m, n
<1>4. /\ DOMAIN p = DOMAIN q
      /\ IntentMeaning(p.intent) = IntentMeaning(q.intent)
      /\ \A x \in DOMAIN p \ {"intent"} : p[x] = q[x]
  BY <1>2, <1>3
<1>5. p.intent = q.intent
  BY <1>4, SettledIntentsAgree DEF SettledDraft
<1>6. \A x \in DOMAIN p : p[x] = q[x]
  BY <1>4, <1>5
<1> QED
  BY <1>1, <1>4, <1>6 DEF IsMap

-----------------------------------------------------------------------------
(* What Nix built, in the normal form: its references ascend. *)
Ascending(references) ==
    /\ \A i \in 1..Len(references) : references[i].store_path \in Words
    /\ \A i, j \in 1..Len(references) : i < j =>
          Place(references[i].store_path) < Place(references[j].store_path)
SettledOutput(o) ==
    /\ TypedResult(o)
    /\ {o.system, o.output, o.store_path} \subseteq Words
    /\ Ascending(o.references)
    /\ Once(o.signatures) /\ Ordered(o.signatures, EarlierWords)

(* References with distinct paths, sorted. *)
LEMMA ReferencesSorted ==
  ASSUME WordsListed, NEW s, IsList(s),
         \A i \in 1..Len(s) : s[i].store_path \in Words,
         \A i, j \in 1..Len(s) : s[i].store_path = s[j].store_path => i = j
  PROVE  LET t == SortedBy(s, LAMBDA r, q : Place(r.store_path)
                                            < Place(q.store_path))
         IN  /\ IsList(t) /\ Ascending(t) /\ Elements(t) = Elements(s)
<1> DEFINE less == Positions(s, LAMBDA r, q : Place(r.store_path)
                                              < Place(q.store_path))
           S == Elements(s)
           before == {pair \in S \X S :
                         Place(pair[1].store_path) < Place(pair[2].store_path)}
           t == SortedBy(s, LAMBDA r, q : Place(r.store_path)
                                          < Place(q.store_path))
<1>1. ListOf(s, S)
  BY DEF ListOf, Elements
<1>2. /\ \A x \in S : x.store_path \in Words
      /\ \A x, y \in S : x.store_path = y.store_path => x = y
  BY DEF Elements
<1>3. \A x \in S : Place(x.store_path) \in Int
  BY <1>2, WordsTotal
<1>4. \A x, y \in S : Place(x.store_path) = Place(y.store_path) => x = y
  BY <1>2, WordsTotal
<1>5. StrictTotalOrder(S, before)
  <2>1. \A x, y \in S : <<x, y>> \in before
           <=> Place(x.store_path) < Place(y.store_path)
    OBVIOUS
  <2> HIDE DEF before, S
  <2> QED
    BY <2>1, <1>3, <1>4 DEF StrictTotalOrder
<1>6. \A i, j \in 1..Len(s) :
         <<i, j>> \in less <=> <<s[i], s[j]>> \in before
  BY DEF Positions, Elements
<1>7. t = Arranged(s, 1..Len(s), Stably(Len(s), less))
  BY DEF SortedBy
<1>8. Once(s)
  BY DEF Once
<1>9. \A x, y \in S : <<x, y>> \in before =>
         Place(x.store_path) < Place(y.store_path)
  OBVIOUS
<1> HIDE DEF less, t, before
<1>10. ListOf(t, S) /\ Ordered(t, before) /\ Elements(t) = S /\ Once(t)
  <2> HIDE DEF S
  <2>1. /\ ListOf(t, S) /\ Ordered(t, before)
        /\ Elements(t) = Elements(s)
        /\ Once(s) => Once(t)
    BY <1>1, <1>5, <1>6, <1>7, SortedValues
  <2> QED
    BY <1>8, <2>1 DEF S
<1> HIDE DEF S
<1>11. ASSUME NEW i \in 1..Len(t), NEW j \in 1..Len(t), i < j
       PROVE  Place(t[i].store_path) < Place(t[j].store_path)
  <2>1. t[i] # t[j] /\ <<t[j], t[i]>> \notin before
        /\ t[i] \in S /\ t[j] \in S
    BY <1>10, <1>11 DEF Ordered, Once, ListOf
  <2>2. <<t[i], t[j]>> \in before
    BY <1>5, <2>1 DEF StrictTotalOrder
  <2> QED
    BY <1>9, <2>1, <2>2
<1>12. IsList(t) /\ \A i \in 1..Len(t) : t[i].store_path \in Words
  BY <1>2, <1>10 DEF ListOf
<1> QED
  BY <1>10, <1>11, <1>12 DEF Ascending, t, S

(* References that ascend are known by what they are. *)
LEMMA SameReferences ==
  ASSUME WordsListed, NEW s, NEW t, IsList(s), IsList(t),
         Ascending(s), Ascending(t), ToSet(s) = ToSet(t)
  PROVE  s = t
<1> DEFINE S == Elements(s)
           before == {pair \in S \X S :
                         Place(pair[1].store_path) < Place(pair[2].store_path)}
<1>1. /\ Elements(t) = S /\ Len(s) \in Nat /\ Len(t) \in Nat
  BY ListDomain
<1>2. /\ \A x \in S : x.store_path \in Words
      /\ \A x \in S : Place(x.store_path) \in Int
  BY WordsTotal DEF Elements, Ascending
<1>3. \A x, y \in S : Place(x.store_path) = Place(y.store_path) => x = y
  <2> SUFFICES ASSUME NEW i \in 1..Len(s), NEW j \in 1..Len(s), i < j
               PROVE  Place(s[i].store_path) # Place(s[j].store_path)
    BY <1>1 DEF Elements
  <2>1. Place(s[i].store_path) < Place(s[j].store_path)
    BY DEF Ascending
  <2>2. Place(s[i].store_path) \in Int
    BY <1>2 DEF Elements
  <2> QED
    BY <2>1, <2>2
<1>4. \A x, y \in S : <<x, y>> \in before
           <=> Place(x.store_path) < Place(y.store_path)
  OBVIOUS
<1>5. ListOf(s, S)
  BY DEF ListOf, Elements
<1>6. \A i \in 1..Len(t) : t[i] \in S
  BY <1>1 DEF Elements
<1>7. \A i \in 1..Len(s) : s[i] \in S
  BY DEF Elements
<1> HIDE DEF before, S
<1>8. StrictTotalOrder(S, before)
  BY <1>2, <1>3, <1>4 DEF StrictTotalOrder
<1>9. Ordered(s, before) /\ Once(s)
  <2>1. \A i, j \in 1..Len(s) : i < j =>
           s[i] # s[j] /\ <<s[j], s[i]>> \notin before
    BY <1>2, <1>4, <1>7 DEF Ascending
  <2>2. \A i, j \in 1..Len(s) : i = j \/ i < j \/ j < i
    BY <1>1
  <2>3. Once(s)
    BY <2>1, <2>2 DEF Once
  <2> QED
    BY <2>1, <2>3 DEF Ordered
<1>10. Ordered(t, before) /\ Once(t)
  <2>1. \A i, j \in 1..Len(t) : i < j =>
           t[i] # t[j] /\ <<t[j], t[i]>> \notin before
    BY <1>2, <1>4, <1>6 DEF Ascending
  <2>2. \A i, j \in 1..Len(t) : i = j \/ i < j \/ j < i
    BY <1>1
  <2>3. Once(t)
    BY <2>1, <2>2 DEF Once
  <2> QED
    BY <2>1, <2>3 DEF Ordered
<1>11. Elements(s) = Elements(t)
  BY <1>1 DEF S
<1> QED
  BY <1>5, <1>8, <1>9, <1>10, <1>11, SameSetSameList

(* The normal form of an output is of the same thing built, and means the  *)
(* same.                                                                   *)
LEMMA OutputSettled ==
  ASSUME WordsListed, NEW o, TypedResult(o), ValidOutput(o)
  PROVE  LET p == NormalizedOutput(o)
         IN  /\ SettledOutput(p)
             /\ p.system = o.system /\ p.output = o.output
             /\ p.store_path = o.store_path
             /\ OutputMeaning(p) = OutputMeaning(o)
             /\ p.references = <<>> <=> o.references = <<>>
<1> DEFINE p == NormalizedOutput(o)
           references == SortedBy(o.references,
                                  LAMBDA r, q : Place(r.store_path)
                                                < Place(q.store_path))
           signatures == Sorted(o.signatures)
<1>1. /\ IsMap(o) /\ {"system", "output", "store_path", "references",
                      "signatures"} \subseteq DOMAIN o
      /\ IsList(o.references) /\ ListOf(o.signatures, Words)
      /\ IsList(o.signatures)
  BY DEF TypedResult, ListOf
<1>2. /\ \A i \in 1..Len(o.references) : o.references[i].store_path \in Words
      /\ \A i, j \in 1..Len(o.references) :
            o.references[i].store_path = o.references[j].store_path => i = j
  <2>1. DOMAIN o.references = 1..Len(o.references)
    BY <1>1, ListDomain
  <2>2. \A i \in 1..Len(o.references) :
           o.references[i].store_path \in StorePaths
    BY <2>1 DEF ValidOutput, ValidStoreReference
  <2>3. IsInjective([i \in DOMAIN o.references |-> o.references[i].store_path])
    BY DEF ValidOutput
  <2> QED
    BY <2>1, <2>2, <2>3 DEF WordsListed, IsInjective
<1>3. /\ IsList(references) /\ Ascending(references)
      /\ Elements(references) = Elements(o.references)
  BY <1>1, <1>2, ReferencesSorted
<1>4. Once(o.signatures)
  BY <1>1, InjectiveOnce DEF ValidOutput
<1>5. /\ ListOf(signatures, Words) /\ Once(signatures)
      /\ Ordered(signatures, EarlierWords)
      /\ Elements(signatures) = Elements(o.signatures)
  BY <1>1, <1>4, WordsSorted
<1>6. p = [o EXCEPT !.references = references, !.signatures = signatures]
  BY DEF NormalizedOutput
<1>7. {o.system, o.output, o.store_path} \subseteq Words
  BY DEF ValidOutput, WordsListed
<1> HIDE DEF references, signatures, p
<1>8. /\ IsMap(p) /\ DOMAIN p = DOMAIN o
      /\ p.references = references /\ p.signatures = signatures
      /\ p.system = o.system /\ p.output = o.output
      /\ p.store_path = o.store_path
  BY <1>1, <1>6 DEF IsMap
<1>9. SettledOutput(p)
  BY <1>1, <1>3, <1>5, <1>7, <1>8 DEF SettledOutput, TypedResult
<1>10. /\ ToSet(references) = ToSet(o.references)
       /\ ToSet(signatures) = ToSet(o.signatures)
  BY <1>1, <1>3, <1>5, ListDomain DEF ListOf
<1>11. OutputMeaning(p) = OutputMeaning(o)
  <2> DEFINE m == OutputMeaning(p)
             n == OutputMeaning(o)
  <2>1. /\ DOMAIN m = DOMAIN p /\ DOMAIN n = DOMAIN o
        /\ m["references"] = ToSet(p.references)
        /\ n["references"] = ToSet(o.references)
        /\ m["signatures"] = ToSet(p.signatures)
        /\ n["signatures"] = ToSet(o.signatures)
        /\ \A x \in DOMAIN p \ {"references", "signatures"} : m[x] = p[x]
        /\ \A x \in DOMAIN o \ {"references", "signatures"} : n[x] = o[x]
    BY <1>1, <1>8 DEF OutputMeaning
  <2>2. \A x \in DOMAIN o \ {"references", "signatures"} : p[x] = o[x]
    BY <1>1, <1>6
  <2>3. \A x \in DOMAIN o : m[x] = n[x]
    BY <1>8, <1>10, <2>1, <2>2
  <2>4. m = [x \in DOMAIN m |-> m[x]] /\ n = [x \in DOMAIN n |-> n[x]]
    BY <1>1, <1>8 DEF OutputMeaning, IsMap
  <2> HIDE DEF m, n
  <2>5. m = n
    BY <1>8, <2>1, <2>3, <2>4
  <2> QED
    BY <2>5 DEF m, n
<1>12. references = <<>> <=> o.references = <<>>
  <2>1. \A s : IsList(s) => (s = <<>> <=> Elements(s) = {})
    <3> SUFFICES ASSUME NEW s, IsList(s)
                 PROVE  s = <<>> <=> Elements(s) = {}
      OBVIOUS
    <3>1. s = <<>> => Elements(s) = {}
      BY DEF Elements
    <3>2. Elements(s) = {} => Len(s) = 0
      <4>1. Len(s) \in Nat /\ (Len(s) # 0 => 1 \in 1..Len(s))
        BY DEF IsList
      <4>2. 1 \in 1..Len(s) => s[1] \in Elements(s)
        BY DEF Elements
      <4> QED
        BY <4>1, <4>2
    <3>3. Len(s) = 0 => s = <<>>
      BY DEF IsList
    <3> QED
      BY <3>1, <3>2, <3>3
  <2> QED
    BY <1>1, <1>3, <2>1
<1> QED
  BY <1>8, <1>9, <1>11, <1>12 DEF p

(* Outputs in the normal form that mean the same are the same. *)
LEMMA SettledOutputsAgree ==
  ASSUME WordsListed, NEW o, NEW p, SettledOutput(o), SettledOutput(p),
         OutputMeaning(o) = OutputMeaning(p)
  PROVE  o = p
<1>1. /\ IsMap(o) /\ IsMap(p)
      /\ {"references", "signatures"} \subseteq DOMAIN o
      /\ {"references", "signatures"} \subseteq DOMAIN p
      /\ IsList(o.references) /\ IsList(p.references)
  BY DEF SettledOutput, TypedResult
<1> DEFINE m == OutputMeaning(o)
           n == OutputMeaning(p)
<1>2. /\ DOMAIN m = DOMAIN o /\ DOMAIN n = DOMAIN p
      /\ m["references"] = ToSet(o.references)
      /\ n["references"] = ToSet(p.references)
      /\ m["signatures"] = ToSet(o.signatures)
      /\ n["signatures"] = ToSet(p.signatures)
      /\ \A x \in DOMAIN o \ {"references", "signatures"} : m[x] = o[x]
      /\ \A x \in DOMAIN p \ {"references", "signatures"} : n[x] = p[x]
  BY <1>1 DEF OutputMeaning
<1>3. m = n
  OBVIOUS
<1> HIDE DEF m, n
<1>4. /\ DOMAIN o = DOMAIN p
      /\ ToSet(o.references) = ToSet(p.references)
      /\ ToSet(o.signatures) = ToSet(p.signatures)
      /\ \A x \in DOMAIN o \ {"references", "signatures"} : o[x] = p[x]
  BY <1>2, <1>3
<1>5. o.references = p.references
  BY <1>1, <1>4, SameReferences DEF SettledOutput
<1>6. o.signatures = p.signatures
  BY <1>4, SameWordsSameList DEF SettledOutput, TypedResult
<1>7. \A x \in DOMAIN o : o[x] = p[x]
  BY <1>4, <1>5, <1>6
<1> QED
  BY <1>1, <1>4, <1>7 DEF IsMap

-----------------------------------------------------------------------------
(* Lists of outputs, by system, output and store path. *)
Placed(o) ==
    /\ Place(o.system) \in Int /\ Place(o.output) \in Int
    /\ Place(o.store_path) \in Int

(* What the order of outputs says. *)
LEMMA OutputOrder ==
  ASSUME NEW o, NEW p
  PROVE  OutputBefore(o, p) <=>
            \/ Place(o.system) < Place(p.system)
            \/ /\ Place(o.system) = Place(p.system)
               /\ Place(o.output) < Place(p.output)
            \/ /\ Place(o.system) = Place(p.system)
               /\ Place(o.output) = Place(p.output)
               /\ Place(o.store_path) < Place(p.store_path)
<1> DEFINE k == OutputKey(o)
           l == OutputKey(p)
<1>1. /\ k[1] = Place(o.system) /\ l[1] = Place(p.system)
      /\ k[2] = Place(o.output) /\ l[2] = Place(p.output)
      /\ k[3] = Place(o.store_path) /\ l[3] = Place(p.store_path)
  BY DEF OutputKey
<1>2. OutputBefore(o, p) <=>
         \E i \in 1..3 : k[i] < l[i] /\ \A j \in 1..(i - 1) : k[j] = l[j]
  BY DEF OutputBefore
<1> HIDE DEF k, l
<1>3. (\E i \in 1..3 : k[i] < l[i] /\ \A j \in 1..(i - 1) : k[j] = l[j])
         <=> \/ k[1] < l[1]
             \/ k[1] = l[1] /\ k[2] < l[2]
             \/ k[1] = l[1] /\ k[2] = l[2] /\ k[3] < l[3]
  <2>1. 1..3 = {1, 2, 3} /\ 1..0 = {} /\ 1..1 = {1} /\ 1..2 = {1, 2}
    OBVIOUS
  <2>2. (\E i \in 1..3 : k[i] < l[i] /\ \A j \in 1..(i - 1) : k[j] = l[j])
           <=> \/ k[1] < l[1] /\ \A j \in 1..(1 - 1) : k[j] = l[j]
               \/ k[2] < l[2] /\ \A j \in 1..(2 - 1) : k[j] = l[j]
               \/ k[3] < l[3] /\ \A j \in 1..(3 - 1) : k[j] = l[j]
    BY <2>1
  <2> QED
    BY <2>2
<1> QED
  BY <1>1, <1>2, <1>3

(* It is an order of outputs that are told apart by system and output.     *)
LEMMA OutputsTotal ==
  ASSUME NEW S, \A o \in S : Placed(o),
         \A o, p \in S :
            Place(o.system) = Place(p.system)
            /\ Place(o.output) = Place(p.output) => o = p,
         NEW before, \A o, p \in S : <<o, p>> \in before <=> OutputBefore(o, p)
  PROVE  StrictTotalOrder(S, before)
<1>1. \A o, p \in S : <<o, p>> \in before <=>
            \/ Place(o.system) < Place(p.system)
            \/ /\ Place(o.system) = Place(p.system)
               /\ Place(o.output) < Place(p.output)
            \/ /\ Place(o.system) = Place(p.system)
               /\ Place(o.output) = Place(p.output)
               /\ Place(o.store_path) < Place(p.store_path)
  BY OutputOrder
<1>2. \A o \in S : /\ Place(o.system) \in Int /\ Place(o.output) \in Int
                   /\ Place(o.store_path) \in Int
  BY DEF Placed
<1>3. \A o \in S : <<o, o>> \notin before
  BY <1>1, <1>2
<1>4. \A o, p, q \in S :
         <<o, p>> \in before /\ <<p, q>> \in before => <<o, q>> \in before
  BY <1>1, <1>2
<1>5. \A o, p \in S : o # p => <<o, p>> \in before \/ <<p, o>> \in before
  BY <1>1, <1>2
<1> QED
  BY <1>3, <1>4, <1>5 DEF StrictTotalOrder

(* Outputs in the normal form, and in their order. *)
SettledOutputs(list) ==
    /\ IsList(list)
    /\ \A i \in 1..Len(list) : SettledOutput(list[i])
    /\ \A i, j \in 1..Len(list) : Pair(list[i]) = Pair(list[j]) => i = j
    /\ Ordered(list, {pair \in Elements(list) \X Elements(list) :
                         OutputBefore(pair[1], pair[2])})

(* What is told apart by its pair is told apart by where its words are.    *)
LEMMA PairsPlaced ==
  ASSUME WordsListed, NEW S, \A o \in S : SettledOutput(o),
         \A o, p \in S : Pair(o) = Pair(p) => o = p
  PROVE  /\ \A o \in S : Placed(o)
         /\ \A o, p \in S :
               Place(o.system) = Place(p.system)
               /\ Place(o.output) = Place(p.output) => o = p
<1>1. \A o \in S : o.system \in Words /\ o.output \in Words
                   /\ o.store_path \in Words
  BY DEF SettledOutput
<1>2. \A o \in S : Placed(o)
  BY <1>1, WordsTotal DEF Placed
<1>3. \A o, p \in S :
         Place(o.system) = Place(p.system)
         /\ Place(o.output) = Place(p.output) => o = p
  BY <1>1, WordsTotal DEF Pair
<1> QED
  BY <1>2, <1>3

(* Sorted, they are. *)
LEMMA OutputsSorted ==
  ASSUME WordsListed, NEW s, IsList(s),
         \A i \in 1..Len(s) : SettledOutput(s[i]),
         \A i, j \in 1..Len(s) : Pair(s[i]) = Pair(s[j]) => i = j
  PROVE  LET t == SortedBy(s, OutputBefore)
         IN  /\ SettledOutputs(t) /\ Elements(t) = Elements(s)
             /\ Len(t) = Len(s)
<1> DEFINE less == Positions(s, OutputBefore)
           S == Elements(s)
           before == {pair \in S \X S : OutputBefore(pair[1], pair[2])}
           t == SortedBy(s, OutputBefore)
<1>1. ListOf(s, S) /\ Once(s)
  BY DEF ListOf, Elements, Once
<1>2. /\ \A o \in S : SettledOutput(o)
      /\ \A o, p \in S : Pair(o) = Pair(p) => o = p
  BY DEF Elements
<1>3. \A o, p \in S : <<o, p>> \in before <=> OutputBefore(o, p)
  OBVIOUS
<1>4. StrictTotalOrder(S, before)
  <2>1. /\ \A o \in S : Placed(o)
        /\ \A o, p \in S :
              Place(o.system) = Place(p.system)
              /\ Place(o.output) = Place(p.output) => o = p
    BY <1>2, PairsPlaced
  <2> HIDE DEF before, S
  <2> QED
    BY <1>3, <2>1, OutputsTotal
<1>5. \A i, j \in 1..Len(s) :
         <<i, j>> \in less <=> <<s[i], s[j]>> \in before
  BY DEF Positions, Elements
<1>6. t = Arranged(s, 1..Len(s), Stably(Len(s), less))
  BY DEF SortedBy
<1> HIDE DEF less, t
<1>7. ListOf(t, S) /\ Ordered(t, before) /\ Elements(t) = S /\ Once(t)
      /\ Len(t) = Len(s)
  <2> HIDE DEF before
  <2>0. S = Elements(s)
    OBVIOUS
  <2> HIDE DEF S
  <2>1. /\ ListOf(t, S) /\ Ordered(t, before)
        /\ Elements(t) = Elements(s) /\ Len(t) = Len(s)
        /\ Once(s) => Once(t)
    BY <1>1, <1>4, <1>5, <1>6, SortedValues
  <2> QED
    BY <1>1, <2>0, <2>1
<1>8. \A i, j \in 1..Len(t) : Pair(t[i]) = Pair(t[j]) => i = j
  BY <1>2, <1>7 DEF ListOf, Once
<1>9. \A i \in 1..Len(t) : SettledOutput(t[i])
  BY <1>2, <1>7 DEF ListOf
<1>10. Ordered(t, {pair \in Elements(t) \X Elements(t) :
                      OutputBefore(pair[1], pair[2])})
  BY <1>7
<1>11. SettledOutputs(t)
  BY <1>7, <1>8, <1>9, <1>10 DEF SettledOutputs, ListOf
<1> QED
  BY <1>7, <1>11 DEF t

(* Lists of outputs in the normal form that mean the same are the same.    *)
LEMMA SettledListsAgree ==
  ASSUME WordsListed, NEW s, NEW t, SettledOutputs(s), SettledOutputs(t),
         {OutputMeaning(s[i]) : i \in DOMAIN s}
            = {OutputMeaning(t[i]) : i \in DOMAIN t}
  PROVE  s = t
<1> DEFINE S == Elements(s)
           before == {pair \in S \X S : OutputBefore(pair[1], pair[2])}
<1>1. /\ DOMAIN s = 1..Len(s) /\ DOMAIN t = 1..Len(t)
      /\ IsList(s) /\ IsList(t)
  BY ListDomain DEF SettledOutputs
<1>2. /\ \A x \in Elements(s) : SettledOutput(x)
      /\ \A x \in Elements(t) : SettledOutput(x)
  BY DEF SettledOutputs, Elements
<1>3. \A x \in Elements(s) : \E y \in Elements(t) :
         OutputMeaning(x) = OutputMeaning(y)
  <2> SUFFICES ASSUME NEW i \in 1..Len(s)
               PROVE  \E y \in Elements(t) :
                         OutputMeaning(s[i]) = OutputMeaning(y)
    BY DEF Elements
  <2>1. OutputMeaning(s[i]) \in {OutputMeaning(t[j]) : j \in DOMAIN t}
    BY <1>1
  <2> QED
    BY <1>1, <2>1 DEF Elements
<1>4. \A y \in Elements(t) : \E x \in Elements(s) :
         OutputMeaning(x) = OutputMeaning(y)
  <2> SUFFICES ASSUME NEW j \in 1..Len(t)
               PROVE  \E x \in Elements(s) :
                         OutputMeaning(x) = OutputMeaning(t[j])
    BY DEF Elements
  <2>1. OutputMeaning(t[j]) \in {OutputMeaning(s[i]) : i \in DOMAIN s}
    BY <1>1
  <2> QED
    BY <1>1, <2>1 DEF Elements
<1>5. Elements(s) = Elements(t)
  BY <1>2, <1>3, <1>4, SettledOutputsAgree
<1>6. ListOf(s, S)
  BY <1>1 DEF ListOf, Elements
<1>7. Once(s) /\ Once(t)
  BY DEF SettledOutputs, Once
<1>8. Ordered(s, before) /\ Ordered(t, before)
  BY <1>5 DEF SettledOutputs
<1>9. \A o, p \in S : Pair(o) = Pair(p) => o = p
  BY DEF SettledOutputs, Elements
<1>10. \A o, p \in S : <<o, p>> \in before <=> OutputBefore(o, p)
  OBVIOUS
<1>11. /\ \A o \in S : Placed(o)
       /\ \A o, p \in S :
             Place(o.system) = Place(p.system)
             /\ Place(o.output) = Place(p.output) => o = p
  BY <1>2, <1>9, PairsPlaced
<1> HIDE DEF before, S
<1>12. StrictTotalOrder(S, before)
  BY <1>10, <1>11, OutputsTotal
<1> QED
  BY <1>1, <1>5, <1>6, <1>7, <1>8, <1>12, SameSetSameList

-----------------------------------------------------------------------------
(* A record in the normal form. *)
SettledRecord(b) ==
    /\ IsMap(b) /\ {"intent", "outputs"} \subseteq DOMAIN b
    /\ SettledIntent(b.intent) /\ SettledOutputs(b.outputs)

(* Records in the normal form that mean the same are the same. *)
LEMMA SettledRecordsAgree ==
  ASSUME WordsListed, NEW a, NEW b, SettledRecord(a), SettledRecord(b),
         RecordMeaning(a) = RecordMeaning(b)
  PROVE  a = b
<1>1. /\ IsMap(a) /\ IsMap(b)
      /\ {"intent", "outputs"} \subseteq DOMAIN a
      /\ {"intent", "outputs"} \subseteq DOMAIN b
  BY DEF SettledRecord
<1> DEFINE m == RecordMeaning(a)
           n == RecordMeaning(b)
           c == {OutputMeaning(a.outputs[i]) : i \in DOMAIN a.outputs}
           d == {OutputMeaning(b.outputs[i]) : i \in DOMAIN b.outputs}
<1>2. /\ m = [a EXCEPT !.intent = IntentMeaning(a.intent), !.outputs = c]
      /\ n = [b EXCEPT !.intent = IntentMeaning(b.intent), !.outputs = d]
  BY DEF RecordMeaning
<1>3. m = n
  OBVIOUS
<1> HIDE DEF m, n, c, d
<1>4. /\ DOMAIN m = DOMAIN a /\ DOMAIN n = DOMAIN b
      /\ m["intent"] = IntentMeaning(a.intent) /\ m["outputs"] = c
      /\ n["intent"] = IntentMeaning(b.intent) /\ n["outputs"] = d
      /\ \A x \in DOMAIN a \ {"intent", "outputs"} : m[x] = a[x]
      /\ \A x \in DOMAIN b \ {"intent", "outputs"} : n[x] = b[x]
  BY <1>1, <1>2
<1>5. /\ DOMAIN a = DOMAIN b /\ c = d
      /\ IntentMeaning(a.intent) = IntentMeaning(b.intent)
      /\ \A x \in DOMAIN a \ {"intent", "outputs"} : a[x] = b[x]
  BY <1>3, <1>4
<1>6. a.intent = b.intent
  BY <1>5, SettledIntentsAgree DEF SettledRecord
<1>7. a.outputs = b.outputs
  BY <1>5, SettledListsAgree DEF SettledRecord, c, d
<1>8. \A x \in DOMAIN a : a[x] = b[x]
  BY <1>5, <1>6, <1>7
<1> QED
  BY <1>1, <1>5, <1>8 DEF IsMap

(* The systems of a plan in any order are its systems. *)
LEMMA SystemsInAnyOrder ==
  ASSUME NEW list, IsList(list), NEW s \in SetToSeqs(ToSet(list))
  PROVE  IsList(s) /\ Once(s) /\ Elements(s) = ToSet(list)
<1> DEFINE S == ToSet(list)
           n == Cardinality(S)
<1>1. IsFiniteSet(S)
  <2>1. S = Elements(list) /\ Len(list) \in Nat
    BY ListDomain
  <2> DEFINE f == [i \in 1..Len(list) |-> list[i]]
  <2>2. f \in Surjection(1..Len(list), S)
    BY <2>1 DEF Surjection, Elements
  <2>3. IsFiniteSet(1..Len(list))
    BY <2>1, AsManyPositions
  <2> HIDE DEF f, S
  <2> QED
    BY <2>2, <2>3, FS_Surjection
<1> HIDE DEF S
<1>2. n \in Nat /\ IsFiniteSet(1..n) /\ Cardinality(1..n) = n
  BY <1>1, FS_CardinalityType, AsManyPositions
<1>3. /\ s \in [1..n -> S]
      /\ \A i, j \in 1..n : i # j => s[i] # s[j]
  BY DEF SetToSeqs, S
<1>4. s \in Injection(1..n, S)
  BY <1>3, Fun_IsInj
<1>5. s \in Surjection(1..n, S)
  BY <1>1, <1>2, <1>4, FS_Injection
<1>6. \A x \in S : \E i \in 1..n : s[i] = x
  BY <1>5 DEF Surjection
<1>7. Len(s) = n /\ DOMAIN s = 1..n
  BY <1>2, <1>3
<1>8. IsList(s) /\ Once(s)
  BY <1>2, <1>3, <1>7 DEF IsList, Once
<1>9. Elements(s) = S
  BY <1>3, <1>6, <1>7 DEF Elements
<1> QED
  BY <1>8, <1>9 DEF S

(* A list that has nothing twice has as many elements as it is long.       *)
LEMMA AsManyElements ==
  ASSUME NEW s, IsList(s), Once(s)
  PROVE  Cardinality(Elements(s)) = Len(s)
<1>1. Len(s) \in Nat /\ IsFiniteSet(1..Len(s))
      /\ Cardinality(1..Len(s)) = Len(s)
  BY AsManyPositions DEF IsList
<1> DEFINE f == [i \in 1..Len(s) |-> s[i]]
           S == Elements(s)
<1>2. f \in Surjection(1..Len(s), S)
  BY DEF Surjection, Elements
<1>3. f \in [1..Len(s) -> S] /\ \A i, j \in 1..Len(s) : f[i] = f[j] => i = j
  BY DEF Elements, Once
<1> HIDE DEF f, S
<1>4. f \in Injection(1..Len(s), S)
  BY <1>3, Fun_IsInj
<1>5. Cardinality(S) = Cardinality(1..Len(s))
  BY <1>1, <1>2, <1>4, FS_Surjection
<1> QED
  BY <1>1, <1>5 DEF S

(* What is sealed for a plan, from what was built. *)
SealedFor(plan, bytes) ==
    /\ SettledRecord(bytes)
    /\ \A system \in ToSet(plan.intent.systems) :
          \E o \in ToSet(bytes.outputs) : o.system = system
    /\ \A o, p \in ToSet(bytes.outputs) : Pair(o) = Pair(p) => o = p
    /\ Len(bytes.outputs) = Cardinality(ToSet(bytes.outputs))
    /\ \A o \in ToSet(bytes.outputs) : \E result \in realized :
          OutputMeaning(o) = OutputMeaning(result)

(* A record that is sealed of what was gathered for a plan is in the normal *)
(* form, and has what the plan announced.                                   *)
LEMMA RecordSealed ==
  ASSUME WordsListed, NEW plan, SettledDraft(plan),
         NEW systems \in SetToSeqs(ToSet(plan.intent.systems)),
         gathered \in Seq(realized),
         \A o \in realized : TypedResult(o),
         RecordBytes(RecordFor(plan, systems)) # Refused
  PROVE  SealedFor(plan, RecordBytes(RecordFor(plan, systems)))
<1> DEFINE r == RecordFor(plan, systems)
           b == NormalizedRecord(r)
           intent == [plan.intent EXCEPT !.systems = systems]
           each == [i \in DOMAIN gathered |-> NormalizedOutput(gathered[i])]
           outputs == SortedBy(each, OutputBefore)
<1>1. RecordBytes(r) = b /\ ValidNixRecord(r)
  BY DEF RecordBytes
<1>2. /\ r.direction = "zed-to-nix" /\ r.intent = intent
      /\ r.outputs = gathered /\ IsMap(r)
      /\ {"intent", "outputs"} \subseteq DOMAIN r
  BY DEF RecordFor, IsMap
<1>3. /\ ValidIntent(intent, r.package.name)
      /\ \A i \in DOMAIN gathered : ValidOutput(gathered[i])
      /\ CoversIntent(intent, gathered)
  BY <1>1, <1>2 DEF ValidNixRecord, ValidZedToNix
<1>4. b = [r EXCEPT !.intent = NormalizedIntent(intent),
                    !.outputs = outputs]
  BY <1>2 DEF NormalizedRecord
<1>5. /\ IsList(systems) /\ Once(systems)
      /\ Elements(systems) = ToSet(plan.intent.systems)
  BY SystemsInAnyOrder DEF SettledDraft, SettledIntent, TypedIntent
<1>6. /\ IsMap(intent) /\ {"systems", "outputs"} \subseteq DOMAIN intent
      /\ intent.systems = systems /\ intent.outputs = plan.intent.outputs
  BY DEF SettledDraft, SettledIntent, TypedIntent, IsMap
<1>7. /\ IsList(gathered) /\ DOMAIN gathered = 1..Len(gathered)
      /\ \A i \in 1..Len(gathered) : gathered[i] \in realized
      /\ Len(gathered) \in Nat
  BY DEF IsList
<1>8. TypedIntent(intent)
  BY <1>5, <1>6 DEF SettledDraft, SettledIntent, TypedIntent
<1> HIDE DEF intent, r, outputs
<1>9. /\ ListOf(intent.systems, Words) /\ ListOf(intent.outputs, Words)
      /\ Once(intent.systems) /\ Once(intent.outputs)
  BY <1>3, <1>8, ValidIntentWords
<1>10. SettledIntent(NormalizedIntent(intent))
  BY <1>8, <1>9, IntentSettled
<1>11. Len(each) = Len(gathered) /\ IsList(each)
  BY <1>7 DEF IsList
<1>12. ASSUME NEW i \in 1..Len(gathered)
       PROVE  /\ each[i] = NormalizedOutput(gathered[i])
              /\ SettledOutput(each[i])
              /\ Pair(each[i]) = Pair(gathered[i])
              /\ each[i].system = gathered[i].system
              /\ OutputMeaning(each[i]) = OutputMeaning(gathered[i])
  <2>1. each[i] = NormalizedOutput(gathered[i])
    BY <1>7
  <2>2. TypedResult(gathered[i]) /\ ValidOutput(gathered[i])
    BY <1>3, <1>7
  <2> HIDE DEF each
  <2> QED
    BY <2>1, <2>2, OutputSettled DEF Pair
<1>13. \A i, j \in 1..Len(gathered) :
          Pair(gathered[i]) = Pair(gathered[j]) => i = j
  <2>1. IsInjective([i \in DOMAIN gathered |-> Pair(gathered[i])])
    BY <1>3 DEF CoversIntent
  <2> QED
    BY <1>7, <2>1 DEF IsInjective
<1> HIDE DEF each
<1>14. /\ SettledOutputs(outputs) /\ Elements(outputs) = Elements(each)
  <2>1. /\ \A i \in 1..Len(each) : SettledOutput(each[i])
        /\ \A i, j \in 1..Len(each) : Pair(each[i]) = Pair(each[j]) => i = j
    BY <1>11, <1>12, <1>13
  <2> QED
    BY <1>11, <2>1, OutputsSorted DEF outputs
<1>15. /\ IsMap(b) /\ {"intent", "outputs"} \subseteq DOMAIN b
       /\ b.intent = NormalizedIntent(intent) /\ b.outputs = outputs
  BY <1>2, <1>4 DEF IsMap
<1> HIDE DEF b
<1>16. SettledRecord(b)
  BY <1>10, <1>14, <1>15 DEF SettledRecord
<1>17. ToSet(outputs) = Elements(each) /\ IsList(outputs)
  BY <1>14, ListDomain DEF SettledOutputs
<1>18. ASSUME NEW system \in ToSet(plan.intent.systems)
       PROVE  \E o \in ToSet(outputs) : o.system = system
  <2>1. system \in ToSet(intent.systems)
    BY <1>5, <1>6, ListDomain
  <2>2. PICK i \in DOMAIN gathered : gathered[i].system = system
    BY <1>3, <2>1 DEF CoversIntent
  <2>3. each[i].system = system /\ each[i] \in Elements(each)
    BY <1>7, <1>11, <1>12, <2>2 DEF Elements
  <2> QED
    BY <1>17, <2>3
<1>19. \A o, p \in ToSet(outputs) : Pair(o) = Pair(p) => o = p
  BY <1>11, <1>12, <1>13, <1>17 DEF Elements
<1>20. Len(outputs) = Cardinality(ToSet(outputs))
  <2>1. Once(outputs)
    BY <1>14 DEF SettledOutputs, Once
  <2>2. ToSet(outputs) = Elements(outputs)
    BY <1>17, ListDomain
  <2> QED
    BY <1>17, <2>1, <2>2, AsManyElements
<1>21. ASSUME NEW o \in ToSet(outputs)
       PROVE  \E result \in realized :
                 OutputMeaning(o) = OutputMeaning(result)
  <2>1. PICK i \in 1..Len(each) : o = each[i]
    BY <1>17 DEF Elements
  <2> QED
    BY <1>7, <1>11, <1>12, <2>1
<1> QED
  BY <1>1, <1>15, <1>16, <1>18, <1>19, <1>20, <1>21 DEF SealedFor, r

(* What is imported from a result, which refers to nothing. *)
ImportedFrom(b, result) ==
    /\ b.source.realized.store_path = result.store_path
    /\ result.references = <<>>

(* A record of an import says which result it is of. *)
LEMMA RecordImported ==
  ASSUME NEW result, TypedResult(result), NEW package,
         RecordBytes(ImportOf(result, package)) # Refused, WordsListed
  PROVE  ImportedFrom(RecordBytes(ImportOf(result, package)), result)
<1> DEFINE r == ImportOf(result, package)
           b == NormalizedRecord(r)
<1>1. RecordBytes(r) = b /\ ValidNixRecord(r)
  BY DEF RecordBytes
<1>2. r.direction # "zed-to-nix" /\ r.source.realized = result
  BY DEF ImportOf
<1>3. /\ result.references = <<>>
      /\ ValidOutput(result)
  <2> HIDE DEF r, b
  <2>1. ValidNixToZed(r)
    BY <1>1, <1>2 DEF ValidNixRecord
  <2>2. ValidNixOrigin(r.source) /\ r.source.realized.references = <<>>
    BY <2>1 DEF ValidNixToZed
  <2>3. ValidOutput(r.source.realized)
    BY <2>2 DEF ValidNixOrigin
  <2> QED
    BY <1>2, <2>2, <2>3
<1>4. b = [r EXCEPT !.source.realized = NormalizedOutput(result)]
  BY <1>2 DEF NormalizedRecord
<1>5. b.source.realized = NormalizedOutput(result)
  <2>1. "source" \in DOMAIN r /\ "realized" \in DOMAIN r.source
    BY DEF ImportOf
  <2> HIDE DEF r, b
  <2>2. b.source = [r.source EXCEPT !.realized = NormalizedOutput(result)]
    BY <1>4, <2>1
  <2> QED
    BY <2>1, <2>2
<1>6. NormalizedOutput(result).store_path = result.store_path
  BY <1>3, OutputSettled
<1> HIDE DEF b, r
<1> QED
  BY <1>1, <1>3, <1>5, <1>6 DEF ImportedFrom, r

-----------------------------------------------------------------------------
(* What is known of plans, records and imports as long as they are made.   *)
NixHeld ==
    /\ \A plan \in drafted : SettledDraft(plan) /\ ValidPlan(plan)
    /\ realized \subseteq Results
    /\ gathered \in Seq(realized)
    /\ \A r \in sealed : SealedFor(r.plan, r.bytes)
    /\ \A b \in imported : \E result \in realized : ImportedFrom(b, result)

(* The planners, builders and importers as the code types them; what a     *)
(* store path refers to is fixed with the path.                            *)
TypedNix ==
    /\ WordsListed
    /\ \A plan \in Drafts : TypedDraft(plan)
    /\ \A result \in Results : TypedResult(result)
PathsDecide ==
    \A o, p \in Results : o.store_path = p.store_path =>
        (o.references = <<>> <=> p.references = <<>>)

(* More results do not undo a record. *)
LEMMA SealedStays ==
  ASSUME NEW plan, NEW bytes, SealedFor(plan, bytes),
         realized \subseteq realized'
  PROVE  SealedFor(plan, bytes)'
BY DEF SealedFor, SettledRecord, SettledIntent, SettledOutputs, Pair,
  OutputMeaning, SettledOutput, TypedResult, TypedIntent, OutputBefore,
  OutputKey

(* No planner, builder, sealer or importer undoes it. *)
LEMMA NixStaysHeld ==
  ASSUME TypedNix, NixHeld, [NixNext]_nixVars
  PROVE  NixHeld'
<1>1. WordsListed
  BY DEF TypedNix
<1>2. ASSUME NEW plan \in Drafts, Draft(plan)
      PROVE  NixHeld'
  <2>1. /\ drafted' = drafted \union {PlanBytes(plan)}
        /\ PlanBytes(plan) # Refused
        /\ realized' = realized /\ gathered' = gathered
        /\ sealed' = sealed /\ imported' = imported
    BY <1>2 DEF Draft
  <2>2. SettledDraft(PlanBytes(plan)) /\ ValidPlan(PlanBytes(plan))
    BY <1>1, <2>1, DraftSettled DEF TypedNix
  <2>3. \A p \in drafted' : SettledDraft(p) /\ ValidPlan(p)
    BY <2>1, <2>2 DEF NixHeld
  <2>4. \A r \in sealed' : SealedFor(r.plan, r.bytes)'
    BY <2>1, SealedStays DEF NixHeld
  <2> QED
    BY <2>1, <2>3, <2>4 DEF NixHeld
<1>3. ASSUME NEW result \in Results, Realize(result)
      PROVE  NixHeld'
  <2>1. /\ realized' = realized \union {result}
        /\ drafted' = drafted /\ gathered' = gathered
        /\ sealed' = sealed /\ imported' = imported
    BY <1>3 DEF Realize
  <2>2. gathered' \in Seq(realized')
    BY <2>1 DEF NixHeld
  <2>3. \A r \in sealed' : SealedFor(r.plan, r.bytes)'
    BY <2>1, SealedStays DEF NixHeld
  <2> QED
    BY <2>1, <2>2, <2>3 DEF NixHeld
<1>4. ASSUME NEW result \in realized, Gather(result)
      PROVE  NixHeld'
  <2>1. /\ gathered' = Append(gathered, result)
        /\ drafted' = drafted /\ realized' = realized
        /\ sealed' = sealed /\ imported' = imported
    BY <1>4 DEF Gather
  <2>2. gathered' \in Seq(realized')
    BY <2>1 DEF NixHeld
  <2>3. \A r \in sealed' : SealedFor(r.plan, r.bytes)'
    BY <2>1, SealedStays DEF NixHeld
  <2> QED
    BY <2>1, <2>2, <2>3 DEF NixHeld
<1>5. ASSUME NEW result \in realized, Import(result)
      PROVE  NixHeld'
  <2>1. PICK plan \in drafted :
           /\ RecordBytes(ImportOf(result, plan.package)) # Refused
           /\ imported' = {RecordBytes(ImportOf(result, plan.package))}
    BY <1>5 DEF Import
  <2>2. /\ drafted' = drafted /\ realized' = realized
        /\ gathered' = gathered /\ sealed' = sealed
    BY <1>5 DEF Import
  <2>3. TypedResult(result)
    BY DEF TypedNix, NixHeld
  <2>4. ImportedFrom(RecordBytes(ImportOf(result, plan.package)), result)
    BY <1>1, <2>1, <2>3, RecordImported
  <2>5. \A r \in sealed' : SealedFor(r.plan, r.bytes)'
    BY <2>2, SealedStays DEF NixHeld
  <2> QED
    BY <2>1, <2>2, <2>4, <2>5 DEF NixHeld
<1>6. ASSUME NEW plan \in drafted, Seal(plan)
      PROVE  NixHeld'
  <2>1. PICK systems \in SetToSeqs(ToSet(plan.intent.systems)) :
           LET bytes == RecordBytes(RecordFor(plan, systems))
           IN  /\ bytes # Refused
               /\ sealed' = sealed \union {[plan |-> plan, bytes |-> bytes]}
    BY <1>6 DEF Seal
  <2>2. /\ gathered' = <<>> /\ drafted' = drafted
        /\ realized' = realized /\ imported' = imported
    BY <1>6 DEF Seal
  <2>3. /\ SettledDraft(plan) /\ gathered \in Seq(realized)
        /\ \A o \in realized : TypedResult(o)
    BY DEF TypedNix, NixHeld
  <2> DEFINE bytes == RecordBytes(RecordFor(plan, systems))
             entry == [plan |-> plan, bytes |-> bytes]
  <2>4. SealedFor(plan, bytes)
    BY <1>1, <2>1, <2>3, RecordSealed
  <2>5. sealed' = sealed \union {entry}
    BY <2>1
  <2>6. entry.plan = plan /\ entry.bytes = bytes
    OBVIOUS
  <2> HIDE DEF bytes, entry
  <2>7. \A r \in sealed' : SealedFor(r.plan, r.bytes)
    BY <2>4, <2>5, <2>6 DEF NixHeld
  <2>8. \A r \in sealed' : SealedFor(r.plan, r.bytes)'
    BY <2>2, <2>7, SealedStays
  <2>9. <<>> \in Seq(realized)
    OBVIOUS
  <2> QED
    BY <2>2, <2>8, <2>9 DEF NixHeld
<1>7. CASE Discard
  <2>1. /\ gathered' = <<>> /\ drafted' = drafted
        /\ realized' = realized /\ sealed' = sealed
        /\ imported' = imported
    BY <1>7 DEF Discard
  <2>2. \A r \in sealed' : SealedFor(r.plan, r.bytes)'
    BY <2>1, SealedStays DEF NixHeld
  <2>3. <<>> \in Seq(realized)
    OBVIOUS
  <2> QED
    BY <2>1, <2>2, <2>3 DEF NixHeld
<1>8. CASE UNCHANGED nixVars
  <2>1. /\ gathered' = gathered /\ drafted' = drafted
        /\ realized' = realized /\ sealed' = sealed
        /\ imported' = imported
    BY <1>8 DEF nixVars
  <2>2. \A r \in sealed' : SealedFor(r.plan, r.bytes)'
    BY <2>1, SealedStays DEF NixHeld
  <2> QED
    BY <2>1, <2>2 DEF NixHeld
<1> QED
  BY <1>2, <1>3, <1>4, <1>5, <1>6, <1>7, <1>8 DEF NixNext

(* It holds from the beginning. *)
LEMMA NixIsHeld ==
  ASSUME TypedNix
  PROVE  NixSpec => []NixHeld
<1>1. NixInit => NixHeld
  BY DEF NixInit, NixHeld
<1>2. TypedNix /\ NixHeld /\ [NixNext]_nixVars => NixHeld'
  BY NixStaysHeld
<1> QED
  BY <1>1, <1>2, PTL DEF NixSpec

(* Plans and records that mean the same are the same. *)
LEMMA NixAgrees ==
  ASSUME WordsListed, NixHeld
  PROVE  PlansAgree /\ SealersAgree
<1>1. PlansAgree
  BY SettledDraftsAgree DEF NixHeld, PlansAgree
<1>2. SealersAgree
  BY SettledRecordsAgree DEF NixHeld, SealersAgree, SealedFor
<1> QED
  BY <1>1, <1>2

(* What is sealed was announced and reported. *)
LEMMA SealedHolds ==
  ASSUME NixHeld
  PROVE  SealedAsAnnounced
BY DEF NixHeld, SealedFor, SealedAsAnnounced

(* What is imported refers to nothing. *)
LEMMA ImportsHold ==
  ASSUME NixHeld, PathsDecide
  PROVE  ImportsStandAlone
<1> SUFFICES ASSUME imported # Absent, NEW b \in imported,
                    NEW result \in realized,
                    result.store_path = b.source.realized.store_path
             PROVE  result.references = <<>>
  BY DEF ImportsStandAlone
<1>1. PICK origin \in realized : ImportedFrom(b, origin)
  BY DEF NixHeld
<1>2. result \in Results /\ origin \in Results
  BY DEF NixHeld
<1> QED
  BY <1>1, <1>2 DEF ImportedFrom, PathsDecide

-----------------------------------------------------------------------------
(* Where the commands of a plan are. *)

(* A path is a list of what is between its slashes, and that is a list.    *)
TypedPath(path) ==
    IsList(path) /\ \A i \in 1..Len(path) : IsList(path[i])
Segments(path) == [i \in 1..Len(path) |-> path[i][1]]

(* What is between the first and the last of a list, one more each time. *)
LEMMA OneMore ==
  ASSUME NEW s, NEW n \in Nat
  PROVE  LET u == [j \in 1..n |-> s[j]]
         IN  /\ Append(u, s[n + 1]) = [j \in 1..(n + 1) |-> s[j]]
             /\ u \o <<s[n + 1]>> = [j \in 1..(n + 1) |-> s[j]]
<1> DEFINE T == {s[j] : j \in 1..(n + 1)}
           u == [j \in 1..n |-> s[j]]
           v == s[n + 1]
           w == [j \in 1..(n + 1) |-> s[j]]
<1>1. \A j \in 1..(n + 1) : s[j] \in T
  OBVIOUS
<1> HIDE DEF T
<1>2. u \in Seq(T) /\ Len(u) = n /\ \A j \in 1..n : u[j] = s[j]
  BY <1>1
<1>3. w \in Seq(T) /\ Len(w) = n + 1 /\ \A j \in 1..(n + 1) : w[j] = s[j]
  BY <1>1
<1>4. v \in T /\ v = s[n + 1]
  BY <1>1
<1> HIDE DEF u, v, w
<1>5. /\ Append(u, v) \in Seq(T) /\ Len(Append(u, v)) = n + 1
      /\ Append(u, v)[n + 1] = v
      /\ \A j \in 1..n : Append(u, v)[j] = u[j]
  BY <1>2, <1>4
<1>6. <<v>> \in Seq(T) /\ Len(<<v>>) = 1 /\ <<v>>[1] = v
  BY <1>4
<1>7. /\ (u \o <<v>>) \in Seq(T) /\ Len(u \o <<v>>) = n + 1
      /\ (u \o <<v>>)[n + 1] = v
      /\ \A j \in 1..n : (u \o <<v>>)[j] = u[j]
  BY <1>2, <1>6
<1>8. \A j \in 1..(n + 1) : Append(u, v)[j] = w[j]
  BY <1>2, <1>3, <1>4, <1>5
<1>9. \A j \in 1..(n + 1) : (u \o <<v>>)[j] = w[j]
  BY <1>2, <1>3, <1>4, <1>7
<1>10. Append(u, v) = w
  BY <1>3, <1>5, <1>8
<1>11. u \o <<v>> = w
  BY <1>3, <1>7, <1>9
<1> QED
  BY <1>10, <1>11 DEF u, v, w

(* Two functions at a position, and at the positions that follow.          *)
SameAt(F, G, i) == F[i] = G[i]
StepAlike(F, G, m, n) ==
    \A i \in (m + 1)..n : SameAt(F, G, i - 1) => SameAt(F, G, i)
(* What begins alike and goes on alike ends alike. *)
LEMMA SameSteps ==
  ASSUME NEW m \in Nat, NEW n \in Nat, m <= n, NEW F, NEW G,
         SameAt(F, G, m), StepAlike(F, G, m, n)
  PROVE  SameAt(F, G, n)
<1> USE DEF SameAt, StepAlike
<1> DEFINE B == {i \in m..n : F[i] # G[i]}
<1> SUFFICES ASSUME B # {}
             PROVE  FALSE
  <2>1. n \in m..n
    OBVIOUS
  <2> QED
    BY <2>1
<1>1. B \subseteq Nat
  OBVIOUS
<1> HIDE DEF B
<1>2. PICK k \in B : \A j \in B : k <= j
  BY <1>1, LeastNumber
<1>3. k \in m..n /\ F[k] # G[k] /\ k # m /\ k \in Nat
  BY <1>2 DEF B
<1>4. k \in (m + 1)..n /\ k - 1 \in m..n /\ ~(k <= k - 1)
  BY <1>3
<1>5. k - 1 \notin B
  BY <1>2, <1>4
<1>6. F[k - 1] = G[k - 1]
  BY <1>4, <1>5 DEF B
<1> QED
  BY <1>3, <1>4, <1>6

(* A list is what an equation at every position says: there is no other    *)
(* that satisfies it.                                                      *)
LEMMA OneSegmentEach ==
  ASSUME NEW path, TypedPath(path), path # <<>>,
         \A i \in 1..Len(path) : Len(path[i]) = 1
  PROVE  FlattenSeq(path) = Segments(path)
<1> DEFINE n == Len(path)
           s == Segments(path)
           G == [i \in 1..n |-> [j \in 1..i |-> s[j]]]
           F == CHOOSE f : f = [i \in 1..n |->
                                   IF i = 1 THEN path[i]
                                   ELSE f[i - 1] \o path[i]]
<1>1. n \in Nat /\ path = [i \in 1..n |-> path[i]]
  BY DEF TypedPath, IsList
<1>2. FlattenSeq(path) = F[n]
  <2>1. path # <<>>
    OBVIOUS
  <2> QED
    BY <2>1 DEF FlattenSeq
<1>3. n >= 1
  BY <1>1
<1>4. ASSUME NEW i \in 1..n
      PROVE  path[i] = <<s[i]>>
  <2>1. path[i] = [j \in 1..1 |-> path[i][j]]
    BY DEF TypedPath, IsList
  <2>2. s[i] = path[i][1]
    BY DEF Segments
  <2> QED
    BY <2>1, <2>2
<1>5. s = [i \in 1..n |-> s[i]]
  BY DEF Segments
<1> HIDE DEF n, s
<1>6. G[1] = path[1] /\ 1 \in 1..n
  <2>1. 1 \in 1..n
    BY <1>1, <1>3
  <2>2. G[1] = [j \in 1..1 |-> s[j]]
    BY <2>1
  <2> QED
    BY <2>1, <2>2, <1>4
<1>7. ASSUME NEW i \in 1..n, i # 1
      PROVE  G[i] = G[i - 1] \o path[i]
  <2>1. i - 1 \in 1..n /\ i - 1 \in Nat /\ (i - 1) + 1 = i
    BY <1>1, <1>7
  <2>2. G[i - 1] = [j \in 1..(i - 1) |-> s[j]]
    BY <2>1
  <2>3. G[i] = [j \in 1..i |-> s[j]]
    OBVIOUS
  <2> HIDE DEF G
  <2>4. [j \in 1..(i - 1) |-> s[j]] \o <<s[i]>> = [j \in 1..i |-> s[j]]
    BY <2>1, OneMore
  <2> QED
    BY <2>2, <2>3, <2>4, <1>4
<1>8. G = [i \in 1..n |-> G[i]]
  OBVIOUS
<1> HIDE DEF G
<1>9. G = [i \in 1..n |-> IF i = 1 THEN path[i] ELSE G[i - 1] \o path[i]]
  BY <1>6, <1>7, <1>8
<1>10. F = [i \in 1..n |-> IF i = 1 THEN path[i] ELSE F[i - 1] \o path[i]]
  <2> HIDE DEF F
  <2>1. F = CHOOSE f : f = [i \in 1..n |-> IF i = 1 THEN path[i]
                                           ELSE f[i - 1] \o path[i]]
    BY DEF F, n
  <2> QED
    BY <2>1, <1>9
<1> HIDE DEF F
<1>11. F[1] = G[1]
  BY <1>6, <1>10
<1>12. \A i \in 2..n : F[i - 1] = G[i - 1] => F[i] = G[i]
  <2> SUFFICES ASSUME NEW i \in 2..n, F[i - 1] = G[i - 1]
               PROVE  F[i] = G[i]
    OBVIOUS
  <2>1. i \in 1..n /\ i # 1
    BY <1>1
  <2>2. F[i] = F[i - 1] \o path[i]
    BY <1>10, <2>1
  <2>3. G[i] = G[i - 1] \o path[i]
    BY <1>7, <2>1
  <2> QED
    BY <2>2, <2>3
<1>13. F[n] = G[n]
  <2>1. 1 \in Nat /\ 1 <= n /\ \A i \in (1 + 1)..n : i \in 2..n
    BY <1>3
  <2>2. StepAlike(F, G, 1, n)
    BY <2>1, <1>12 DEF StepAlike, SameAt
  <2>3. SameAt(F, G, 1)
    BY <1>11 DEF SameAt
  <2>4. SameAt(F, G, n)
    BY <1>1, <2>1, <2>2, <2>3, SameSteps
  <2> QED
    BY <2>4 DEF SameAt
<1>14. n \in 1..n
  BY <1>1, <1>3
<1>15. G[n] = s
  BY <1>5, <1>14 DEF G
<1> QED
  BY <1>2, <1>13, <1>15 DEF s

(* A plain segment leads neither up nor nowhere. *)
Plain(segment) == segment \notin {"", ".", ".."}

(* A step along a plain segment. *)
LEMMA PlainStep ==
  ASSUME NEW at, NEW segment, at # Refused, Plain(segment)
  PROVE  Moved(at, segment) = Append(at, segment)
BY Zenon DEF Moved, Plain

(* A walk along plain segments comes to where they say. *)
LEMMA PlainWalk ==
  ASSUME NEW s, IsList(s), ~IsList(Refused),
         \A i \in 1..Len(s) : Plain(s[i])
  PROVE  Walk(s) = s
<1> DEFINE n == Len(s)
           G == [i \in 0..n |-> [j \in 1..i |-> s[j]]]
           F == CHOOSE f : f = [i \in 0..n |->
                                   IF i = 0 THEN <<>>
                                   ELSE Moved(f[i - 1], s[i])]
<1>1. n \in Nat /\ s = [i \in 1..n |-> s[i]]
  BY DEF IsList
<1>2. Walk(s) = F[n]
  BY DEF Walk
<1>3. \A i \in 1..n : Plain(s[i])
  OBVIOUS
<1> HIDE DEF n
<1>4. G[0] = <<>> /\ 0 \in 0..n
  <2>1. 0 \in 0..n
    BY <1>1
  <2>2. G[0] = [j \in 1..0 |-> s[j]]
    BY <2>1
  <2> QED
    BY <2>1, <2>2
<1>5. ASSUME NEW i \in 1..n
      PROVE  G[i] = Moved(G[i - 1], s[i])
  <2>1. /\ i - 1 \in 0..n /\ i \in 0..n /\ i - 1 \in Nat
        /\ (i - 1) + 1 = i
    BY <1>1
  <2>2. G[i - 1] = [j \in 1..(i - 1) |-> s[j]]
    BY <2>1
  <2>3. G[i] = [j \in 1..i |-> s[j]]
    BY <2>1
  <2> HIDE DEF G
  <2>4. Append([j \in 1..(i - 1) |-> s[j]], s[i]) = [j \in 1..i |-> s[j]]
    BY <2>1, OneMore
  <2>5. IsList(G[i - 1])
    BY <2>1, <2>2 DEF IsList
  <2>6. G[i - 1] # Refused
    BY <2>5
  <2>7. Moved(G[i - 1], s[i]) = Append(G[i - 1], s[i])
    BY <1>3, <2>6, PlainStep
  <2> QED
    BY <2>2, <2>3, <2>4, <2>7
<1>6. G = [i \in 0..n |-> G[i]]
  OBVIOUS
<1> HIDE DEF G
<1>7. G = [i \in 0..n |-> IF i = 0 THEN <<>> ELSE Moved(G[i - 1], s[i])]
  <2>1. \A i \in 0..n : i # 0 => i \in 1..n
    BY <1>1
  <2> QED
    BY <1>4, <1>5, <1>6, <2>1
<1>8. F = [i \in 0..n |-> IF i = 0 THEN <<>> ELSE Moved(F[i - 1], s[i])]
  <2> HIDE DEF F
  <2>1. F = CHOOSE f : f = [i \in 0..n |-> IF i = 0 THEN <<>>
                                           ELSE Moved(f[i - 1], s[i])]
    BY DEF F, n
  <2> QED
    BY <2>1, <1>7
<1> HIDE DEF F
<1>9. F[0] = G[0]
  BY <1>4, <1>8
<1>10. \A i \in 1..n : F[i - 1] = G[i - 1] => F[i] = G[i]
  <2> SUFFICES ASSUME NEW i \in 1..n, F[i - 1] = G[i - 1]
               PROVE  F[i] = G[i]
    OBVIOUS
  <2>1. i \in 0..n /\ i # 0
    BY <1>1
  <2>2. F[i] = Moved(F[i - 1], s[i])
    BY <1>8, <2>1
  <2> QED
    BY <2>2, <1>5
<1>11. F[n] = G[n]
  <2>1. 0 \in Nat /\ 0 <= n /\ \A i \in (0 + 1)..n : i \in 1..n
    BY <1>1
  <2>2. StepAlike(F, G, 0, n)
    BY <2>1, <1>10 DEF StepAlike, SameAt
  <2>3. SameAt(F, G, 0)
    BY <1>9 DEF SameAt
  <2>4. SameAt(F, G, n)
    BY <1>1, <2>1, <2>2, <2>3, SameSteps
  <2> QED
    BY <2>4 DEF SameAt
<1>12. n \in 0..n
  BY <1>1
<1>13. G[n] = s
  BY <1>1, <1>12 DEF G
<1> QED
  BY <1>2, <1>11, <1>13

(* Commands as the code types them; a refusal is no path. *)
TypedCommands(plan) == \A c \in DOMAIN plan.bins : TypedPath(plan.bins[c])
TypedBins ==
    /\ ~IsList(Refused)
    /\ \A plan \in drafted : TypedCommands(plan)

(* A safe path is one file inside the artifact, and the only spelling of   *)
(* it.                                                                     *)
LEMMA SafePaths ==
  ASSUME NEW path, TypedPath(path), IsSafePath(path), ~IsList(Refused)
  PROVE  LET w == Walk(FlattenSeq(path))
         IN  /\ w = Segments(path) /\ w \notin {Refused, <<>>}
             /\ Len(w) = Len(path)
             /\ path = [i \in 1..Len(path) |-> <<w[i]>>]
<1>1. /\ IsList(path) /\ DOMAIN path = 1..Len(path) /\ Len(path) \in Nat
      /\ path = [i \in 1..Len(path) |-> path[i]]
  BY ListDomain DEF TypedPath, IsList
<1>2. /\ path # <<>>
      /\ \A i \in 1..Len(path) : Len(path[i]) = 1
      /\ \A i \in 1..Len(path) : Plain(path[i][1])
  BY <1>1, Zenon DEF IsSafePath, Plain
<1> DEFINE s == Segments(path)
<1>3. FlattenSeq(path) = s
  BY <1>2, OneSegmentEach
<1>4. Len(s) = Len(path) /\ IsList(s)
      /\ \A i \in 1..Len(path) : s[i] = path[i][1]
  BY <1>1 DEF Segments, IsList
<1>5. \A i \in 1..Len(s) : Plain(s[i])
  BY <1>2, <1>4
<1> HIDE DEF s
<1>6. Walk(s) = s
  BY <1>4, <1>5, PlainWalk
<1>7. Len(path) # 0
  BY <1>1, <1>2
<1>8. s # Refused /\ s # <<>>
  BY <1>4, <1>7
<1>9. \A i \in 1..Len(path) : path[i] = <<s[i]>>
  <2> SUFFICES ASSUME NEW i \in 1..Len(path)
               PROVE  path[i] = <<s[i]>>
    OBVIOUS
  <2>1. path[i] = [j \in 1..1 |-> path[i][j]]
    BY <1>2 DEF TypedPath, IsList
  <2> QED
    BY <1>4, <2>1
<1>10. path = [i \in 1..Len(path) |-> <<s[i]>>]
  BY <1>1, <1>9
<1> QED
  BY <1>3, <1>4, <1>6, <1>8, <1>10 DEF s

(* The commands of accepted plans are files inside their artifacts. *)
LEMMA CommandsHold ==
  ASSUME NixHeld, TypedBins
  PROVE  CommandsStayInside
<1> SUFFICES ASSUME drafted # Absent, NEW plan \in drafted,
                    NEW c \in DOMAIN plan.bins, NEW d \in DOMAIN plan.bins
             PROVE  LET split == FlattenSeq(plan.bins[c])
                        other == FlattenSeq(plan.bins[d])
                    IN  /\ Walk(split) \notin {Refused, <<>>}
                        /\ Len(Walk(split)) = Len(plan.bins[c])
                        /\ Walk(split) = Walk(other)
                              => plan.bins[c] = plan.bins[d]
  BY DEF CommandsStayInside
<1>1. /\ IsSafePath(plan.bins[c]) /\ IsSafePath(plan.bins[d])
      /\ TypedPath(plan.bins[c]) /\ TypedPath(plan.bins[d])
      /\ ~IsList(Refused)
  BY DEF NixHeld, ValidPlan, ValidBins, TypedBins, TypedCommands
<1> DEFINE v == Walk(FlattenSeq(plan.bins[c]))
           w == Walk(FlattenSeq(plan.bins[d]))
<1>2. /\ v \notin {Refused, <<>>}
      /\ Len(v) = Len(plan.bins[c])
      /\ plan.bins[c] = [i \in 1..Len(plan.bins[c]) |-> <<v[i]>>]
  BY <1>1, SafePaths
<1>3. /\ Len(w) = Len(plan.bins[d])
      /\ plan.bins[d] = [i \in 1..Len(plan.bins[d]) |-> <<w[i]>>]
  BY <1>1, SafePaths
<1> HIDE DEF v, w
<1>4. v = w => plan.bins[c] = plan.bins[d]
  BY <1>2, <1>3
<1> QED
  BY <1>2, <1>4 DEF v, w

(* The commands of a plan are those of its draft. *)
LEMMA CommandsStayTyped ==
  ASSUME \A plan \in Drafts : TypedDraft(plan) /\ TypedCommands(plan),
         TypedBins, [NixNext]_nixVars
  PROVE  TypedBins'
<1>1. ASSUME NEW plan \in Drafts, Draft(plan)
      PROVE  TypedBins'
  <2>1. drafted' = drafted \union {PlanBytes(plan)}
        /\ PlanBytes(plan) # Refused
    BY <1>1 DEF Draft
  <2>2. PlanBytes(plan) = NormalizedPlan(plan)
    BY <2>1 DEF PlanBytes
  <2>3. NormalizedPlan(plan).bins = plan.bins
    BY DEF NormalizedPlan, TypedDraft, IsMap
  <2>4. TypedCommands(NormalizedPlan(plan))
    BY <2>3 DEF TypedCommands
  <2> QED
    BY <2>1, <2>2, <2>4 DEF TypedBins
<1>2. CASE drafted' = drafted
  BY <1>2 DEF TypedBins
<1> QED
  BY <1>1, <1>2 DEF NixNext, Realize, Gather, Import, Seal, Discard, nixVars

(* Plans that mean the same have the same bytes, and so have records of    *)
(* the same evidence, in whatever order it arrived (nix_plan.rs and        *)
(* nix.rs, canonical_json_bytes).                                          *)
THEOREM NixTranslatorsAgree ==
  ASSUME TypedNix
  PROVE  NixSpec => [](PlansAgree /\ SealersAgree)
<1>1. WordsListed
  BY DEF TypedNix
<1>2. WordsListed /\ NixHeld => PlansAgree /\ SealersAgree
  BY NixAgrees
<1>3. NixSpec => []NixHeld
  BY NixIsHeld
<1> QED
  BY <1>1, <1>2, <1>3, PTL

(* A sealed record has evidence for every system its plan announced, every *)
(* command of a plan is one file inside its artifact, and what is imported *)
(* refers to no store path, where what a path refers to is fixed with the  *)
(* path (nix.rs, NixAdapterRecord::validate; nix_plan.rs,                  *)
(* is_safe_relative_path).                                                 *)
THEOREM TranslationsStand ==
  ASSUME TypedNix, PathsDecide, ~IsList(Refused),
         \A plan \in Drafts : TypedCommands(plan)
  PROVE  NixSpec => []TranslationsHold
<1>1. NixInit => TypedBins
  BY DEF NixInit, TypedBins
<1>2. TypedBins /\ [NixNext]_nixVars => TypedBins'
  BY CommandsStayTyped DEF TypedNix
<1>3. NixSpec => []TypedBins
  BY <1>1, <1>2, PTL DEF NixSpec
<1>4. NixSpec => []NixHeld
  BY NixIsHeld
<1>5. NixHeld /\ TypedBins => TranslationsHold
  BY SealedHolds, CommandsHold, ImportsHold DEF TranslationsHold
<1> QED
  BY <1>3, <1>4, <1>5, PTL

-----------------------------------------------------------------------------
(* What is sorted by a number that each has for itself. *)
Rising(list, key) ==
    /\ \A i \in 1..Len(list) : key[list[i]] \in Int
    /\ \A i, j \in 1..Len(list) : i < j => key[list[i]] < key[list[j]]
ByKey(S, key) == {pair \in S \X S : key[pair[1]] < key[pair[2]]}

(* Such numbers are an order. *)
LEMMA KeysTotal ==
  ASSUME NEW S, NEW key, \A x \in S : key[x] \in Int,
         \A x, y \in S : key[x] = key[y] => x = y
  PROVE  StrictTotalOrder(S, ByKey(S, key))
<1> DEFINE before == ByKey(S, key)
<1>1. \A x, y \in S : <<x, y>> \in before <=> key[x] < key[y]
  BY DEF ByKey
<1> HIDE DEF before
<1> QED
  BY <1>1 DEF StrictTotalOrder, before

(* Sorted, they rise. *)
LEMMA SortedRises ==
  ASSUME NEW s, IsList(s), NEW key,
         \A i \in 1..Len(s) : key[s[i]] \in Int,
         \A i, j \in 1..Len(s) : key[s[i]] = key[s[j]] => i = j,
         NEW less, \A i, j \in 1..Len(s) :
            <<i, j>> \in less <=> key[s[i]] < key[s[j]]
  PROVE  LET t == Arranged(s, 1..Len(s), Stably(Len(s), less))
         IN  /\ IsList(t) /\ Len(t) = Len(s) /\ Elements(t) = Elements(s)
             /\ Rising(t, key)
<1> DEFINE S == Elements(s)
           before == ByKey(S, key)
           t == Arranged(s, 1..Len(s), Stably(Len(s), less))
<1>1. ListOf(s, S) /\ Once(s)
  BY DEF ListOf, Elements, Once
<1>2. /\ \A x \in S : key[x] \in Int
      /\ \A x, y \in S : key[x] = key[y] => x = y
  BY DEF Elements
<1>3. \A x, y \in S : <<x, y>> \in before <=> key[x] < key[y]
  BY DEF ByKey
<1>4. \A i, j \in 1..Len(s) :
         <<i, j>> \in less <=> <<s[i], s[j]>> \in before
  BY <1>1, <1>3 DEF ListOf
<1>5. StrictTotalOrder(S, before)
  BY <1>2, KeysTotal
<1>6. S = Elements(s)
  OBVIOUS
<1> HIDE DEF S, before, t
<1>7. /\ ListOf(t, S) /\ Len(t) = Len(s) /\ Ordered(t, before)
      /\ Elements(t) = Elements(s) /\ Once(t)
  BY <1>1, <1>4, <1>5, SortedValues DEF t
<1>8. ASSUME NEW i \in 1..Len(t), NEW j \in 1..Len(t), i < j
      PROVE  key[t[i]] < key[t[j]]
  <2>1. /\ t[i] # t[j] /\ <<t[j], t[i]>> \notin before
        /\ t[i] \in S /\ t[j] \in S
    BY <1>7, <1>8 DEF Ordered, Once, ListOf
  <2> QED
    BY <1>2, <1>3, <2>1
<1>9. IsList(t) /\ \A i \in 1..Len(t) : key[t[i]] \in Int
  BY <1>2, <1>7 DEF ListOf
<1> QED
  BY <1>7, <1>8, <1>9 DEF Rising, t

(* Lists of the same that rise are the same. *)
LEMMA RisingSame ==
  ASSUME NEW s, NEW t, IsList(s), IsList(t), Elements(s) = Elements(t),
         NEW key, Rising(s, key), Rising(t, key)
  PROVE  s = t
<1> DEFINE S == Elements(s)
           before == ByKey(S, key)
<1>1. Len(s) \in Nat /\ Len(t) \in Nat
  BY DEF IsList
<1>2. ListOf(s, S) /\ ListOf(t, S)
  BY DEF ListOf, Elements
<1>3. \A x \in S : key[x] \in Int
  BY DEF Rising, Elements
<1>4. \A x, y \in S : key[x] = key[y] => x = y
  <2> SUFFICES ASSUME NEW i \in 1..Len(s), NEW j \in 1..Len(s), i < j
               PROVE  key[s[i]] # key[s[j]]
    BY <1>1 DEF Elements
  <2>1. key[s[i]] < key[s[j]] /\ key[s[i]] \in Int
    BY DEF Rising
  <2> QED
    BY <2>1
<1>5. \A x, y \in S : <<x, y>> \in before <=> key[x] < key[y]
  BY DEF ByKey
<1>6. StrictTotalOrder(S, before)
  BY <1>3, <1>4, KeysTotal
<1> HIDE DEF before, S
<1>7. \A i, j \in 1..Len(s) : i < j =>
         s[i] # s[j] /\ <<s[j], s[i]>> \notin before
  BY <1>2, <1>3, <1>5 DEF Rising, ListOf
<1>8. \A i, j \in 1..Len(t) : i < j =>
         t[i] # t[j] /\ <<t[j], t[i]>> \notin before
  BY <1>2, <1>3, <1>5 DEF Rising, ListOf
<1>9. /\ \A i, j \in 1..Len(s) : i = j \/ i < j \/ j < i
      /\ \A i, j \in 1..Len(t) : i = j \/ i < j \/ j < i
  BY <1>1
<1>10. Once(s) /\ Once(t)
  BY <1>7, <1>8, <1>9 DEF Once
<1>11. Ordered(s, before) /\ Ordered(t, before)
  BY <1>7, <1>8 DEF Ordered
<1>12. IsList(t)
  OBVIOUS
<1> QED
  BY <1>2, <1>6, <1>10, <1>11, <1>12, SameSetSameList

-----------------------------------------------------------------------------
(* Families of packages.  Names are numbered as they sort, and platforms   *)
(* are numbers.                                                            *)
TypedPublication(p) ==
    /\ IsMap(p)
    /\ {"package", "kind", "platform", "selections"} \subseteq DOMAIN p
    /\ IsList(p.selections)
    /\ \A i \in 1..Len(p.selections) :
          p.selections[i].platform \in Int \union {Absent}
    /\ p.package = [name |-> p.package.name, version |-> p.package.version]
    /\ p.package.name.order \in Int
TypedFamily(record) ==
    /\ IsMap(record)
    /\ DOMAIN record = {"registry", "source", "publications"}
    /\ IsList(record.publications)
    /\ \A i \in 1..Len(record.publications) :
          TypedPublication(record.publications[i])
    /\ \A i, j \in 1..Len(record.publications) :
          record.publications[i].package.name.order
             = record.publications[j].package.name.order
          => record.publications[i].package.name
                = record.publications[j].package.name

(* The numbers that selections and publications are sorted by. *)
PlatformKey(S) == [x \in S |-> x.platform]
NameKey(S) == [x \in S |-> x.package.name.order]

(* Publications in the normal form, and what they are of. *)
SettledPublication(p) ==
    TypedPublication(p)
    /\ Rising(p.selections, PlatformKey(Elements(p.selections)))
PublicationFrom(p, q) ==
    /\ p.package = q.package /\ p.kind = q.kind /\ p.platform = q.platform
    /\ IsList(p.selections) /\ IsList(q.selections)
    /\ Elements(p.selections) = Elements(q.selections)

(* The normal form of a valid publication is sorted, and of the same         *)
(* package.                                                                  *)
LEMMA PublicationSettled ==
  ASSUME NEW p, TypedPublication(p), NEW registry, NEW version,
         ValidPublication(registry, version, p)
  PROVE  LET q == NormalizedPublication(p)
         IN  SettledPublication(q) /\ PublicationFrom(q, p)
<1> DEFINE q == NormalizedPublication(p)
           s == p.selections
           less == Positions(s, LAMBDA a, b : a.platform < b.platform)
           t == SortedBy(s, LAMBDA a, b : a.platform < b.platform)
           key == PlatformKey(Elements(s))
<1>1. /\ IsList(s) /\ DOMAIN s = 1..Len(s) /\ Len(s) \in Nat
      /\ IsMap(p) /\ {"package", "kind", "platform", "selections"}
                        \subseteq DOMAIN p
  BY ListDomain DEF TypedPublication
<1>2. \A i \in 1..Len(s) : s[i].platform \in Int
  BY <1>1 DEF TypedPublication, ValidPublication, ValidRegistryPlatform
<1>3. \A i, j \in 1..Len(s) : s[i].platform = s[j].platform => i = j
  <2> SUFFICES ASSUME NEW i \in 1..Len(s), NEW j \in 1..Len(s), j < i
               PROVE  s[i].platform # s[j].platform
    BY <1>1
  <2>1. j \in 1..(i - 1)
    BY <1>1
  <2> QED
    BY <1>1, <2>1 DEF ValidPublication
<1>4. \A i \in 1..Len(s) : key[s[i]] = s[i].platform
  BY DEF PlatformKey, Elements
<1>5. \A i, j \in 1..Len(s) :
         <<i, j>> \in less <=> s[i].platform < s[j].platform
  BY DEF Positions
<1>6. t = Arranged(s, 1..Len(s), Stably(Len(s), less))
  BY DEF SortedBy
<1>7. q = [p EXCEPT !.selections = t]
  BY DEF NormalizedPublication
<1>8. key = PlatformKey(Elements(s))
  OBVIOUS
<1> HIDE DEF less, t, key, q
<1>9. /\ IsList(t) /\ Len(t) = Len(s) /\ Elements(t) = Elements(s)
      /\ Rising(t, key)
  <2> HIDE DEF s
  <2>1. /\ \A i \in 1..Len(s) : key[s[i]] \in Int
        /\ \A i, j \in 1..Len(s) : key[s[i]] = key[s[j]] => i = j
        /\ \A i, j \in 1..Len(s) :
              <<i, j>> \in less <=> key[s[i]] < key[s[j]]
    BY <1>2, <1>3, <1>4, <1>5
  <2> QED
    BY <1>1, <1>6, <2>1, SortedRises
<1>10. /\ IsMap(q) /\ DOMAIN q = DOMAIN p /\ q.selections = t
       /\ q.package = p.package /\ q.kind = p.kind
       /\ q.platform = p.platform
  BY <1>1, <1>7 DEF IsMap
<1>11. \A i \in 1..Len(t) : t[i].platform \in Int
  <2>1. \A x \in Elements(s) : x.platform \in Int
    BY <1>2 DEF Elements
  <2> QED
    BY <1>9, <2>1 DEF Elements
<1>12. TypedPublication(q)
  BY <1>1, <1>9, <1>10, <1>11 DEF TypedPublication
<1>13. SettledPublication(q)
  BY <1>8, <1>9, <1>10, <1>12 DEF SettledPublication
<1> QED
  BY <1>1, <1>9, <1>10, <1>13 DEF PublicationFrom, q

(* What a publication means, without the order of its selections. *)
PublicationMeaning(p) == [p EXCEPT !.selections = ToSet(@)]

(* Publications in the normal form that mean the same are the same. *)
LEMMA SettledPublicationsAgree ==
  ASSUME NEW p, NEW q, SettledPublication(p), SettledPublication(q),
         PublicationMeaning(p) = PublicationMeaning(q)
  PROVE  p = q
<1>1. /\ IsMap(p) /\ IsMap(q)
      /\ "selections" \in DOMAIN p /\ "selections" \in DOMAIN q
      /\ IsList(p.selections) /\ IsList(q.selections)
  BY DEF SettledPublication, TypedPublication
<1> DEFINE m == PublicationMeaning(p)
           n == PublicationMeaning(q)
<1>2. /\ DOMAIN m = DOMAIN p /\ DOMAIN n = DOMAIN q
      /\ m["selections"] = ToSet(p.selections)
      /\ n["selections"] = ToSet(q.selections)
      /\ \A x \in DOMAIN p \ {"selections"} : m[x] = p[x]
      /\ \A x \in DOMAIN q \ {"selections"} : n[x] = q[x]
  BY <1>1 DEF PublicationMeaning
<1>3. m = n
  OBVIOUS
<1> HIDE DEF m, n
<1>4. /\ DOMAIN p = DOMAIN q
      /\ ToSet(p.selections) = ToSet(q.selections)
      /\ \A x \in DOMAIN p \ {"selections"} : p[x] = q[x]
  BY <1>2, <1>3
<1>5. Elements(p.selections) = Elements(q.selections)
  BY <1>1, <1>4, ListDomain
<1>6. p.selections = q.selections
  BY <1>1, <1>5, RisingSame DEF SettledPublication
<1>7. \A x \in DOMAIN p : p[x] = q[x]
  BY <1>4, <1>6
<1> QED
  BY <1>1, <1>4, <1>7 DEF IsMap

(* Records in the normal form. *)
SettledFamily(r) ==
    /\ IsMap(r) /\ DOMAIN r = {"registry", "source", "publications"}
    /\ IsList(r.publications) /\ 1 \in 1..Len(r.publications)
    /\ \A i \in 1..Len(r.publications) :
          /\ SettledPublication(r.publications[i])
          /\ r.publications[i].package.version = r.source
    /\ Rising(r.publications, NameKey(Elements(r.publications)))
WrittenFrom(r, record) ==
    /\ ValidFamily(record)
    /\ \A i \in 1..Len(r.publications) :
          \E j \in 1..Len(record.publications) :
             PublicationFrom(r.publications[i], record.publications[j])

(* So is the normal form of a family that is accepted. *)
LEMMA FamilySettled ==
  ASSUME NEW record, TypedFamily(record), FamilyBytes(record) # Refused
  PROVE  /\ SettledFamily(FamilyBytes(record))
         /\ WrittenFrom(FamilyBytes(record), record)
<1> DEFINE r == Normalized(record)
           s == record.publications
           each == [i \in DOMAIN s |-> NormalizedPublication(s[i])]
           less == Positions(each, ByName)
           t == SortedBy(each, ByName)
           key == NameKey(Elements(each))
<1>1. FamilyBytes(record) = r /\ ValidFamily(record)
  BY DEF FamilyBytes
<1>2. /\ IsList(s) /\ DOMAIN s = 1..Len(s) /\ Len(s) \in Nat
      /\ IsMap(record)
      /\ DOMAIN record = {"registry", "source", "publications"}
  BY ListDomain DEF TypedFamily
<1>3. \A i \in 1..Len(s) :
         /\ TypedPublication(s[i])
         /\ ValidPublication(record.registry, record.source, s[i])
  BY <1>1, <1>2 DEF TypedFamily, ValidFamily
<1>4. \A i \in 1..Len(s) : s[i].package.version = record.source
  BY <1>3 DEF ValidPublication
<1>5. \A i, j \in 1..Len(s) : i # j =>
         s[i].package.name # s[j].package.name
  BY <1>1, <1>2, <1>4 DEF ValidFamily
<1>6. \A i, j \in 1..Len(s) :
         s[i].package.name.order = s[j].package.name.order => i = j
  BY <1>5 DEF TypedFamily
<1>7. Len(s) # 0
  BY <1>1, <1>2 DEF ValidFamily, IsList
<1>8. \A i \in 1..Len(s) :
         /\ each[i] = NormalizedPublication(s[i])
         /\ SettledPublication(each[i]) /\ PublicationFrom(each[i], s[i])
  BY <1>2, <1>3, PublicationSettled
<1>9. IsList(each) /\ Len(each) = Len(s)
  BY <1>2 DEF IsList
<1>10. r = [record EXCEPT !.publications = t]
  BY DEF Normalized
<1>11. t = Arranged(each, 1..Len(each), Stably(Len(each), less))
  BY DEF SortedBy
<1>12. \A i, j \in 1..Len(each) : <<i, j>> \in less <=>
          each[i].package.name.order < each[j].package.name.order
  BY DEF Positions, ByName
<1>13. \A i \in 1..Len(each) : key[each[i]] = each[i].package.name.order
  BY DEF NameKey, Elements
<1>14. key = NameKey(Elements(each))
  OBVIOUS
<1> HIDE DEF each, less, t, key, r
<1>15. \A i \in 1..Len(each) :
          /\ each[i].package = s[i].package
          /\ each[i].package.name.order \in Int
  <2> SUFFICES ASSUME NEW i \in 1..Len(each)
               PROVE  /\ each[i].package = s[i].package
                      /\ each[i].package.name.order \in Int
    OBVIOUS
  <2>1. SettledPublication(each[i]) /\ PublicationFrom(each[i], s[i])
    BY <1>8, <1>9
  <2>2. each[i].package = s[i].package
    BY <2>1 DEF PublicationFrom
  <2>3. TypedPublication(each[i])
    BY <2>1 DEF SettledPublication
  <2> QED
    BY <2>2, <2>3 DEF TypedPublication
<1>16. /\ IsList(t) /\ Len(t) = Len(each) /\ Elements(t) = Elements(each)
       /\ Rising(t, key)
  <2>1. /\ \A i \in 1..Len(each) : key[each[i]] \in Int
        /\ \A i, j \in 1..Len(each) : key[each[i]] = key[each[j]] => i = j
        /\ \A i, j \in 1..Len(each) :
              <<i, j>> \in less <=> key[each[i]] < key[each[j]]
    <3> HIDE DEF s
    <3>1. \A i \in 1..Len(each) : key[each[i]] \in Int
      BY <1>13, <1>15
    <3>2. \A i \in 1..Len(each) :
             key[each[i]] = s[i].package.name.order /\ i \in 1..Len(s)
      BY <1>9, <1>13, <1>15
    <3>3. \A i, j \in 1..Len(each) : key[each[i]] = key[each[j]] => i = j
      BY <1>6, <3>2
    <3>4. \A i, j \in 1..Len(each) :
             <<i, j>> \in less <=> key[each[i]] < key[each[j]]
      BY <1>12, <1>13
    <3> QED
      BY <3>1, <3>3, <3>4
  <2> QED
    BY <1>9, <1>11, <2>1, SortedRises
<1>17. /\ IsMap(r) /\ DOMAIN r = DOMAIN record
       /\ r.publications = t /\ r.source = record.source
  BY <1>2, <1>10 DEF IsMap
<1>18. \A i \in 1..Len(t) : \E j \in 1..Len(s) : t[i] = each[j]
  <2>1. \A i \in 1..Len(t) : t[i] \in Elements(each)
    BY <1>16 DEF Elements
  <2> QED
    BY <1>9, <2>1 DEF Elements
<1>19. ASSUME NEW i \in 1..Len(t)
       PROVE  /\ SettledPublication(t[i])
              /\ t[i].package.version = record.source
              /\ \E j \in 1..Len(s) : PublicationFrom(t[i], s[j])
  <2>1. PICK j \in 1..Len(s) : t[i] = each[j]
    BY <1>18
  <2> QED
    BY <1>4, <1>8, <1>9, <1>15, <2>1
<1>20. 1 \in 1..Len(t)
  <2>1. Len(t) \in Nat /\ Len(t) # 0
    BY <1>2, <1>7, <1>9, <1>16
  <2> QED
    BY <2>1
<1>21. SettledFamily(r)
  BY <1>2, <1>14, <1>16, <1>17, <1>19, <1>20 DEF SettledFamily
<1>22. WrittenFrom(r, record)
  BY <1>1, <1>17, <1>19 DEF WrittenFrom
<1> QED
  BY <1>1, <1>21, <1>22

(* Families in the normal form with the same parts are the same. *)
LEMMA SettledFamiliesAgree ==
  ASSUME NEW r, NEW s, SettledFamily(r), SettledFamily(s),
         r.registry = s.registry, Parts(r) = Parts(s)
  PROVE  r = s
<1> DEFINE p == r.publications
           q == s.publications
<1>1. /\ IsList(p) /\ IsList(q) /\ DOMAIN p = 1..Len(p)
      /\ DOMAIN q = 1..Len(q)
      /\ ToSet(p) = Elements(p) /\ ToSet(q) = Elements(q)
  BY ListDomain DEF SettledFamily
<1>2. /\ \A x \in Elements(p) : SettledPublication(x)
      /\ \A x \in Elements(q) : SettledPublication(x)
  BY DEF SettledFamily, Elements
<1>3. /\ Parts(r) = {PublicationMeaning(x) : x \in Elements(p)}
      /\ Parts(s) = {PublicationMeaning(x) : x \in Elements(q)}
  BY <1>1 DEF Parts, PublicationMeaning
<1> HIDE DEF p, q
<1>4. \A x \in Elements(p) : \E y \in Elements(q) :
         PublicationMeaning(x) = PublicationMeaning(y)
  <2> SUFFICES ASSUME NEW x \in Elements(p)
               PROVE  \E y \in Elements(q) :
                         PublicationMeaning(x) = PublicationMeaning(y)
    OBVIOUS
  <2>1. PublicationMeaning(x) \in Parts(s)
    BY <1>3
  <2>2. PublicationMeaning(x) \in {PublicationMeaning(y) : y \in Elements(q)}
    BY <1>3, <2>1, Zenon
  <2> QED
    BY <2>2
<1>5. \A y \in Elements(q) : \E x \in Elements(p) :
         PublicationMeaning(x) = PublicationMeaning(y)
  <2> SUFFICES ASSUME NEW y \in Elements(q)
               PROVE  \E x \in Elements(p) :
                         PublicationMeaning(x) = PublicationMeaning(y)
    OBVIOUS
  <2>1. PublicationMeaning(y) \in Parts(r)
    BY <1>3
  <2> QED
    BY <1>3, <2>1
<1>6. Elements(p) = Elements(q)
  BY <1>2, <1>4, <1>5, SettledPublicationsAgree
<1>7. p = q
  BY <1>1, <1>6, RisingSame DEF SettledFamily, p, q
<1>8. r.source = s.source
  BY <1>7 DEF SettledFamily, p, q
<1>9. \A x \in DOMAIN r : r[x] = s[x]
  BY <1>7, <1>8 DEF SettledFamily, p, q
<1> QED
  BY <1>9 DEF SettledFamily, IsMap

-----------------------------------------------------------------------------
(* Families as the code types them; and the publications of one package,   *)
(* at one version, are for one platform.                                   *)
TypedFamilies == \A record \in Families : TypedFamily(record)
OnePlatformEach ==
    \A r, s \in Families : ValidFamily(r) /\ ValidFamily(s) =>
        \A i \in OfKind(r, "platform") : \A j \in DOMAIN s.publications :
            r.publications[i].package = s.publications[j].package
               => r.publications[i].platform = s.publications[j].platform

(* What is known of records, and of what was uploaded from them. *)
PublicationOf(p) ==
    \E record \in Families :
        /\ ValidFamily(record)
        /\ \E j \in 1..Len(record.publications) :
              PublicationFrom(p, record.publications[j])
FamilyHeld ==
    /\ \A r \in records :
          /\ SettledFamily(r)
          /\ \E record \in Families : WrittenFrom(r, record)
    /\ \A p \in uploaded : PublicationOf(p)
InstalledHeld ==
    installed # Absent => installed.platform = installed.publication.platform

(* No builder, upload or install undoes it. *)
LEMMA FamilyStaysHeld ==
  ASSUME TypedFamilies, FamilyHeld, [FamilyNext]_familyVars
  PROVE  FamilyHeld'
<1>1. ASSUME NEW record \in Families, Adapt(record)
      PROVE  FamilyHeld'
  <2>1. /\ FamilyBytes(record) # Refused /\ uploaded' = uploaded
        /\ records' = records \union {FamilyBytes(record)}
    BY <1>1 DEF Adapt
  <2>2. /\ SettledFamily(FamilyBytes(record))
        /\ WrittenFrom(FamilyBytes(record), record)
    BY <2>1, FamilySettled DEF TypedFamilies
  <2> QED
    BY <2>1, <2>2 DEF FamilyHeld
<1>2. CASE Upload
  <2>1. PICK record \in records : \E i \in DOMAIN record.publications :
           uploaded' = uploaded \union {record.publications[i]}
    BY <1>2 DEF Upload
  <2>2. PICK i \in DOMAIN record.publications :
           uploaded' = uploaded \union {record.publications[i]}
    BY <2>1
  <2>3. SettledFamily(record) /\ DOMAIN record.publications
           = 1..Len(record.publications)
    BY ListDomain DEF FamilyHeld, SettledFamily
  <2>4. PICK family \in Families : WrittenFrom(record, family)
    BY DEF FamilyHeld
  <2>5. PublicationOf(record.publications[i])
    BY <2>2, <2>3, <2>4 DEF WrittenFrom, PublicationOf
  <2>6. records' = records
    BY <1>2 DEF Upload
  <2> QED
    BY <2>2, <2>5, <2>6 DEF FamilyHeld
<1>3. CASE UNCHANGED <<records, uploaded>>
  BY <1>3 DEF FamilyHeld
<1> QED
  BY <1>1, <1>2, <1>3 DEF FamilyNext, InstallFor, familyVars

(* What a meta package selects is of its own family. *)
LEMMA InstalledStaysHeld ==
  ASSUME TypedFamilies, OnePlatformEach, FamilyHeld, InstalledHeld,
         [FamilyNext]_familyVars
  PROVE  InstalledHeld'
<1>1. ASSUME NEW platform \in 1..2, InstallFor(platform)
      PROVE  InstalledHeld'
  <2>1. PICK meta \in uploaded, chosen \in uploaded :
           \E s \in ToSet(meta.selections) :
              /\ s.platform = platform
              /\ chosen.package = [name |-> s.package,
                                   version |-> meta.package.version]
              /\ installed' = [platform |-> platform,
                               publication |-> chosen]
    BY <1>1 DEF InstallFor
  <2>2. PICK s \in ToSet(meta.selections) :
           /\ s.platform = platform
           /\ chosen.package = [name |-> s.package,
                                version |-> meta.package.version]
           /\ installed' = [platform |-> platform, publication |-> chosen]
    BY <2>1
  <2>3. PICK r \in Families :
           /\ ValidFamily(r)
           /\ \E i \in 1..Len(r.publications) :
                 PublicationFrom(meta, r.publications[i])
    BY DEF FamilyHeld, PublicationOf
  <2>4. PICK i \in 1..Len(r.publications) :
           PublicationFrom(meta, r.publications[i])
    BY <2>3
  <2>5. PICK f \in Families :
           /\ ValidFamily(f)
           /\ \E j \in 1..Len(f.publications) :
                 PublicationFrom(chosen, f.publications[j])
    BY DEF FamilyHeld, PublicationOf
  <2>6. PICK j \in 1..Len(f.publications) :
           PublicationFrom(chosen, f.publications[j])
    BY <2>5
  <2> DEFINE p == r.publications[i]
             q == f.publications[j]
  <2>7. /\ IsList(r.publications) /\ IsList(f.publications)
        /\ DOMAIN r.publications = 1..Len(r.publications)
        /\ DOMAIN f.publications = 1..Len(f.publications)
    BY ListDomain DEF TypedFamilies, TypedFamily
  <2>8. s \in ToSet(p.selections)
    <3>1. s \in Elements(meta.selections)
      BY <2>4, ListDomain DEF PublicationFrom
    <3> QED
      BY <2>4, <3>1, ListDomain DEF PublicationFrom
  <2>9. p.kind = "meta"
    <3>1. p.selections # <<>>
      <4>1. IsList(p.selections) /\ Elements(p.selections) # {}
        BY <2>4, <2>8, ListDomain DEF PublicationFrom
      <4> QED
        BY <4>1 DEF Elements
    <3>2. ValidPublication(r.registry, r.source, p)
      BY <2>3, <2>7 DEF ValidFamily
    <3> QED
      BY <3>1, <3>2 DEF ValidPublication
  <2>10. SelectsFamily(r, p)
    BY <2>3, <2>7, <2>9 DEF ValidFamily, OfKind
  <2>11. PICK k \in OfKind(r, "platform") :
            <<s.platform, s.package>> =
               <<r.publications[k].platform, r.publications[k].package.name>>
    <3>1. <<s.platform, s.package>> \in
             {<<r.publications[k].platform, r.publications[k].package.name>> :
                 k \in OfKind(r, "platform")}
      <4>1. <<s.platform, s.package>> \in
               {<<x.platform, x.package>> : x \in ToSet(p.selections)}
        BY <2>8
      <4> QED
        BY <2>10, <4>1 DEF SelectsFamily
    <3> QED
      BY <3>1
  <2> DEFINE u == r.publications[k]
  <2>12. /\ u.platform = s.platform /\ u.package.name = s.package
         /\ k \in 1..Len(r.publications)
    BY <2>7, <2>11 DEF OfKind
  <2>13. /\ u.package.version = r.source /\ p.package.version = r.source
    BY <2>3, <2>7, <2>12 DEF ValidFamily, ValidPublication
  <2>14. u.package = [name |-> u.package.name,
                      version |-> u.package.version]
    BY <2>12 DEF TypedFamilies, TypedFamily, TypedPublication
  <2>15. q.package = u.package
    <3>1. q.package = chosen.package /\ meta.package = p.package
      BY <2>4, <2>6 DEF PublicationFrom
    <3> HIDE DEF u, p, q
    <3> QED
      BY <2>2, <2>12, <2>13, <2>14, <3>1
  <2>16. u.platform = q.platform
    BY <2>3, <2>5, <2>7, <2>11, <2>15 DEF OnePlatformEach
  <2>17. chosen.platform = platform
    BY <2>2, <2>6, <2>12, <2>16 DEF PublicationFrom
  <2> QED
    BY <2>2, <2>17 DEF InstalledHeld
<1>2. CASE installed' = installed
  BY <1>2 DEF InstalledHeld
<1> QED
  BY <1>1, <1>2 DEF FamilyNext, Adapt, Upload, familyVars

(* Builders of one family for one registry write the same bytes, in        *)
(* whatever order they have the publications and the selections            *)
(* (NativeRegistryAdapterRecord::normalized).                              *)
THEOREM FamiliesHaveOneRecord ==
  ASSUME TypedFamilies
  PROVE  FamilySpec => []FamilyHasOneRecord
<1>1. FamilyInit => FamilyHeld
  BY DEF FamilyInit, FamilyHeld
<1>2. FamilyHeld /\ [FamilyNext]_familyVars => FamilyHeld'
  BY FamilyStaysHeld
<1>3. FamilyHeld => FamilyHasOneRecord
  BY SettledFamiliesAgree DEF FamilyHeld, FamilyHasOneRecord
<1> QED
  BY <1>1, <1>2, <1>3, PTL DEF FamilySpec

(* Every platform of a family gets the package that was built for it, when *)
(* no two families publish one version of a package for two platforms      *)
(* (NativeRegistryAdapterRecord::validate).                                *)
THEOREM PlatformsGetTheirPackage ==
  ASSUME TypedFamilies, OnePlatformEach
  PROVE  FamilySpec => []InstalledFitsPlatform
<1>1. FamilyInit => FamilyHeld /\ InstalledHeld
  BY DEF FamilyInit, FamilyHeld, InstalledHeld
<1>2. FamilyHeld /\ [FamilyNext]_familyVars => FamilyHeld'
  BY FamilyStaysHeld
<1>3. FamilyHeld /\ InstalledHeld /\ [FamilyNext]_familyVars
         => InstalledHeld'
  BY InstalledStaysHeld
<1>4. InstalledHeld => InstalledFitsPlatform
  BY DEF InstalledHeld, InstalledFitsPlatform
<1> QED
  BY <1>1, <1>2, <1>3, <1>4, PTL DEF FamilySpec

-----------------------------------------------------------------------------
(* References and their texts.  What stands for a name is not a separator, *)
(* and what is absent is no digest.                                        *)
Pieces == {"/", ":", "@"} \union Hosts \union Ports \union Components
             \union Tags \union Digests
PiecesApart ==
    /\ {"/", ":", "@"} \intersect
          (Hosts \union Ports \union Components \union Tags \union Digests)
             = {}
    /\ Absent \notin Digests
TypedReference(r) ==
    /\ r = [registry |-> r.registry, repository |-> r.repository,
            tag |-> r.tag, digest |-> r.digest]
    /\ IsList(r.registry) /\ IsList(r.repository)
    /\ r.tag # Absent => IsList(r.tag)

(* A text u of pieces in U has x at k, with s before and t after it. *)
SplitsAt(U, u, k, s, x, t) ==
    /\ u \in Seq(U) /\ Len(u) = k + Len(t)
    /\ k \in 1..Len(u) /\ k \in Nat /\ u[k] = x
    /\ \A i \in 1..(k - 1) : u[i] = s[i]
    /\ \A i \in (k + 1)..Len(u) : i - k \in 1..Len(t) /\ u[i] = t[i - k]
    /\ Upto(u, k) = s /\ After(u, k) = t

(* A text is split at a piece into what was put around it. *)
LEMMA SplitAt ==
  ASSUME NEW U, NEW s \in Seq(U), NEW t \in Seq(U), NEW x \in U
  PROVE  SplitsAt(U, (s \o <<x>>) \o t, Len(s) + 1, s, x, t)
<1> DEFINE v == s \o <<x>>
           u == v \o t
           k == Len(s) + 1
<1>1. Len(s) \in Nat /\ Len(t) \in Nat
  OBVIOUS
<1>2. <<x>> \in Seq(U) /\ Len(<<x>>) = 1 /\ <<x>>[1] = x
  OBVIOUS
<1>3. /\ v \in Seq(U) /\ Len(v) = k /\ v[k] = x
      /\ \A i \in 1..(k - 1) : v[i] = s[i]
  BY <1>1, <1>2, ConcatProperties
<1> HIDE DEF v
<1>4. k \in Nat /\ 1 <= k
  BY <1>1
<1>5. /\ u \in Seq(U) /\ Len(u) = k + Len(t)
      /\ \A i \in 1..(k + Len(t)) : u[i] = IF i <= k THEN v[i] ELSE t[i - k]
  <2>1. t \in Seq(U) /\ u = v \o t
    OBVIOUS
  <2> HIDE DEF u, k
  <2>2. /\ u \in Seq(U) /\ Len(u) = Len(v) + Len(t)
        /\ \A i \in 1..(Len(v) + Len(t)) :
              u[i] = IF i <= Len(v) THEN v[i] ELSE t[i - Len(v)]
    BY <1>3, <2>1, ConcatProperties
  <2> QED
    BY <1>3, <2>2
<1> HIDE DEF u
<1>6. Len(s) = k - 1
  BY <1>1
<1> HIDE DEF k
<1>7. k \in 1..Len(u) /\ u[k] = x
  BY <1>1, <1>3, <1>4, <1>5
<1>8. \A i \in 1..(k - 1) : u[i] = s[i]
  BY <1>1, <1>3, <1>4, <1>5
<1>9. \A i \in (k + 1)..Len(u) : i - k \in 1..Len(t) /\ u[i] = t[i - k]
  BY <1>1, <1>4, <1>5
<1>10. Upto(u, k) = s
  <2>1. \A i \in 1..(k - 1) : u[i] \in U
    BY <1>6, <1>8
  <2>2. /\ SubSeq(u, 1, k - 1) \in Seq(U)
        /\ Len(SubSeq(u, 1, k - 1)) =
              IF 1 <= k - 1 THEN k - 1 - 1 + 1 ELSE 0
        /\ \A i \in 1..(k - 1 - 1 + 1) :
              SubSeq(u, 1, k - 1)[i] = u[1 + i - 1]
    <3>1. 1 \in Int /\ k - 1 \in Int
      BY <1>4
    <3> QED
      BY <2>1, <3>1, SubSeqProperties
  <2>3. Len(SubSeq(u, 1, k - 1)) = Len(s)
    BY <2>2, <1>4, <1>6
  <2>4. \A i \in 1..Len(s) : SubSeq(u, 1, k - 1)[i] = s[i]
    <3> SUFFICES ASSUME NEW i \in 1..Len(s)
                 PROVE  SubSeq(u, 1, k - 1)[i] = s[i]
      OBVIOUS
    <3>1. i \in 1..(k - 1) /\ i \in 1..(k - 1 - 1 + 1) /\ 1 + i - 1 = i
      BY <1>4, <1>6
    <3> QED
      BY <1>8, <2>2, <3>1
  <2>5. SubSeq(u, 1, k - 1) = s
    BY <2>2, <2>3, <2>4, SeqEqual
  <2> QED
    BY <2>5 DEF Upto
<1>11. After(u, k) = t
  <2> DEFINE w == SubSeq(u, k + 1, Len(u))
  <2>1. \A i \in (k + 1)..Len(u) : u[i] \in U
    BY <1>9
  <2>2. /\ w \in Seq(U)
        /\ Len(w) = IF k + 1 <= Len(u) THEN Len(u) - (k + 1) + 1 ELSE 0
        /\ \A i \in 1..(Len(u) - (k + 1) + 1) : w[i] = u[k + 1 + i - 1]
    <3>1. k + 1 \in Int /\ Len(u) \in Int
      BY <1>1, <1>4, <1>5
    <3> QED
      BY <2>1, <3>1, SubSeqProperties
  <2> HIDE DEF w
  <2>3. Len(w) = Len(t)
    BY <2>2, <1>1, <1>4, <1>5
  <2>4. \A i \in 1..Len(w) : w[i] = t[i]
    <3> SUFFICES ASSUME NEW i \in 1..Len(w)
                 PROVE  w[i] = t[i]
      OBVIOUS
    <3>1. Len(u) = k + Len(t) /\ i \in 1..Len(t) /\ Len(t) \in Nat
      BY <1>1, <1>5, <2>3
    <3>2. Len(u) - (k + 1) + 1 = Len(t) /\ k + 1 + i - 1 = k + i
      BY <1>4, <3>1
    <3>3. k + i \in (k + 1)..Len(u) /\ (k + i) - k = i
      BY <1>4, <3>1
    <3> QED
      BY <1>9, <2>2, <3>1, <3>2, <3>3
  <2>5. w = t
    BY <2>2, <2>3, <2>4, SeqEqual
  <2> QED
    BY <2>5 DEF After, w
<1>12. SplitsAt(U, u, k, s, x, t)
  BY <1>4, <1>5, <1>7, <1>8, <1>9, <1>10, <1>11 DEF SplitsAt
<1> QED
  BY <1>12 DEF u, v, k

(* Where the piece is, when it is not in what comes before it. *)
LEMMA FirstPlace ==
  ASSUME NEW U, NEW s \in Seq(U), NEW t \in Seq(U), NEW x \in U,
         \A i \in 1..Len(s) : s[i] # x
  PROVE  LET u == (s \o <<x>>) \o t
         IN  /\ Least(PlacesOf(u, x)) = Len(s) + 1
             /\ PlacesOf(u, x) # {}
<1> DEFINE u == (s \o <<x>>) \o t
           k == Len(s) + 1
           B == PlacesOf(u, x)
<1>1. /\ u \in Seq(U) /\ Len(u) = k + Len(t)
      /\ k \in 1..Len(u) /\ k \in Nat /\ u[k] = x
      /\ \A i \in 1..(k - 1) : u[i] = s[i]
  <2>1. SplitsAt(U, u, k, s, x, t)
    BY SplitAt
  <2> HIDE DEF u, k
  <2> QED
    BY <2>1 DEF SplitsAt
<1>2. k - 1 = Len(s) /\ Len(u) \in Nat
  BY <1>1
<1> HIDE DEF u, k
<1>3. DOMAIN u = 1..Len(u)
  BY <1>1
<1>4. k \in B
  BY <1>1, <1>3 DEF PlacesOf
<1>5. \A j \in B : k <= j /\ j \in Nat
  <2> SUFFICES ASSUME NEW j \in 1..Len(u), u[j] = x
               PROVE  k <= j /\ j \in Nat
    BY <1>3 DEF PlacesOf
  <2>1. CASE j \in 1..(k - 1)
    <3>1. u[j] = s[j] /\ j \in 1..Len(s)
      BY <1>1, <1>2, <2>1
    <3> QED
      BY <3>1
  <2>2. CASE ~(j \in 1..(k - 1))
    BY <1>1, <1>2, <2>2
  <2> QED
    BY <2>1, <2>2
<1> HIDE DEF B
<1>6. Least(B) = k
  <2>1. \E i \in B : \A j \in B : i <= j
    BY <1>4, <1>5
  <2>2. Least(B) \in B /\ \A j \in B : Least(B) <= j
    BY <2>1 DEF Least
  <2> DEFINE m == Least(B)
  <2>3. m \in Nat /\ k <= m /\ m <= k
    BY <1>4, <1>5, <2>2
  <2> HIDE DEF m
  <2>4. m = k
    BY <1>1, <2>3
  <2> QED
    BY <2>4 DEF m
<1> QED
  BY <1>4, <1>6 DEF u, k, B

(* Where it is, when it is in nothing else. *)
LEMMA OnlyPlace ==
  ASSUME NEW U, NEW s \in Seq(U), NEW t \in Seq(U), NEW x \in U,
         \A i \in 1..Len(s) : s[i] # x, \A i \in 1..Len(t) : t[i] # x
  PROVE  LET u == (s \o <<x>>) \o t
         IN  /\ PlacesOf(u, x) = {Len(s) + 1}
             /\ Greatest(PlacesOf(u, x)) = Len(s) + 1
<1> DEFINE u == (s \o <<x>>) \o t
           k == Len(s) + 1
<1>1. /\ u \in Seq(U) /\ Len(u) = k + Len(t)
      /\ k \in 1..Len(u) /\ k \in Nat /\ u[k] = x
      /\ \A i \in 1..(k - 1) : u[i] = s[i]
      /\ \A i \in (k + 1)..Len(u) : i - k \in 1..Len(t) /\ u[i] = t[i - k]
  <2>1. SplitsAt(U, u, k, s, x, t)
    BY SplitAt
  <2> HIDE DEF u, k
  <2> QED
    BY <2>1 DEF SplitsAt
<1>2. k - 1 = Len(s) /\ Len(u) \in Nat
  BY <1>1
<1> HIDE DEF u, k
<1>3. DOMAIN u = 1..Len(u)
  BY <1>1
<1>4. \A i \in 1..Len(u) : u[i] = x => i = k
  <2> SUFFICES ASSUME NEW i \in 1..Len(u), i # k
               PROVE  u[i] # x
    OBVIOUS
  <2>1. i \in 1..(k - 1) \/ i \in (k + 1)..Len(u)
    BY <1>1
  <2>2. CASE i \in 1..(k - 1)
    BY <1>1, <1>2, <2>2
  <2>3. CASE i \in (k + 1)..Len(u)
    BY <1>1, <2>3
  <2> QED
    BY <2>1, <2>2, <2>3
<1>5. PlacesOf(u, x) = {k}
  BY <1>1, <1>3, <1>4 DEF PlacesOf
<1>6. Greatest({k}) = k
  <2>1. \E i \in {k} : \A j \in {k} : i >= j
    BY <1>1
  <2> QED
    BY <2>1 DEF Greatest
<1> QED
  BY <1>5, <1>6 DEF u, k

(* A text that ends with the piece and one more. *)
Without(s, x) == \A i \in 1..Len(s) : s[i] # x
EndsWith(s, x, y) ==
    LET u == (s \o <<x>>) \o <<y>>
        k == Len(s) + 1
    IN  /\ s \o <<x, y>> = u /\ s \o (<<x>> \o <<y>>) = u
        /\ PlacesOf(u, x) = {k} /\ Greatest(PlacesOf(u, x)) = k
        /\ Upto(u, k) = s /\ After(u, k) = <<y>>
(* One piece and another are the two of them. *)
LEMMA TwoTogether ==
  ASSUME NEW U, NEW v \in Seq(U), NEW t \in Seq(U), NEW w \in Seq(U),
         Len(v) = 1, Len(t) = 1, Len(w) = 2, w[1] = v[1], w[2] = t[1]
  PROVE  v \o t = w
<1>1. /\ v \o t \in Seq(U) /\ Len(v \o t) = Len(v) + Len(t)
      /\ \A i \in 1..(Len(v) + Len(t)) :
            (v \o t)[i] = IF i <= Len(v) THEN v[i] ELSE t[i - Len(v)]
  BY ConcatProperties
<1>2. (v \o t)[1] = v[1] /\ (v \o t)[2] = t[1]
  BY <1>1
<1>3. Len(v \o t) = 2 /\ \A i \in 1..2 : i = 1 \/ i = 2
  BY <1>1
<1> QED
  BY <1>1, <1>2, <1>3, SeqEqual

(* Where the piece is in a text that ends with it and one more. *)
LEMMA LastPlace ==
  ASSUME NEW U, NEW s \in Seq(U), NEW x \in U, NEW y \in U, x # y,
         Without(s, x)
  PROVE  EndsWith(s, x, y)
<1>1. /\ <<y>> \in Seq(U) /\ Len(<<y>>) = 1 /\ <<y>>[1] = y
      /\ <<x>> \in Seq(U) /\ Len(<<x>>) = 1 /\ <<x>>[1] = x
      /\ <<x, y>> \in Seq(U) /\ Len(<<x, y>>) = 2
      /\ <<x, y>>[1] = x /\ <<x, y>>[2] = y
  OBVIOUS
<1>2. \A v, t, w \in Seq(U) :
         /\ Len(v) = 1 /\ Len(t) = 1 /\ Len(w) = 2
         /\ w[1] = v[1] /\ w[2] = t[1]
         => v \o t = w
  BY TwoTogether
<1>3. \A v, t \in Seq(U) : (s \o v) \o t = s \o (v \o t)
  BY ConcatAssociative
<1>4. <<x>> \o <<y>> = <<x, y>>
  BY <1>1, <1>2, Zenon
<1>5. (s \o <<x>>) \o <<y>> = s \o (<<x>> \o <<y>>)
  BY <1>1, <1>3, Zenon
<1> DEFINE t == <<y>>
<1>6. t \in Seq(U) /\ \A i \in 1..Len(t) : t[i] # x
  OBVIOUS
<1> HIDE DEF t
<1>7. /\ PlacesOf((s \o <<x>>) \o t, x) = {Len(s) + 1}
      /\ Greatest(PlacesOf((s \o <<x>>) \o t, x)) = Len(s) + 1
  BY <1>6, OnlyPlace DEF Without
<1>8. /\ Upto((s \o <<x>>) \o t, Len(s) + 1) = s
      /\ After((s \o <<x>>) \o t, Len(s) + 1) = t
  BY <1>6, SplitAt DEF SplitsAt
<1> QED
  BY <1>4, <1>5, <1>7, <1>8 DEF t, EndsWith

(* Two pieces one after the other. *)
LEMMA TwoPieces ==
  ASSUME NEW U, NEW x \in U, NEW y \in U, NEW z, x # z, y # z
  PROVE  /\ <<x>> \o <<y>> \in Seq(U)
         /\ \A i \in 1..Len(<<x>> \o <<y>>) : (<<x>> \o <<y>>)[i] # z
OBVIOUS

(* The pieces of a valid reference, and what is not among them. *)
LEMMA ReferencePieces ==
  ASSUME PiecesApart, NEW r, TypedReference(r), ValidReference(r),
         r.digest # Absent
  PROVE  /\ r.registry \in Seq(Pieces) /\ r.repository \in Seq(Pieces)
         /\ r.digest \in Digests
         /\ \A i \in 1..Len(r.registry) :
               r.registry[i] # "/" /\ r.registry[i] # "@"
         /\ \A i \in 1..Len(r.repository) :
               r.repository[i] # ":" /\ r.repository[i] # "@"
         /\ r.tag # Absent =>
               /\ r.tag = <<r.tag[1]>> /\ r.tag[1] \in Tags
<1>1. /\ IsList(r.registry) /\ IsList(r.repository)
      /\ r.tag # Absent => IsList(r.tag)
      /\ DOMAIN r.repository = 1..Len(r.repository)
  BY ListDomain DEF TypedReference
<1>2. /\ ValidRegistry(r.registry) /\ ValidRepository(r.repository)
      /\ r.tag # Absent => Len(r.tag) = 1 /\ r.tag[1] \in Tags
      /\ r.digest \in Digests
  BY DEF ValidReference
<1>3. \A i \in 1..Len(r.registry) : r.registry[i] \in Hosts \union Ports
         \/ r.registry[i] = ":"
  <2> DEFINE a == r.registry
  <2>1. CASE Len(a) = 1 /\ a[1] \in Hosts
    <3>1. \A i \in 1..Len(a) : i = 1
      BY <2>1
    <3> QED
      BY <2>1, <3>1
  <2>2. CASE Len(a) = 3 /\ a[1] \in Hosts /\ a[2] = ":" /\ a[3] \in Ports
    <3>1. \A i \in 1..Len(a) : i = 1 \/ i = 2 \/ i = 3
      BY <2>2
    <3> QED
      BY <2>2, <3>1
  <2> QED
    BY <1>2, <2>1, <2>2 DEF ValidRegistry
<1>4. \A i \in 1..Len(r.repository) :
         r.repository[i] \in Components \/ r.repository[i] = "/"
  BY <1>1, <1>2 DEF ValidRepository
<1>5. "/" # ":" /\ "/" # "@" /\ ":" # "@"
  OBVIOUS
<1>6. \A x \in Hosts \union Ports \union Components :
         x # "/" /\ x # ":" /\ x # "@"
  BY DEF PiecesApart
<1>7. /\ \A i \in 1..Len(r.registry) : r.registry[i] \in Pieces
      /\ \A i \in 1..Len(r.repository) : r.repository[i] \in Pieces
  BY <1>3, <1>4 DEF Pieces
<1>8. \A s : IsList(s) /\ (\A i \in 1..Len(s) : s[i] \in Pieces)
                => s \in Seq(Pieces)
  <2> HIDE DEF Pieces
  <2> SUFFICES ASSUME NEW s, IsList(s),
                      \A i \in 1..Len(s) : s[i] \in Pieces
               PROVE  s \in Seq(Pieces)
    OBVIOUS
  <2>1. Len(s) \in Nat /\ s = [i \in 1..Len(s) |-> s[i]]
    BY DEF IsList
  <2>2. s \in [1..Len(s) -> Pieces]
    BY <2>1
  <2> QED
    BY <2>1, <2>2, SeqDef
<1>9. r.registry \in Seq(Pieces) /\ r.repository \in Seq(Pieces)
  BY <1>1, <1>7, <1>8
<1>10. r.tag # Absent => r.tag = <<r.tag[1]>>
  <2> SUFFICES ASSUME r.tag # Absent
               PROVE  r.tag = <<r.tag[1]>>
    OBVIOUS
  <2>1. r.tag = [j \in 1..1 |-> r.tag[j]]
    BY <1>1, <1>2 DEF IsList
  <2> QED
    BY <2>1
<1>11. \A i \in 1..Len(r.registry) :
          r.registry[i] # "/" /\ r.registry[i] # "@"
  BY <1>3, <1>5, <1>6
<1>12. \A i \in 1..Len(r.repository) :
          r.repository[i] # ":" /\ r.repository[i] # "@"
  BY <1>4, <1>5, <1>6
<1> QED
  BY <1>2, <1>9, <1>10, <1>11, <1>12

(* The name of a reference, without the digest. *)
NameText(r) ==
    r.registry \o <<"/">> \o r.repository
    \o (IF r.tag = Absent THEN <<>> ELSE <<":">> \o r.tag)

(* It has no "@", and is split into what it was put together of. *)
LEMMA NameIsRead ==
  ASSUME PiecesApart, NEW r, TypedReference(r), ValidReference(r),
         r.digest # Absent
  PROVE  /\ NameText(r) \in Seq(Pieces)
         /\ \A i \in 1..Len(NameText(r)) : NameText(r)[i] # "@"
         /\ ParseName(NameText(r), r.digest) = r
<1> DEFINE s == r.registry
           p == r.repository
           q == IF r.tag = Absent THEN <<>> ELSE <<":">> \o r.tag
           rest == p \o q
           name == NameText(r)
           U == Pieces
<1>1. /\ s \in Seq(U) /\ p \in Seq(U)
      /\ \A i \in 1..Len(s) : s[i] # "/" /\ s[i] # "@"
      /\ \A i \in 1..Len(p) : p[i] # ":" /\ p[i] # "@"
      /\ r.tag # Absent => r.tag = <<r.tag[1]>> /\ r.tag[1] \in Tags
  BY ReferencePieces
<1>2. /\ "/" \in U /\ ":" \in U /\ Tags \subseteq U
      /\ "/" # ":" /\ "/" # "@" /\ ":" # "@"
      /\ \A x \in Tags : x # "/" /\ x # ":" /\ x # "@"
  BY DEF Pieces, PiecesApart
<1> HIDE DEF U
<1>3. /\ q \in Seq(U)
      /\ \A i \in 1..Len(q) : q[i] # "@"
  <2>1. CASE r.tag = Absent
    BY <2>1
  <2>2. CASE r.tag # Absent
    <3> DEFINE x == r.tag[1]
    <3>1. q = <<":">> \o <<x>> /\ x \in U /\ x # "@"
      BY <1>1, <1>2, <2>2
    <3> HIDE DEF x, q
    <3> QED
      BY <1>2, <3>1, TwoPieces
  <2> QED
    BY <2>1, <2>2
<1>4. name = (s \o <<"/">>) \o rest
  <2>1. name = ((s \o <<"/">>) \o p) \o q
    BY DEF NameText
  <2>2. s \o <<"/">> \in Seq(U)
    BY <1>1, <1>2
  <2> HIDE DEF s, p, q, name
  <2> QED
    BY <1>1, <1>3, <2>1, <2>2, ConcatAssociative
<1>5. /\ rest \in Seq(U) /\ \A i \in 1..Len(rest) : rest[i] # "@"
  <2> HIDE DEF s, p, q, name
  <2>1. /\ rest \in Seq(U) /\ Len(rest) = Len(p) + Len(q)
        /\ \A i \in 1..(Len(p) + Len(q)) :
              rest[i] = IF i <= Len(p) THEN p[i] ELSE q[i - Len(p)]
    BY <1>1, <1>3, ConcatProperties
  <2>2. Len(p) \in Nat /\ Len(q) \in Nat
    BY <1>1, <1>3
  <2>3. \A i \in 1..(Len(p) + Len(q)) : i <= Len(p) => i \in 1..Len(p)
    BY <2>2
  <2>4. \A i \in 1..(Len(p) + Len(q)) :
           ~(i <= Len(p)) => i - Len(p) \in 1..Len(q)
    BY <2>2
  <2> HIDE DEF rest
  <2> QED
    BY <1>1, <1>3, <2>1, <2>3, <2>4
<1>6. /\ name \in Seq(U) /\ \A i \in 1..Len(name) : name[i] # "@"
      /\ Least(PlacesOf(name, "/")) = Len(s) + 1
      /\ PlacesOf(name, "/") # {}
      /\ Upto(name, Len(s) + 1) = s
      /\ After(name, Len(s) + 1) = rest
  <2> DEFINE k == Len(s) + 1
  <2> HIDE DEF s, rest, name
  <2>1. /\ name \in Seq(U) /\ Len(name) = k + Len(rest)
        /\ k \in 1..Len(name) /\ k \in Nat /\ name[k] = "/"
        /\ \A i \in 1..(k - 1) : name[i] = s[i]
        /\ \A i \in (k + 1)..Len(name) :
              i - k \in 1..Len(rest) /\ name[i] = rest[i - k]
        /\ Upto(name, k) = s /\ After(name, k) = rest
    <3>1. SplitsAt(U, (s \o <<"/">>) \o rest, Len(s) + 1, s, "/", rest)
      BY <1>1, <1>2, <1>5, SplitAt
    <3>2. SplitsAt(U, name, k, s, "/", rest)
      BY <1>4, <3>1 DEF k
    <3> HIDE DEF k
    <3> QED
      BY <3>2 DEF SplitsAt
  <2>2. /\ Least(PlacesOf(name, "/")) = k
        /\ PlacesOf(name, "/") # {}
    BY <1>1, <1>2, <1>4, <1>5, FirstPlace
  <2>3. k - 1 = Len(s) /\ Len(s) \in Nat
    BY <1>1
  <2> HIDE DEF k
  <2>4. ASSUME NEW i \in 1..Len(name)
        PROVE  name[i] # "@"
    <3>1. i \in 1..(k - 1) \/ i = k \/ i \in (k + 1)..Len(name)
      BY <2>1
    <3>2. CASE i \in 1..(k - 1)
      BY <1>1, <2>1, <2>3, <3>2
    <3>3. CASE i = k
      BY <1>2, <2>1, <3>3
    <3>4. CASE i \in (k + 1)..Len(name)
      BY <1>5, <2>1, <3>4
    <3> QED
      BY <3>1, <3>2, <3>3, <3>4
  <2> QED
    BY <2>1, <2>2, <2>4 DEF k
<1> DEFINE colons == PlacesOf(rest, ":")
<1>7. CASE r.tag = Absent
  <2>1. rest = p
    <3>1. rest = p \o <<>>
      BY <1>7
    <3> HIDE DEF p
    <3> QED
      BY <1>1, <3>1
  <2>2. colons = {}
    <3> HIDE DEF p, rest
    <3>1. DOMAIN rest = 1..Len(rest) /\ \A i \in 1..Len(rest) : rest[i] # ":"
      BY <1>1, <2>1
    <3> QED
      BY <3>1 DEF PlacesOf
  <2>3. r = [registry |-> s, repository |-> rest, tag |-> Absent,
             digest |-> r.digest]
    BY <1>7, <2>1 DEF TypedReference
  <2> HIDE DEF s, p, rest, name, colons
  <2>4. ParseName(name, r.digest) = r
    BY <1>6, <2>2, <2>3 DEF ParseName, colons
  <2> QED
    BY <1>6, <2>4 DEF name, U
<1>8. CASE r.tag # Absent
  <2> DEFINE x == r.tag[1]
  <2>1. q = <<":">> \o <<x>> /\ r.tag = <<x>> /\ x \in U /\ x # ":"
    BY <1>1, <1>2, <1>8
  <2> HIDE DEF x
  <2>4. r = [registry |-> s, repository |-> p, tag |-> <<x>>,
             digest |-> r.digest]
    BY <2>1 DEF TypedReference
  <2> HIDE DEF s, p, q, rest, name
  <2>5. /\ PlacesOf(rest, ":") = {Len(p) + 1}
        /\ Greatest(PlacesOf(rest, ":")) = Len(p) + 1
        /\ Upto(rest, Len(p) + 1) = p /\ After(rest, Len(p) + 1) = <<x>>
    <3>1. rest = p \o (<<":">> \o <<x>>)
      BY <2>1 DEF rest
    <3>2. Without(p, ":")
      BY <1>1 DEF Without
    <3>3. EndsWith(p, ":", x)
      BY <1>1, <1>2, <2>1, <3>2, LastPlace
    <3> QED
      BY <3>1, <3>3 DEF EndsWith
  <2>7. colons # {} /\ Greatest(colons) = Len(p) + 1
    BY <2>5
  <2> HIDE DEF colons
  <2>8. ParseName(name, r.digest) = r
    BY <1>6, <2>4, <2>5, <2>7 DEF ParseName, colons
  <2> QED
    BY <1>6, <2>8 DEF name, U
<1> QED
  BY <1>7, <1>8

(* What is written of a reference is read as that reference (oci.rs,       *)
(* OciReference::parse and its Display).                                   *)
LEMMA ReferenceIsRead ==
  ASSUME PiecesApart, NEW r, TypedReference(r), ValidReference(r),
         r.digest # Absent
  PROVE  Parse(Display(r)) = r
<1> DEFINE name == NameText(r)
           text == Display(r)
           d == r.digest
           ats == PlacesOf(text, "@")
<1>1. /\ name \in Seq(Pieces)
      /\ \A i \in 1..Len(name) : name[i] # "@"
      /\ ParseName(name, d) = r
  BY NameIsRead
<1>2. d \in Digests /\ d \in Pieces /\ "@" \in Pieces /\ d # "@"
  BY ReferencePieces DEF Pieces, PiecesApart
<1>3. text = name \o <<"@", d>>
  BY DEF Display, NameText
<1> HIDE DEF text, name, d
<1>4. Without(name, "@")
  BY <1>1 DEF Without
<1>5. <<d>>[1] = d /\ Len(<<d>>) = 1
  OBVIOUS
<1>6. EndsWith(name, "@", d)
  BY <1>1, <1>2, <1>4, LastPlace
<1>7. /\ ats = {Len(name) + 1} /\ Greatest(ats) = Len(name) + 1
      /\ Upto(text, Len(name) + 1) = name
      /\ After(text, Len(name) + 1) = <<d>>
  BY <1>3, <1>6 DEF EndsWith
<1>8. Cardinality(ats) = 1 /\ ats # {}
  BY <1>7, FS_Singleton
<1> HIDE DEF ats
<1> QED
  BY <1>1, <1>2, <1>5, <1>7, <1>8 DEF Parse, ats, text, d

-----------------------------------------------------------------------------
(* Records as the code types them.  Layout numbers every digest.           *)
LayoutNumbers ==
    /\ Len(Layout) \in Nat /\ DOMAIN Layout = 1..Len(Layout)
    /\ Digests \subseteq {Layout[n] : n \in DOMAIN Layout}
TypedLayer(layer) ==
    /\ \E k \in DOMAIN Kinds : Kinds[k] = layer.kind
    /\ layer.platform # Absent => layer.platform.order \in Int
TypedRecord(record) ==
    /\ IsMap(record)
    /\ {"reference", "manifest", "layers"} \subseteq DOMAIN record
    /\ TypedReference(record.reference)
    /\ record.reference # Refused
    /\ IsList(record.layers)
    /\ \A i \in 1..Len(record.layers) : TypedLayer(record.layers[i])

(* Layers that can be told apart by their digests, and their order. *)
KnownLayers(S) ==
    /\ \A x \in S : TypedLayer(x) /\ x.descriptor.digest \in Digests
    /\ \A x, y \in S : x.descriptor.digest = y.descriptor.digest => x = y
EarlierLayers(S) == {pair \in S \X S : LayerBefore(pair[1], pair[2])}

(* Layers are in one order. *)
LEMMA LayersTotal ==
  ASSUME LayoutNumbers, NEW S, KnownLayers(S)
  PROVE  StrictTotalOrder(S, EarlierLayers(S))
<1> DEFINE a == [x \in S |-> LayerKey(x)[1]]
           b == [x \in S |-> LayerKey(x)[2]]
           c == [x \in S |-> LayerKey(x)[3]]
           before == EarlierLayers(S)
<1>1. \A x \in S : a[x] \in Int
  <2> SUFFICES ASSUME NEW x \in S
               PROVE  a[x] \in Int
    OBVIOUS
  <2>1. \E k \in DOMAIN Kinds : Kinds[k] = x.kind
    BY DEF KnownLayers, TypedLayer
  <2>2. a[x] = CHOOSE k \in DOMAIN Kinds : Kinds[k] = x.kind
    BY DEF LayerKey
  <2>3. a[x] \in DOMAIN Kinds
    BY <2>1, <2>2
  <2>4. DOMAIN Kinds \subseteq Int
    BY DEF Kinds
  <2> QED
    BY <2>3, <2>4
<1>2. \A x \in S : b[x] \in Int
  BY DEF KnownLayers, TypedLayer, LayerKey
<1>3. \A x \in S : c[x] \in Int /\ Layout[c[x]] = x.descriptor.digest
  <2> SUFFICES ASSUME NEW x \in S
               PROVE  c[x] \in Int /\ Layout[c[x]] = x.descriptor.digest
    OBVIOUS
  <2>1. \E n \in DOMAIN Layout : Layout[n] = x.descriptor.digest
    BY DEF KnownLayers, LayoutNumbers
  <2>2. c[x] = CHOOSE n \in DOMAIN Layout : Layout[n] = x.descriptor.digest
    BY DEF LayerKey
  <2>3. c[x] \in DOMAIN Layout /\ Layout[c[x]] = x.descriptor.digest
    BY <2>1, <2>2
  <2> QED
    BY <2>3 DEF LayoutNumbers
<1>4. \A x, y \in S : c[x] = c[y] => x = y
  BY <1>3 DEF KnownLayers
<1>5. \A x, y \in S : <<x, y>> \in before <=>
         \/ a[x] < a[y]
         \/ a[x] = a[y] /\ b[x] < b[y]
         \/ a[x] = a[y] /\ b[x] = b[y] /\ c[x] < c[y]
  <2> SUFFICES ASSUME NEW x \in S, NEW y \in S
               PROVE  LayerBefore(x, y) <=>
                         \/ a[x] < a[y]
                         \/ a[x] = a[y] /\ b[x] < b[y]
                         \/ a[x] = a[y] /\ b[x] = b[y] /\ c[x] < c[y]
    BY DEF EarlierLayers
  <2> DEFINE k == LayerKey(x)
             l == LayerKey(y)
  <2>1. /\ a[x] = k[1] /\ b[x] = k[2] /\ c[x] = k[3]
        /\ a[y] = l[1] /\ b[y] = l[2] /\ c[y] = l[3]
    OBVIOUS
  <2>2. LayerBefore(x, y) <=>
           \E i \in 1..3 : k[i] < l[i] /\ \A j \in 1..(i - 1) : k[j] = l[j]
    BY DEF LayerBefore
  <2> HIDE DEF k, l, a, b, c
  <2>3. 1..3 = {1, 2, 3} /\ 1..0 = {} /\ 1..1 = {1} /\ 1..2 = {1, 2}
    OBVIOUS
  <2>4. (\E i \in 1..3 : k[i] < l[i] /\ \A j \in 1..(i - 1) : k[j] = l[j])
           <=> \/ k[1] < l[1] /\ \A j \in 1..(1 - 1) : k[j] = l[j]
               \/ k[2] < l[2] /\ \A j \in 1..(2 - 1) : k[j] = l[j]
               \/ k[3] < l[3] /\ \A j \in 1..(3 - 1) : k[j] = l[j]
    BY <2>3
  <2>5. (\E i \in 1..3 : k[i] < l[i] /\ \A j \in 1..(i - 1) : k[j] = l[j])
           <=> \/ k[1] < l[1]
               \/ k[1] = l[1] /\ k[2] < l[2]
               \/ k[1] = l[1] /\ k[2] = l[2] /\ k[3] < l[3]
    BY <2>4
  <2> QED
    BY <2>1, <2>2, <2>5
<1> HIDE DEF a, b, c, before
<1>6. \A x \in S : <<x, x>> \notin before
  BY <1>1, <1>2, <1>3, <1>5
<1>7. \A x, y, z \in S :
         <<x, y>> \in before /\ <<y, z>> \in before => <<x, z>> \in before
  BY <1>1, <1>2, <1>3, <1>5
<1>8. \A x, y \in S : x # y => <<x, y>> \in before \/ <<y, x>> \in before
  BY <1>1, <1>2, <1>3, <1>4, <1>5
<1> QED
  BY <1>6, <1>7, <1>8 DEF StrictTotalOrder, before

(* The canonical bytes of a record, and the record they are of. *)
SettledLayers(list) ==
    /\ IsList(list) /\ Once(list) /\ KnownLayers(Elements(list))
    /\ Ordered(list, EarlierLayers(Elements(list)))
KeptOf(k, record) ==
    /\ k = [record EXCEPT !.layers = k.layers]
    /\ IsMap(k) /\ "layers" \in DOMAIN k
    /\ k.reference = record.reference /\ k.manifest = record.manifest
    /\ LayerSet(k) = LayerSet(record)
    /\ SettledLayers(k.layers)
    /\ ValidAdapter(record)

(* What is kept of a record is in the normal form, and has its layers. *)
LEMMA RecordKept ==
  ASSUME LayoutNumbers, NEW record, TypedRecord(record),
         AdapterBytes(record) # Refused
  PROVE  KeptOf(AdapterBytes(record), record)
<1> DEFINE s == record.layers
           S == Elements(s)
           before == EarlierLayers(S)
           less == Positions(s, LayerBefore)
           t == SortedBy(s, LayerBefore)
           k == [record EXCEPT !.layers = t]
<1>1. AdapterBytes(record) = k /\ ValidAdapter(record)
  BY DEF AdapterBytes
<1>2. /\ IsList(s) /\ DOMAIN s = 1..Len(s)
      /\ IsMap(record)
      /\ {"reference", "manifest", "layers"} \subseteq DOMAIN record
  BY ListDomain DEF TypedRecord
<1>3. /\ \A i \in 1..Len(s) : ValidLayer(s[i])
      /\ \A i, j \in 1..Len(s) : i # j =>
            s[i].descriptor.digest # s[j].descriptor.digest
  BY <1>1, <1>2 DEF ValidAdapter, ValidLayers
<1>4. \A i \in 1..Len(s) :
         TypedLayer(s[i]) /\ s[i].descriptor.digest \in Digests
  BY <1>3 DEF ValidLayer, ValidDescriptor, TypedRecord
<1>5. KnownLayers(S) /\ Once(s) /\ ListOf(s, S)
  BY <1>2, <1>3, <1>4 DEF KnownLayers, Elements, Once, ListOf
<1>6. StrictTotalOrder(S, before)
  BY <1>5, LayersTotal
<1>7. \A i, j \in 1..Len(s) :
         <<i, j>> \in less <=> <<s[i], s[j]>> \in before
  BY DEF Positions, Elements, EarlierLayers
<1>8. t = Arranged(s, 1..Len(s), Stably(Len(s), less))
  BY DEF SortedBy
<1>9. S = Elements(s) /\ before = EarlierLayers(S)
  OBVIOUS
<1>10. k = [record EXCEPT !.layers = t]
  OBVIOUS
<1> HIDE DEF s, S, before, less, t, k
<1>11. /\ ListOf(t, S) /\ Len(t) = Len(s) /\ Ordered(t, before)
       /\ Elements(t) = Elements(s) /\ Once(t)
  BY <1>5, <1>6, <1>7, <1>8, SortedValues
<1>12. IsList(t) /\ DOMAIN t = 1..Len(t)
  BY <1>11, ListDomain DEF ListOf
<1>13. SettledLayers(t)
  BY <1>5, <1>9, <1>11, <1>12 DEF SettledLayers
<1>14. /\ IsMap(k) /\ DOMAIN k = DOMAIN record /\ k.layers = t
       /\ k.reference = record.reference /\ k.manifest = record.manifest
  BY <1>2, <1>10 DEF IsMap
<1>15. LayerSet(k) = LayerSet(record)
  <2>1. LayerSet(k) = Elements(t)
    BY <1>12, <1>14 DEF LayerSet, Elements
  <2>2. LayerSet(record) = Elements(s)
    BY <1>2 DEF LayerSet, Elements, s
  <2> QED
    BY <1>11, <2>1, <2>2
<1> QED
  BY <1>1, <1>2, <1>10, <1>13, <1>14, <1>15 DEF KeptOf

(* Kept records of one artifact are the same. *)
LEMMA KeptAgree ==
  ASSUME LayoutNumbers, NEW k, NEW l, NEW r, NEW s, KeptOf(k, r), KeptOf(l, s),
         LayerSet(k) = LayerSet(l),
         [k EXCEPT !.layers = <<>>] = [l EXCEPT !.layers = <<>>]
  PROVE  k = l
<1>1. /\ IsMap(k) /\ IsMap(l) /\ "layers" \in DOMAIN k /\ "layers" \in DOMAIN l
      /\ SettledLayers(k.layers) /\ SettledLayers(l.layers)
  BY DEF KeptOf
<1> DEFINE p == k.layers
           q == l.layers
<1>2. Elements(p) = Elements(q)
  <2>1. DOMAIN p = 1..Len(p) /\ DOMAIN q = 1..Len(q)
    BY <1>1, ListDomain DEF SettledLayers
  <2> QED
    BY <2>1 DEF LayerSet, Elements
<1>3. p = q
  <2> DEFINE S == Elements(p)
             before == EarlierLayers(S)
  <2>1. ListOf(p, S) /\ IsList(q)
    BY <1>1 DEF ListOf, Elements, SettledLayers
  <2>2. StrictTotalOrder(S, before)
    BY <1>1, LayersTotal DEF SettledLayers
  <2>3. /\ Once(p) /\ Once(q)
        /\ Ordered(p, before) /\ Ordered(q, before)
    BY <1>1, <1>2 DEF SettledLayers
  <2> HIDE DEF S, before, p, q
  <2> QED
    BY <1>2, <2>1, <2>2, <2>3, SameSetSameList
<1> DEFINE m == [k EXCEPT !.layers = <<>>]
           n == [l EXCEPT !.layers = <<>>]
<1>4. /\ DOMAIN m = DOMAIN k /\ DOMAIN n = DOMAIN l
      /\ \A x \in DOMAIN k \ {"layers"} : m[x] = k[x]
      /\ \A x \in DOMAIN l \ {"layers"} : n[x] = l[x]
      /\ m = n
  OBVIOUS
<1> HIDE DEF m, n
<1>5. DOMAIN k = DOMAIN l /\ \A x \in DOMAIN k : k[x] = l[x]
  BY <1>3, <1>4
<1> QED
  BY <1>1, <1>5 DEF IsMap

(* No two layers of a kept record are for one kind and one platform. *)
LEMMA KeptLayersApart ==
  ASSUME NEW k, NEW record, KeptOf(k, record), IsList(record.layers),
         NEW one \in LayerSet(k), NEW two \in LayerSet(k),
         one.kind = two.kind, one.platform = two.platform
  PROVE  one = two
<1>1. /\ DOMAIN record.layers = 1..Len(record.layers)
      /\ ValidLayers(record.layers)
  BY ListDomain DEF KeptOf, ValidAdapter
<1>2. one \in LayerSet(record) /\ two \in LayerSet(record)
  BY DEF KeptOf
<1> QED
  BY <1>1, <1>2 DEF LayerSet, ValidLayers

-----------------------------------------------------------------------------
(* What is known of the registry, of kept records and of a pull.  The      *)
(* digest of a manifest decides its layers.                                *)
TypedOci ==
    /\ PiecesApart /\ LayoutNumbers
    /\ \A record \in Records : TypedRecord(record)
DigestsDecide ==
    /\ \A r, s \in Records : r.manifest.digest = s.manifest.digest
          => LayerSet(r) = LayerSet(s)
    /\ ~IsMap(Refused)
ManifestOf(m, digest, layers) ==
    m = [digest |-> digest, layers |-> layers]
OciHeld ==
    /\ \A m \in manifests : \E r \in Records :
          ManifestOf(m, r.manifest.digest, LayerSet(r))
    /\ \A k \in kept :
          /\ \E r \in Records : KeptOf(k, r)
          /\ \E m \in manifests : m.digest = k.manifest.digest
PullHeld ==
    pull # Absent =>
        /\ pull = [text |-> pull.text, record |-> pull.record,
                   found |-> pull.found]
        /\ pull.record \in kept
        /\ pull.text = Display(pull.record.reference)
        /\ pull.found # Absent =>
              /\ pull.found \in manifests
              /\ pull.found.digest = pull.record.manifest.digest

(* No push, tag, record or pull undoes what is known of them. *)
LEMMA OciStaysHeld ==
  ASSUME TypedOci, OciHeld, [OciNext]_ociVars
  PROVE  OciHeld'
<1>1. ASSUME NEW record \in Records, Push(record)
      PROVE  OciHeld'
  <2> DEFINE m == [digest |-> record.manifest.digest,
                   layers |-> LayerSet(record)]
  <2>1. manifests' = manifests \union {m} /\ kept' = kept
    BY <1>1 DEF Push
  <2>2. ManifestOf(m, record.manifest.digest, LayerSet(record))
    BY DEF ManifestOf
  <2> HIDE DEF m
  <2>3. \A n \in manifests' : \E r \in Records :
           ManifestOf(n, r.manifest.digest, LayerSet(r))
    BY <2>1, <2>2 DEF OciHeld
  <2>4. \A k \in kept' :
           /\ \E r \in Records : KeptOf(k, r)
           /\ \E n \in manifests' : n.digest = k.manifest.digest
    BY <2>1 DEF OciHeld
  <2> QED
    BY <2>3, <2>4 DEF OciHeld
<1>2. ASSUME NEW record \in Records, Keep(record)
      PROVE  OciHeld'
  <2> DEFINE k == AdapterBytes(record)
  <2>1. /\ k # Refused /\ kept' = kept \union {k}
        /\ manifests' = manifests
        /\ \E m \in manifests : m.digest = record.manifest.digest
    BY <1>2 DEF Keep
  <2>2. KeptOf(k, record)
    BY <2>1, RecordKept DEF TypedOci
  <2>3. k.manifest = record.manifest
    BY <2>2 DEF KeptOf
  <2> HIDE DEF k
  <2> QED
    BY <2>1, <2>2, <2>3 DEF OciHeld
<1>3. CASE UNCHANGED <<manifests, kept>>
  BY <1>3 DEF OciHeld
<1> QED
  BY <1>1, <1>2, <1>3 DEF OciNext, MoveTag, Begin, Pull, ociVars

(* The digest is followed, and what has it was pushed for the record. *)
LEMMA PullStaysHeld ==
  ASSUME TypedOci, OciHeld, PullHeld, [OciNext]_ociVars
  PROVE  PullHeld'
<1>1. ASSUME NEW record \in kept, Begin(record)
      PROVE  PullHeld'
  <2>1. /\ pull' = [text |-> Display(record.reference), record |-> record,
                    found |-> Absent]
        /\ kept' = kept
    BY <1>1 DEF Begin
  <2> QED
    BY <2>1 DEF PullHeld
<1>2. CASE Pull
  <2> DEFINE reference == Parse(pull.text)
             record == pull.record
             D == record.manifest.digest
  <2>1. /\ pull # Absent /\ record \in kept
        /\ pull = [text |-> pull.text, record |-> record,
                   found |-> pull.found]
        /\ pull.text = Display(record.reference)
    BY <1>2 DEF Pull, PullHeld
  <2>2. PICK r \in Records : KeptOf(record, r)
    BY <2>1 DEF OciHeld
  <2>3. /\ record.reference = r.reference /\ record.manifest = r.manifest
        /\ ValidReference(r.reference) /\ TypedReference(r.reference)
        /\ r.reference # Refused
        /\ r.reference.digest = r.manifest.digest
        /\ r.manifest.digest \in Digests
    BY <2>2 DEF KeptOf, ValidAdapter, ValidDescriptor, TypedOci, TypedRecord
  <2>4. r.reference.digest # Absent
    BY <2>3 DEF TypedOci, PiecesApart
  <2>5. reference = r.reference
    BY <2>1, <2>3, <2>4, ReferenceIsRead DEF TypedOci
  <2>6. reference # Refused /\ reference.digest # Absent
        /\ reference.digest = D
    BY <2>3, <2>4, <2>5
  <2>7. \E m \in manifests : m.digest = D
    BY <2>1 DEF OciHeld
  <2> DEFINE m == CHOOSE x \in manifests : x.digest = D
  <2>8. m \in manifests /\ m.digest = D
    BY <2>7
  <2> HIDE DEF reference, record, D
  <2>9. /\ pull' = [pull EXCEPT !.found = m]
        /\ kept' = kept /\ manifests' = manifests
    BY <1>2, <2>6, <2>7 DEF Pull, reference
  <2> HIDE DEF m
  <2>10. /\ pull' = [text |-> pull.text, record |-> record, found |-> m]
    BY <2>1, <2>9
  <2> QED
    BY <2>1, <2>8, <2>9, <2>10 DEF PullHeld, D
<1>3. CASE /\ pull' = pull
           /\ kept \subseteq kept' /\ manifests \subseteq manifests'
  BY <1>3 DEF PullHeld
<1> QED
  BY <1>1, <1>2, <1>3 DEF OciNext, MoveTag, Push, Keep, ociVars

(* A record leads to one manifest, wherever the tag has moved, and in it   *)
(* to one layer for a kind and a platform, when a digest decides the       *)
(* layers (oci.rs, OciReference::parse and OciAdapterRecord::validate).    *)
THEOREM RecordsLead ==
  ASSUME TypedOci, DigestsDecide
  PROVE  OciSpec => []RecordsLeadToOneLayer
<1>1. OciInit => OciHeld /\ PullHeld
  BY DEF OciInit, OciHeld, PullHeld
<1>2. OciHeld /\ [OciNext]_ociVars => OciHeld'
  BY OciStaysHeld
<1>3. OciHeld /\ PullHeld /\ [OciNext]_ociVars => PullHeld'
  BY PullStaysHeld
<1>4. OciHeld /\ PullHeld => RecordsLeadToOneLayer
  <2> SUFFICES ASSUME OciHeld, PullHeld
               PROVE  RecordsLeadToOneLayer
    OBVIOUS
  <2>1. PullsWhatIsRecorded
    <3> SUFFICES ASSUME pull # Absent, pull.found # Absent
                 PROVE  /\ pull.found # Refused
                        /\ pull.found.layers = LayerSet(pull.record)
      BY DEF PullsWhatIsRecorded
    <3>1. /\ pull.record \in kept /\ pull.found \in manifests
          /\ pull.found.digest = pull.record.manifest.digest
      BY DEF PullHeld
    <3>2. PICK r \in Records :
             ManifestOf(pull.found, r.manifest.digest, LayerSet(r))
      BY <3>1 DEF OciHeld
    <3>3. PICK s \in Records : KeptOf(pull.record, s)
      BY <3>1 DEF OciHeld
    <3>4. /\ pull.found.digest = r.manifest.digest
          /\ pull.found.layers = LayerSet(r) /\ IsMap(pull.found)
      BY <3>2 DEF ManifestOf, IsMap
    <3>5. pull.record.manifest = s.manifest
          /\ LayerSet(pull.record) = LayerSet(s)
      BY <3>3 DEF KeptOf
    <3>6. LayerSet(r) = LayerSet(s)
      BY <3>1, <3>4, <3>5 DEF DigestsDecide
    <3> QED
      BY <3>4, <3>5, <3>6 DEF DigestsDecide
  <2>2. OneLayerPerPlatform
    BY KeptLayersApart DEF OneLayerPerPlatform, OciHeld, TypedOci, TypedRecord
  <2> QED
    BY <2>1, <2>2 DEF RecordsLeadToOneLayer
<1> QED
  BY <1>1, <1>2, <1>3, <1>4, PTL DEF OciSpec

(* Records of the same layers have the same bytes, in whatever order their *)
(* publishers list them (OciAdapterRecord::canonical_json_bytes).          *)
THEOREM ArtifactsHaveOneRecord ==
  ASSUME TypedOci
  PROVE  OciSpec => []RecordsOfOneArtifactAgree
<1>1. OciInit => OciHeld
  BY DEF OciInit, OciHeld
<1>2. OciHeld /\ [OciNext]_ociVars => OciHeld'
  BY OciStaysHeld
<1>3. OciHeld => RecordsOfOneArtifactAgree
  BY KeptAgree DEF OciHeld, RecordsOfOneArtifactAgree, TypedOci
<1> QED
  BY <1>1, <1>2, <1>3, PTL DEF OciSpec

-----------------------------------------------------------------------------
(* All that is exchanged. *)

(* Documents that say the same have the same bytes: families, OCI records, *)
(* namespace plans, Nix plans and records (the canonical bytes of each).   *)
THEOREM DocumentsAgree ==
  ASSUME TypedFamilies, TypedOci, TypedNix,
         NEW texts, Numbered(texts), \A plan \in Plans : TypedPlan(plan, texts)
  PROVE  InteropSpec => []SameMeaningSameBytes
<1>1. FamilySpec => []FamilyHasOneRecord
  BY FamiliesHaveOneRecord
<1>2. OciSpec => []RecordsOfOneArtifactAgree
  BY ArtifactsHaveOneRecord
<1>3. ClaimSpec => []PlannersAgree
  BY ClaimPlannersAgree
<1>4. NixSpec => [](PlansAgree /\ SealersAgree)
  BY NixTranslatorsAgree
<1>5. /\ FamilyHasOneRecord /\ RecordsOfOneArtifactAgree /\ PlannersAgree
      /\ PlansAgree /\ SealersAgree
      => SameMeaningSameBytes
  BY DEF SameMeaningSameBytes
<1> QED
  BY <1>1, <1>2, <1>3, <1>4, <1>5, PTL DEF InteropSpec

=============================================================================
