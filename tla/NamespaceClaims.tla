--------------------------- MODULE NamespaceClaims ---------------------------
(***************************************************************************)
(* One organization name, claimed at several package registries and forges *)
(* (src/rust/namespace_claim.rs): the request, the plan with an entry per  *)
(* provider, and the receipts of what was observed.  Two planners write    *)
(* the plan; adapters go through its entries, and others may take a name   *)
(* first.  Planners, adapters and providers are external.                  *)
(***************************************************************************)
EXTENDS Absence, Arrangements, SequencesExt

CONSTANTS
    Plans          \* plans as planners may write them

(* In the order of the enumeration, with the kind of name each has. *)
Providers == <<"npm", "maven-central", "crates-io", "pub-dev", "github",
               "gitlab-com", "bitbucket-cloud">>
Models == <<"scope", "group id", "package names", "publisher", "organization",
            "group", "workspace">>
ProviderOrder(provider) ==
    CHOOSE i \in DOMAIN Providers : Providers[i] = provider
ExpectedModel(provider) == Models[ProviderOrder(provider)]

(* A text is [shape, text]. *)
ValidPortableSlug(t) == t.shape = "slug"
ValidDomain(t) == t.shape = "domain"
ValidCoordinate(t) == t.shape \in {"slug", "domain", "scope", "upper"}
ValidPackagePrefix(t) == t.shape = "slug-"
ValidText(t) == t.shape # "blank"
Unique(list) == \A i, j \in DOMAIN list : i # j => list[i] # list[j]

ValidRequest(request) ==
    /\ ValidPortableSlug(request.brand)
    /\ request.domain # Absent => ValidDomain(request.domain)
    /\ request.owner # Absent => ValidPortableSlug(request.owner)
    /\ request.providers # <<>>
    /\ Unique(request.providers)

(* crates.io has no names of organizations, only prefixes of packages.     *)
ValidEntry(entry) ==
    LET unreservable == entry.provider = "crates-io"
    IN  /\ entry.model = ExpectedModel(entry.provider)
        /\ entry.coordinate # Absent => ValidCoordinate(entry.coordinate)
        /\ entry.prefix # Absent => ValidPackagePrefix(entry.prefix)
        /\ (entry.prefix # Absent) <=> unreservable
        /\ (entry.automation = "not-reservable") <=> unreservable
        /\ (entry.disposition = "not-reservable") <=> unreservable
        /\ unreservable => entry.coordinate = Absent
        /\ (~unreservable /\ entry.disposition # "missing-prerequisite") =>
              entry.coordinate # Absent
        /\ Unique(entry.proofs)
        /\ entry.steps # <<>>
        /\ \A i \in DOMAIN entry.warnings : ValidText(entry.warnings[i])

(* Exactly one entry for every provider that was requested. *)
ValidClaimPlan(plan) ==
    /\ ValidRequest(plan.request)
    /\ \A i \in DOMAIN plan.entries : ValidEntry(plan.entries[i])
    /\ \A i, j \in DOMAIN plan.entries :
          i # j => plan.entries[i].provider # plan.entries[j].provider
    /\ {e.provider : e \in ToSet(plan.entries)} = ToSet(plan.request.providers)
    /\ \A i \in DOMAIN plan.warnings : ValidText(plan.warnings[i])

(* Proofs and warnings are numbered as they sort; the steps keep their     *)
(* order.                                                                  *)
ByProvider(p, q) == ProviderOrder(p) < ProviderOrder(q)
OfProviders(e, f) == ByProvider(e.provider, f.provider)
ByText(v, w) == v.text < w.text
NormalizedEntry(entry) ==
    [entry EXCEPT !.proofs = SortedBy(@, LAMBDA a, b : a < b),
                  !.warnings = SortedBy(@, ByText)]
(* Mutant: the proofs of an entry stay in the order they were found.       *)
NormalizedClaimPlanOuter(plan) ==
    [plan EXCEPT
        !.request.providers = SortedBy(@, ByProvider),
        !.entries = SortedBy(@, OfProviders),
        !.warnings = SortedBy(@, ByText)]

NormalizedClaimPlan(plan) ==
    [plan EXCEPT
        !.request.providers = SortedBy(@, ByProvider),
        !.entries = SortedBy([i \in DOMAIN @ |-> NormalizedEntry(@[i])],
                             OfProviders),
        !.warnings = SortedBy(@, ByText)]

ClaimPlanBytes(plan) ==
    IF ValidClaimPlan(plan) THEN NormalizedClaimPlan(plan) ELSE Refused

Successes ==
    {"reserved", "existing-ownership-verified", "first-publication-completed"}

(* Mutant: every receipt has to come with evidence. *)
ValidReceiptWithEvidence(receipt) ==
    /\ receipt.provider = "crates-io" => receipt.outcome # "reserved"
    /\ receipt.evidence # <<>>

ValidReceipt(receipt) ==
    /\ receipt.coordinate # Absent => ValidCoordinate(receipt.coordinate)
    /\ receipt.provider = "crates-io" => receipt.outcome # "reserved"
    /\ receipt.outcome = "not-reservable" => receipt.provider = "crates-io"
    /\ receipt.outcome \in Successes => receipt.evidence # <<>>

-----------------------------------------------------------------------------
VARIABLES
    plans,         \* the canonical bytes of the plans of both planners
    owner,         \* provider -> "nobody", "us" or "others"
    position,      \* provider -> [plan, done]: the steps of its entry
    receipts

claimVars == <<plans, owner, position, receipts>>

ProviderSet == ToSet(Providers)
NoClaims ==
    plans = Absent /\ owner = Absent /\ position = Absent /\ receipts = Absent
ClaimInit ==
    /\ plans = {}
    /\ owner \in [ProviderSet -> {"nobody"}]
    /\ position = [p \in ProviderSet |-> [plan |-> Absent, done |-> 0]]
    /\ receipts = {}

Write(plan) ==
    /\ receipts = {} /\ Cardinality(plans) < 2
    /\ \A p \in ProviderSet : position[p].plan = Absent
    /\ ClaimPlanBytes(plan) # Refused
    /\ plans' = plans \union {ClaimPlanBytes(plan)}
    /\ UNCHANGED <<owner, position, receipts>>

Requested(provider) ==
    \E plan \in plans : provider \in ToSet(plan.request.providers)

TakenByOthers(provider) ==
    /\ provider # "crates-io" /\ Requested(provider)
    /\ owner[provider] = "nobody"
    /\ owner' = [owner EXCEPT ![provider] = "others"]
    /\ UNCHANGED <<plans, position, receipts>>

Answered(provider) == \E r \in receipts : r.provider = provider
EntryOf(plan, provider) ==
    CHOOSE e \in ToSet(plan.entries) : e.provider = provider
Asked(plan, provider) ==
    /\ \E e \in ToSet(plan.entries) : e.provider = provider
    /\ ~Answered(provider)

(* The steps of an entry are done in their order, when it is actionable.   *)
(* An adapter that has begun with one plan goes on with it.                *)
DoStep(plan, provider) ==
    LET entry == EntryOf(plan, provider)
        done == position[provider].done
        step == entry.steps[done + 1]
    IN  /\ Asked(plan, provider)
        /\ entry.disposition \in {"actionable", "not-reservable"}
        /\ position[provider].plan \in {Absent, plan}
        /\ done < Len(entry.steps)
        /\ position' = [position EXCEPT ![provider] =
                           [plan |-> plan, done |-> done + 1]]
        /\ owner' = IF step = "create" /\ owner[provider] = "nobody"
                    THEN [owner EXCEPT ![provider] = "us"] ELSE owner
        /\ UNCHANGED <<plans, receipts>>

(* What an adapter may report: what it says of a name is its own word, and *)
(* no rule of a receipt compares it with the provider.  One that treats    *)
(* all providers alike calls what it created reserved, at crates.io too,   *)
(* which the receipt refuses; there is evidence of what is ours.           *)
Outcomes(entry) ==
    IF entry.disposition \in {"missing-prerequisite",
                              "manual-action-required"}
    THEN {"manual-action-required"}
    ELSE IF owner[entry.provider] = "others" THEN {"unavailable"}
    ELSE IF entry.provider = "crates-io"
    THEN {"not-reservable", "reserved", "first-publication-completed"}
    ELSE IF owner[entry.provider] = "us"
    THEN {"reserved", "existing-ownership-verified"}
    ELSE {"manual-action-required"}

Report(plan, provider) ==
    LET entry == EntryOf(plan, provider)
    IN  /\ Asked(plan, provider)
        /\ entry.disposition \in {"actionable", "not-reservable"} =>
              position[provider] = [plan |-> plan, done |-> Len(entry.steps)]
        /\ \E outcome \in Outcomes(entry) :
              LET receipt ==
                    [plan |-> plan, provider |-> provider,
                     coordinate |-> entry.coordinate, outcome |-> outcome,
                     evidence |-> IF outcome \in Successes THEN <<"account">>
                                  ELSE <<>>]
              IN  /\ ValidReceipt(receipt)
                  /\ receipts' = receipts \union {receipt}
        /\ UNCHANGED <<plans, owner, position>>

Adapter(provider) ==
    \E plan \in plans : DoStep(plan, provider) \/ Report(plan, provider)

ClaimNext ==
    \/ \E plan \in Plans : Write(plan)
    \/ \E provider \in ProviderSet : TakenByOthers(provider)
    \/ \E provider \in ProviderSet : Adapter(provider)

ClaimSpec == ClaimInit /\ [][ClaimNext]_claimVars

-----------------------------------------------------------------------------
(* Planners that plan the same, in whatever order they find providers,     *)
(* proofs and warnings, write the same bytes, so that their receipts name  *)
(* one plan (RegistryNamespacePlan::canonical_json_bytes).                 *)
SameEntry(e, f) ==
    /\ [e EXCEPT !.proofs = ToSet(@), !.warnings = <<>>]
          = [f EXCEPT !.proofs = ToSet(@), !.warnings = <<>>]
    /\ SameElements(e.warnings, f.warnings)
SamePlan(one, two) ==
    /\ [one.request EXCEPT !.providers = ToSet(@)]
          = [two.request EXCEPT !.providers = ToSet(@)]
    /\ SameElements(one.warnings, two.warnings)
    /\ \A e \in ToSet(one.entries) : \E f \in ToSet(two.entries) :
          SameEntry(e, f)
PlannersAgree ==
    (plans # Absent) =>
        \A one, two \in plans : SamePlan(one, two) => one = two

=============================================================================
