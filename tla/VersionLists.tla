----------------------------- MODULE VersionLists -----------------------------
(***************************************************************************)
(* Versions as publishers spell them, and the requirements that choose     *)
(* among them (src/rust/version.rs); then the versions of one package as   *)
(* its publisher adds them and as clients list them: from the registry, in *)
(* the order of publication, or, when the registry is down, from the tags  *)
(* of the repository, which come in any order and carry a "v" or not.      *)
(* Both kinds of client resolve the same requirement with the same rules.  *)
(* The clients and the registry are programs outside this repository.      *)
(*                                                                         *)
(* A spelling is a record: v (a leading "v"), nums (the segments of the    *)
(* release), padded (a segment has a leading zero), pre (what follows a    *)
(* "-": <<>> or <<label, number>>), build (a "+" part), pep (the label and *)
(* number that follow without a "-": <<>> or <<label, number>>), or        *)
(* [tag |-> text] for any other text.                                      *)
(***************************************************************************)
EXTENDS Arrangements, SequencesExt

CONSTANTS
    NoVersion,      \* a model value
    Spellings,      \* what publishers write
    Requirements,   \* what a consumer may ask for
    MaxPublished    \* bound: versions of the package

LabelNames == {"alpha", "beta", "dev", "rc"}
Prereleases == {<<>>} \union (LabelNames \X Nat)
Texts ==
    [v : BOOLEAN, nums : Seq(Nat), padded : BOOLEAN, pre : Prereleases,
     build : BOOLEAN, pep : {<<>>} \union (STRING \X Nat)]
    \union [tag : STRING]

ASSUME SpellingsAreTexts == Spellings \subseteq Texts /\ NoVersion \notin Texts

-----------------------------------------------------------------------------
Parsed3(nums, pre) == [nums |-> nums, pre |-> pre]
Padded(nums) == [i \in 1..3 |-> IF i <= Len(nums) THEN nums[i] ELSE 0]

IsTag(spelling) == "tag" \in DOMAIN spelling

(* Version::parse, with the leading v stripped as normalize_go does; the   *)
(* build part is dropped.                                                  *)
Semver(spelling) ==
    IF Len(spelling.nums) = 3 /\ ~spelling.padded /\ spelling.pep = <<>>
    THEN Parsed3(spelling.nums, spelling.pre) ELSE NoVersion

NormalizeCalver(spelling) ==
    IF Len(spelling.nums) \in 1..3 /\ spelling.pep = <<>> /\ ~spelling.build
    THEN Parsed3(Padded(spelling.nums), spelling.pre) ELSE NoVersion

(* A post-release becomes build metadata, and that is dropped. *)
PepLabel(label) ==
    CASE label \in {"a", "alpha"} -> "alpha"
      [] label \in {"b", "beta"} -> "beta"
      [] label \in {"c", "rc", "pre", "preview"} -> "rc"
      [] label = "dev" -> "dev"
      [] label \in {"post", "rev", "r"} -> "post"
      [] OTHER -> NoVersion

NormalizePep440(spelling) ==
    LET label == PepLabel(spelling.pep[1])
    IN  IF \/ spelling.pep = <<>> \/ Len(spelling.nums) > 3
           \/ spelling.pre # <<>> \/ spelling.build
        THEN NoVersion
        ELSE CASE label = NoVersion -> NoVersion
               [] label = "post" -> Parsed3(Padded(spelling.nums), <<>>)
               [] OTHER -> Parsed3(Padded(spelling.nums),
                                   <<label, spelling.pep[2]>>)

(* The first of the readings that succeeds. *)
OrElse(reading, other) == IF reading # NoVersion THEN reading ELSE other
ParseVersion(spelling) ==
    IF IsTag(spelling) THEN NoVersion
    ELSE OrElse(Semver(spelling),
                OrElse(NormalizeCalver(spelling), NormalizePep440(spelling)))

-----------------------------------------------------------------------------
(* Precedence.  Labels are compared by their bytes; a release comes after  *)
(* its prereleases.                                                        *)
Labels == <<"alpha", "beta", "dev", "rc">>
LexLess(a, b) ==
    \E i \in DOMAIN a \cap DOMAIN b :
        /\ a[i] < b[i]
        /\ \A j \in 1..(i - 1) : a[j] = b[j]

Maturity(pre) ==
    IF pre = <<>> THEN <<1, 0, 0>>
    ELSE <<0, CHOOSE i \in DOMAIN Labels : Labels[i] = pre[1], pre[2]>>
Precedence(version) ==
    [i \in 1..6 |-> IF i <= 3 THEN version.nums[i]
                    ELSE Maturity(version.pre)[i - 3]]
Older(a, b) == LexLess(Precedence(a), Precedence(b))

(* A requirement is [range |-> TRUE, low, high], the versions from low to  *)
(* below high, or [range |-> FALSE, want], one spelling.  A range takes no *)
(* prereleases.                                                            *)

InRange(requirement, version) ==
    /\ version.pre = <<>>
    /\ ~LexLess(version.nums, requirement.low)
    /\ LexLess(version.nums, requirement.high)

Matches(requirement, spelling) ==
    IF ~requirement.range THEN spelling = requirement.want
    ELSE /\ ParseVersion(spelling) # NoVersion
         /\ InRange(requirement, ParseVersion(spelling))

(* Whether the text of a requirement is accepted: one that has the shape   *)
(* of a range must be a range.                                             *)
ValidRequirement(requirement) == requirement.shapedAsRange => requirement.range

(* resolve: max_by returns the last of the greatest; then what taking the  *)
(* first match would resolve to.                                           *)
Fit(requirement, versions) ==
    {i \in DOMAIN versions : Matches(requirement, versions[i])}
OlderAt(versions, i, j) ==
    Older(ParseVersion(versions[i]), ParseVersion(versions[j]))
Greatest(versions, fit) ==
    {i \in fit : \A j \in fit : ~OlderAt(versions, i, j)}
ResolveFirst(requirement, versions) ==
    LET fit == Fit(requirement, versions)
    IN  IF fit = {} THEN NoVersion ELSE versions[Min(fit)]
Resolve(requirement, versions) ==
    LET fit == Fit(requirement, versions)
    IN  IF ~requirement.range \/ fit = {}
        THEN ResolveFirst(requirement, versions)
        ELSE versions[Max(Greatest(versions, fit))]

(* sort_desc: newest first, equal versions in the order they came in, what *)
(* is no version at the end (the order among those is left out).           *)
Newer(s, t) ==
    /\ ParseVersion(s) # NoVersion
    /\ ParseVersion(t) = NoVersion \/ Older(ParseVersion(t), ParseVersion(s))
SortDesc(versions) == SortedBy(versions, Newer)

(* What a package may call a version under its scheme. *)
ValidVersion(scheme, spelling) ==
    CASE scheme = "semver" ->
            ~IsTag(spelling) /\ ~spelling.v /\ Semver(spelling) # NoVersion
      [] scheme = "calver" ->
            ~IsTag(spelling) /\ NormalizeCalver(spelling) # NoVersion
      [] OTHER -> TRUE

-----------------------------------------------------------------------------
VARIABLES
    scheme,         \* the package's
    published,      \* the registry's list
    tags,           \* the repository's
    requirement     \* the consumer's

listVars == <<scheme, published, tags, requirement>>

ListInit ==
    /\ scheme \in {"semver", "calver", "opaque"}
    /\ published = <<>> /\ tags = <<>>
    /\ requirement \in {r \in Requirements : ValidRequirement(r)}

WithoutV(spelling) ==
    IF IsTag(spelling) THEN spelling ELSE [spelling EXCEPT !.v = FALSE]
WithV(spelling) ==
    IF IsTag(spelling) THEN spelling ELSE [spelling EXCEPT !.v = TRUE]

Publish(s) ==
    /\ ValidVersion(scheme, s)
    /\ s \notin ToSet(published)
    /\ Len(published) < MaxPublished
    /\ published' = Append(published, s)
    /\ \E tag \in {s, WithV(s)}, i \in 1..(Len(tags) + 1) :
          /\ tag \notin ToSet(tags)
          /\ tags' = InsertAt(tags, i, tag)
    /\ UNCHANGED <<scheme, requirement>>

TagVersions == [i \in DOMAIN tags |-> WithoutV(tags[i])]

ListNext == \E s \in Spellings : Publish(s)

ListSpec == ListInit /\ [][ListNext]_listVars

-----------------------------------------------------------------------------
SameVersion(a, b) ==
    IF a = NoVersion \/ b = NoVersion THEN a = b
    ELSE ~Older(ParseVersion(a), ParseVersion(b))
         /\ ~Older(ParseVersion(b), ParseVersion(a))

(* Whichever list it reads, in whatever order, a client that asks for a    *)
(* range gets one version, though perhaps another spelling of it; the      *)
(* first stable version of the sorted list that fits is that version too   *)
(* (resolve and sort_desc, version.rs 312-337).                            *)
ListsResolveAlike ==
    requirement.range =>
        LET resolved == Resolve(requirement, published)
            sorted == SortDesc(published)
            fit == Fit(requirement, sorted)
        IN  /\ SameVersion(resolved, Resolve(requirement, TagVersions))
            /\ \A i \in fit :
                  (\A j \in fit : i <= j) => SameVersion(resolved, sorted[i])

=============================================================================
