---------------------------- MODULE NativeInterop ----------------------------
(***************************************************************************)
(* A Zed project and a native registry.  The registry's versions come and  *)
(* are yanked; the project resolves its requirement against what is        *)
(* eligible, keeps the lock, edits or merges the file that holds it, and   *)
(* restores from it.  A release of the project is published as a family of *)
(* packages, one upload after the other, and installed from there.  The    *)
(* registry, the project and the installer are external; what they check   *)
(* is in NativeRequirements and, for families, in the first part.          *)
(*                                                                         *)
(* It has the record of a release that is published to npm or to a Cargo   *)
(* registry as a family of packages: one that is portable, or one per      *)
(* platform and one, the meta package, that selects among them             *)
(* (src/rust/native_registry.rs).                                          *)
(*                                                                         *)
(* A record is [registry, source, publications]; a publication is [package *)
(* |-> [name, version], kind, platform, selections, artifact], with a      *)
(* sequence of [platform, package] as its selections.  A platform is a     *)
(* number, Absent, or 0 when one of its tokens is not lowercase.           *)
(***************************************************************************)
EXTENDS NativeRequirements

(* Names are numbered as they sort. *)
ValidRegistryIdentity(registry, package) ==
    /\ ValidPackageName(registry, package.name)
    /\ ~package.version.build

ValidRegistryPlatform(platform) == platform # Absent /\ platform # 0
ValidPublicationArtifact(artifact) ==
    artifact.sha256 # "malformed" /\ artifact.size > 0

(* Each kind has the selector and the selections that belong to it. *)
ValidPublication(registry, version, publication) ==
    /\ ValidRegistryIdentity(registry, publication.package)
    /\ publication.package.version = version
    /\ publication.kind = "platform" =>
          ValidRegistryPlatform(publication.platform)
    /\ publication.kind # "platform" => publication.platform = Absent
    /\ publication.kind # "meta" => publication.selections = <<>>
    /\ \A i \in DOMAIN publication.selections :
          /\ ValidRegistryPlatform(publication.selections[i].platform)
          /\ ValidPackageName(registry, publication.selections[i].package)
          /\ \A j \in 1..(i - 1) :
                publication.selections[i].platform
                    # publication.selections[j].platform
    /\ ValidPublicationArtifact(publication.artifact)

(* Build metadata does not tell two versions apart. *)
PrecedenceIdentity(version) == [version EXCEPT !.build = FALSE]

OfKind(record, kind) ==
    {i \in DOMAIN record.publications : record.publications[i].kind = kind}

(* Mutant: that the selected packages are in the record is all.            *)
SelectsFamilyByName(record, meta) ==
    /\ meta.selections # <<>>
    /\ {s.package : s \in ToSet(meta.selections)} =
          {record.publications[i].package.name :
              i \in OfKind(record, "platform")}

(* A meta package selects every platform package of the record, each for   *)
(* its own platform, and no other.                                         *)
SelectsFamily(record, meta) ==
    LET Platform(i) == record.publications[i].platform
        selected == {<<s.platform, s.package>> : s \in ToSet(meta.selections)}
    IN  /\ meta.selections # <<>>
        /\ selected = {<<Platform(i), record.publications[i].package.name>> :
                          i \in OfKind(record, "platform")}

ValidFamily(record) ==
    LET Publication(i) == record.publications[i]
    IN  /\ record.publications # <<>>
        /\ \A i \in DOMAIN record.publications :
              ValidPublication(record.registry, record.source, Publication(i))
        /\ \A i, j \in DOMAIN record.publications : i # j =>
              \/ Publication(i).package.name # Publication(j).package.name
              \/ PrecedenceIdentity(Publication(i).package.version)
                    # PrecedenceIdentity(Publication(j).package.version)
        /\ Cardinality(OfKind(record, "meta")) <= 1
        /\ Cardinality(OfKind(record, "portable")) <= 1
        /\ \A i, j \in OfKind(record, "platform") :
              i # j => Publication(i).platform # Publication(j).platform
        /\ \A i \in OfKind(record, "meta") :
              SelectsFamily(record, Publication(i))

(* Selections in the order of their platforms, publications in that of     *)
(* their packages, which a record does not repeat.                         *)
NormalizedPublication(publication) ==
    [publication EXCEPT !.selections =
        SortedBy(@, LAMBDA s, t : s.platform < t.platform)]
ByName(p, q) == p.package.name.order < q.package.name.order
(* Mutant: the selections stay as they were written. *)
NormalizedOuter(record) ==
    [record EXCEPT !.publications = SortedBy(@, ByName)]

Normalized(record) ==
    [record EXCEPT !.publications =
        SortedBy([i \in DOMAIN @ |-> NormalizedPublication(@[i])], ByName)]

FamilyBytes(record) ==
    IF ValidFamily(record) THEN Normalized(record) ELSE Refused

-----------------------------------------------------------------------------
CONSTANTS
    Candidates,    \* versions that may be published, each with its artifact
    Declarations,  \* requirements as the project may write them
    Revisions,     \* those that it may change them to
    Package,       \* the name of the package
    Families,      \* records that builders of the release may write
    MaxReleases

VARIABLES
    ecosystem,     \* the registry of the dependency
    released,      \* the candidates that the registry has
    declared,      \* what the project declares
    lock,          \* the lock file, Refused or Absent
    answer,        \* the last resolution: [declared, offered, lock]
    restored,      \* what was restored last
    records,       \* the canonical records of the release
    uploaded,      \* the publications that the registry took
    installed      \* an install from the family: [platform, publication]

dependencyVars == <<ecosystem, released, declared, lock, answer, restored>>
familyVars == <<records, uploaded, installed>>
nativeVars == <<dependencyVars, familyVars>>

DependencyInit ==
    /\ ecosystem \in Registries
    /\ released = {}
    /\ declared \in Declarations
    /\ lock = Absent /\ answer = Absent /\ restored = Absent
FamilyInit == records = {} /\ uploaded = {} /\ installed = Absent
NoFamily == records = Absent /\ uploaded = Absent /\ installed = Absent
NoDependency ==
    /\ ecosystem = Absent /\ released = Absent /\ declared = Absent
    /\ lock = Absent /\ answer = Absent /\ restored = Absent

-----------------------------------------------------------------------------
Release(candidate) ==
    /\ candidate \notin released
    /\ Cardinality(released) < MaxReleases
    /\ released' = released \union {candidate}
    /\ UNCHANGED <<ecosystem, declared, lock, answer, restored, familyVars>>

Yank(candidate) ==
    /\ candidate \in released
    /\ lock # Absent
    /\ released' = released \ {candidate}
    /\ UNCHANGED <<ecosystem, declared, lock, answer, restored, familyVars>>

(* The registry lists its versions in any order. *)
ResolveNow ==
    /\ \E list \in SetToSeqs(released) :
          LET found == Resolve(ecosystem, Package, declared, list)
          IN  /\ lock' = IF found = Refused THEN lock ELSE found
              /\ answer' = [declared |-> declared, offered |-> released,
                            lock |-> found]
    /\ UNCHANGED <<ecosystem, released, declared, restored, familyVars>>

(* The project declares another requirement, by hand or by a merge, in the *)
(* file of the lock too; the rest of the lock is as it was.                *)
Edit(declaration) ==
    /\ lock # Absent
    /\ declaration # declared
    /\ declared' = declaration
    /\ lock' = [lock EXCEPT !.declared = declaration]
    /\ UNCHANGED <<ecosystem, released, answer, restored, familyVars>>

Restore ==
    /\ lock # Absent
    /\ ValidLock(lock)
    /\ restored' = lock
    /\ UNCHANGED <<ecosystem, released, declared, lock, answer, familyVars>>

DependencyNext ==
    \/ \E candidate \in Candidates : Release(candidate) \/ Yank(candidate)
    \/ ResolveNow
    \/ \E declaration \in Revisions : Edit(declaration)
    \/ Restore

-----------------------------------------------------------------------------
(* Two builders may write the record of one release. *)
Adapt(record) ==
    /\ FamilyBytes(record) # Refused
    /\ Cardinality(records) < 2
    /\ records' = records \union {FamilyBytes(record)}
    /\ UNCHANGED <<uploaded, installed, dependencyVars>>

Upload ==
    /\ \E record \in records : \E i \in DOMAIN record.publications :
          /\ \A p \in uploaded : p.package # record.publications[i].package
          /\ uploaded' = uploaded \union {record.publications[i]}
    /\ UNCHANGED <<records, installed, dependencyVars>>

(* The installer follows the selection of an uploaded meta package. *)
InstallFor(platform) ==
    /\ \E meta, chosen \in uploaded : \E s \in ToSet(meta.selections) :
          /\ s.platform = platform
          /\ chosen.package = [name |-> s.package,
                               version |-> meta.package.version]
          /\ installed' = [platform |-> platform, publication |-> chosen]
    /\ UNCHANGED <<records, uploaded, dependencyVars>>

FamilyNext ==
    \/ \E record \in Families : Adapt(record)
    \/ Upload
    \/ \E platform \in 1..2 : InstallFor(platform)

NativeNext == DependencyNext \/ FamilyNext

DependencySpec == DependencyInit /\ [][DependencyNext]_dependencyVars
FamilySpec == FamilyInit /\ [][FamilyNext]_familyVars

-----------------------------------------------------------------------------
(* What node-semver takes a word of a requirement for: the versions from a *)
(* key to below another.  Keys extend those of versions: <<0, 0>> stands   *)
(* for "-0", before every prerelease.                                      *)
First(nums) == Filled(nums) \o <<1, 0>>
Before(nums) == Filled(nums) \o <<0, 0>>
End == <<MaxComponent + 2, 0, 0, 0, 0>>

Bumped(nums, k) == [i \in 1..k |-> IF i = k THEN nums[i] + 1 ELSE nums[i]]
CaretPlace(nums) ==
    LET nonzero == {i \in DOMAIN nums : nums[i] # 0} \union {Len(nums)}
    IN  CHOOSE i \in nonzero : \A j \in nonzero : i <= j

NpmInterval(word) ==
    LET nums == Numbers(word.body)
        partial == Len(nums) < 3
        low == IF partial THEN First(nums)
               ELSE Key([nums |-> nums, pre |-> word.body.pre])
        after == IF partial THEN Before(Bumped(nums, Len(nums)))
                 ELSE low \o <<0>>
        begin == IF partial THEN First(Bumped(nums, Len(nums))) ELSE after
    IN  CASE word.op \in {"", "="} /\ nums = <<>> -> <<First(<<>>), End>>
          [] word.op \in {"", "="} /\ nums # <<>> -> <<low, after>>
          [] word.op = ">=" -> <<low, End>>
          [] word.op = ">"  -> <<begin, End>>
          [] word.op = "<=" -> <<Before(<<>>), after>>
          [] word.op = "<"  ->
                <<Before(<<>>), IF partial THEN Before(nums) ELSE low>>
          [] word.op = "~"  ->
                <<low, Before(Bumped(nums, IF Len(nums) = 1 THEN 1 ELSE 2))>>
          [] word.op = "^"  -> <<low, Before(Bumped(nums, CaretPlace(nums)))>>

KeyLess(a, b) == LexLess(a \o <<-1>>, b \o <<-1>>)
NpmMatches(declaration, v) ==
    LET words == Joined(declaration.segments[1])
    IN  /\ \A i \in DOMAIN words :
              /\ ~KeyLess(Key(v), NpmInterval(words[i])[1])
              /\ KeyLess(Key(v), NpmInterval(words[i])[2])
        /\ v.pre # 0 =>
              \E i \in DOMAIN words :
                  words[i].body.parts = v.nums /\ words[i].body.pre # 0

(* Beside a word with a prerelease, the words that stand for the same      *)
(* prereleases in both grammars; the semver crate admits 1.0.0-rc to "^1"  *)
(* then, and no 1.1.0-rc to "~1".                                          *)
KeepsPrereleases(word) == IsFull(word.body) \/ word.op \in {">", ">="}
Lossless(declaration) ==
    LET words == Joined(declaration.segments[1])
    IN  \/ \A i \in DOMAIN words : words[i].body.pre = 0
        \/ \A i \in DOMAIN words : KeepsPrereleases(words[i])

(* A project that depends on an npm package through Zed gets the version   *)
(* that npm itself would give it, whatever the order in which the registry *)
(* lists the versions: the highest that node-semver accepts                *)
(* (native_dependency.rs, translate_npm_requirement and resolve).          *)
ResolvesAsNpm ==
    (answer # Absent /\ ecosystem = "npm" /\ answer.lock # Refused) =>
        LET version == answer.lock.version
        IN  Lossless(answer.declared) =>
                /\ NpmMatches(answer.declared, version)
                /\ \A c \in answer.offered :
                      NpmMatches(answer.declared, c.version) =>
                          ~Older(version, c.version)

(* As the documentation has it (native_dependency.rs line 37), what is     *)
(* translated is the lossless subset: npm would install what is locked.    *)
LocksWhatNpmAdmits ==
    (answer # Absent /\ ecosystem = "npm" /\ answer.lock # Refused) =>
        NpmMatches(answer.declared, answer.lock.version)

(* What is restored is a version that the declaration in the lock file     *)
(* allows, also after somebody edited the declaration only                 *)
(* (NativeDependencyLock::validate recomputes the translation).            *)
RestoresWhatIsDeclared ==
    restored # Absent =>
        /\ Matches(Translate(ecosystem, restored.declared), restored.version)
        /\ ecosystem = "npm" /\ Lossless(restored.declared) =>
              NpmMatches(restored.declared, restored.version)

(* Every platform of a family gets the package that was built for it, at   *)
(* the version of the package that selected it                             *)
(* (NativeRegistryAdapterRecord::validate).                                *)
InstalledFitsPlatform ==
    (installed # Absent) =>
        installed.platform = installed.publication.platform

(* Two builders that write the same family for one registry, in whatever   *)
(* order, get the same bytes: their records differ only when a publication *)
(* does (NativeRegistryAdapterRecord::normalized).                         *)
Parts(record) ==
    {[p EXCEPT !.selections = ToSet(@)] : p \in ToSet(record.publications)}
FamilyHasOneRecord ==
    (records # Absent) =>
        \A r, s \in records :
            r.registry = s.registry /\ Parts(r) = Parts(s) => r = s

=============================================================================
