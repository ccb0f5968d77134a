-------------------------- MODULE EnvironmentLock --------------------------
(***************************************************************************)
(* EnvironmentLock (src/rust/environment_lock.rs): the exact versions,     *)
(* sources and files chosen for the tools of an environment plan, when a   *)
(* lock is valid, and the normalized form that is written and hashed.      *)
(*                                                                         *)
(* A digest is what it is a digest of, the case of its digits, and whether *)
(* all of them are there.  A path is the file it means and the slash it is *)
(* written with.  A command is its portable key (portable_executable_key)  *)
(* and its spelling.  `sound` stands for the checks of texts, platforms,   *)
(* signatures, extensions and install paths, which concern one value each. *)
(***************************************************************************)
EXTENDS Arrangements, SequencesExt

CONSTANTS
    Floating,       \* the versions and revisions looks_floating accepts
    NoRevision,     \* the absence of a revision
    OutsidePaths    \* files a relative path must not mean

Directory == "directory"

(* The absence of a tree digest. *)
NoDigest == [of |-> "nothing"]

Sha256(value) == [of |-> value, upper |-> FALSE, whole |-> TRUE]

ValidSha256(digest) == digest.whole

(* make_ascii_lowercase *)
Lower(digest) ==
    [of |-> digest.of, upper |-> FALSE, whole |-> digest.whole]

-----------------------------------------------------------------------------
(* The types of the values of a lock. *)
IsDigest(digest) ==
    /\ digest = [of |-> digest.of, upper |-> digest.upper,
                 whole |-> digest.whole]
    /\ digest.whole \in BOOLEAN

IsLockPath(path) == path = [file |-> path.file, backslash |-> path.backslash]

IsLockedSource(source) ==
    /\ source = [kind |-> source.kind, locator |-> source.locator,
                 revision |-> source.revision, immutable |-> source.immutable,
                 tree |-> source.tree, portable |-> source.portable]
    /\ IsLockPath(source.locator)
    /\ source.tree = NoDigest \/ IsDigest(source.tree)

IsArtifact(artifact) ==
    /\ artifact = [sha256 |-> artifact.sha256, format |-> artifact.format,
                   mirrors |-> artifact.mirrors]
    /\ IsDigest(artifact.sha256) /\ IsList(artifact.mirrors)

IsExecutable(executable) ==
    /\ executable = [name |-> executable.name, path |-> executable.path,
                     aliases |-> executable.aliases]
    /\ IsLockPath(executable.path) /\ IsList(executable.aliases)

IsVariant(variant) ==
    /\ variant = [resolved |-> variant.resolved, target |-> variant.target,
                  sound |-> variant.sound, source |-> variant.source,
                  artifact |-> variant.artifact, install |-> variant.install]
    /\ IsLockedSource(variant.source) /\ IsArtifact(variant.artifact)
    /\ IsList(variant.install)
    /\ \A i \in 1..Len(variant.install) : IsExecutable(variant.install[i])

IsResolution(tools) ==
    /\ IsMap(tools)
    /\ \A tool \in DOMAIN tools :
          /\ IsList(tools[tool])
          /\ \A i \in 1..Len(tools[tool]) : IsVariant(tools[tool][i])

-----------------------------------------------------------------------------
(* Mutant: a lock is good for every plan. *)
NamesAny(lock, digest) == ValidSha256(digest)

(* verify_plan_digest *)
VerifyPlanDigest(lock, digest) ==
    ValidSha256(digest) /\ Lower(lock.plan) = Lower(digest)

(* LockedSource::validate: what identifies the content, by kind. *)
Exact(source, artifact) ==
    CASE source.kind \in {"registry", "vcs", "other"} ->
            /\ source.revision \notin Floating \cup {NoRevision}
            /\ source.immutable
      [] source.kind = "http" -> ValidSha256(artifact.sha256)
      [] source.kind = "oci"  -> source.revision = "sha256"
      [] source.kind = "path" -> /\ source.locator.file \notin OutsidePaths
                                 /\ source.tree # NoDigest

ValidSource(source, artifact, mode) ==
    /\ source.tree # NoDigest => ValidSha256(source.tree)
    /\ Exact(source, artifact)
    /\ source.kind = "path" <=> artifact.format = Directory
    /\ source.kind # "path" => source.tree = NoDigest
    /\ source.kind = "path" /\ mode = "portable" => source.portable
    /\ source.portable => source.kind = "path"

(* The places of the commands an install adds: an executable's name, then  *)
(* its aliases.                                                            *)
Commands(install) ==
    UNION {{<<i, n>> : n \in 0..Len(install[i].aliases)} :
              i \in 1..Len(install)}
CommandAt(install, place) ==
    IF place[2] = 0 THEN install[place[1]].name
    ELSE install[place[1]].aliases[place[2]]

(* LockedInstall::validate: names that Windows takes for one collide. *)
ValidInstall(install) ==
    \A p, q \in Commands(install) :
        CommandAt(install, p).key = CommandAt(install, q).key => p = q

(* LockedTool::validate *)
ValidVariant(variant, mode) ==
    /\ variant.sound
    /\ variant.resolved \notin Floating
    /\ ValidSha256(variant.artifact.sha256)
    /\ ValidSource(variant.source, variant.artifact, mode)
    /\ ValidInstall(variant.install)

(* variant_identity, with the locator as it is spelled. *)
Identity(variant) ==
    <<variant.resolved, variant.target, variant.source.locator>>

(* EnvironmentLock::validate *)
ValidLock(lock, mode) ==
    /\ ValidSha256(lock.plan)
    /\ \A tool \in DOMAIN lock.tools :
          LET variants == lock.tools[tool]
          IN  /\ variants # <<>>
              /\ \A i \in 1..Len(variants) : ValidVariant(variants[i], mode)
              /\ \A i, j \in 1..Len(variants) :
                    Identity(variants[i]) = Identity(variants[j]) => i = j

-----------------------------------------------------------------------------
(* portable_path *)
PortablePath(path) == [file |-> path.file, backslash |-> FALSE]

(* LockedInstall::normalize *)
NormalizedExecutable(executable) ==
    [name |-> executable.name, path |-> PortablePath(executable.path),
     aliases |-> SetToSeq(ToSet(executable.aliases))]
NormalizedInstall(install) ==
    SetToSeq({NormalizedExecutable(executable) :
                 executable \in ToSet(install)})

(* LockedSource::normalize *)
NormalizedSource(source) ==
    [kind |-> source.kind, revision |-> source.revision,
     immutable |-> source.immutable, portable |-> source.portable,
     tree |-> IF source.tree = NoDigest THEN NoDigest ELSE Lower(source.tree),
     locator |-> IF source.kind = "path" THEN PortablePath(source.locator)
                 ELSE source.locator]

(* LockedArtifact::normalize *)
NormalizedArtifact(artifact) ==
    [sha256 |-> Lower(artifact.sha256), format |-> artifact.format,
     mirrors |-> SetToSeq(ToSet(artifact.mirrors))]

(* LockedTool::normalize *)
NormalizedVariant(variant) ==
    [resolved |-> variant.resolved, target |-> variant.target,
     sound |-> variant.sound, source |-> NormalizedSource(variant.source),
     artifact |-> NormalizedArtifact(variant.artifact),
     install |-> NormalizedInstall(variant.install)]

(* Mutant: variants are keyed by their target. *)
OneVariantPerTarget(variants) ==
    SetToSeq({variants[CHOOSE i \in 1..Len(variants) :
                           variants[i].target = target] :
                 target \in {variant.target : variant \in ToSet(variants)}})

(* stable_key: where a variant stands in one fixed order of all of them. *)
StableKey(variants, variant) ==
    CHOOSE n \in 1..Len(SetToSeq(ToSet(variants))) :
        SetToSeq(ToSet(variants))[n] = variant

(* sort_by_cached_key(stable_key): nothing is dropped. *)
ByVariant(variants) ==
    {pair \in (1..Len(variants)) \X (1..Len(variants)) :
        LET key == StableKey(variants, variants[pair[1]])
            other == StableKey(variants, variants[pair[2]])
        IN  key < other \/ (key = other /\ pair[1] < pair[2])}

SortedVariants(variants) ==
    Arranged(variants, 1..Len(variants), ByVariant(variants))

(* Mutant: the variants stay in the order they were resolved in. *)
NormalizedLockUnsorted(lock) ==
    [plan |-> Lower(lock.plan),
     tools |-> [tool \in DOMAIN lock.tools |->
         [i \in 1..Len(lock.tools[tool]) |->
             NormalizedVariant(lock.tools[tool][i])]]]

(* EnvironmentLock::normalized *)
NormalizedLock(lock) ==
    [plan |-> Lower(lock.plan),
     tools |-> [tool \in DOMAIN lock.tools |->
         SortedVariants([i \in 1..Len(lock.tools[tool]) |->
             NormalizedVariant(lock.tools[tool][i])])]]

(* Mutant: the variants for every target. *)
VariantsForEveryTarget(lock, tool, target) ==
    IF tool \in DOMAIN lock.tools THEN lock.tools[tool] ELSE <<>>

(* variants_for_target *)
VariantsForTarget(lock, tool, target) ==
    IF tool \notin DOMAIN lock.tools THEN <<>>
    ELSE LET variants == lock.tools[tool]
         IN  Arranged(variants,
                      {i \in 1..Len(variants) : variants[i].target = target},
                      ByPosition(variants))
=============================================================================
