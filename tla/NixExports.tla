----------------------------- MODULE NixExports -----------------------------
(***************************************************************************)
(* Exports to Nix and imports from there.  Planners write plans; builders  *)
(* realize outputs, some of them again; a sealer gathers evidence as it    *)
(* arrives, in any order and perhaps twice, and seals a record of it for a *)
(* plan; importers make Zed packages of what was built.  They are all      *)
(* external; the rules that what they write must meet come first.          *)
(*                                                                         *)
(* Export plans (src/rust/nix_plan.rs) and the records of finished         *)
(* translations between Zed and Nix (src/rust/nix.rs).                     *)
(*                                                                         *)
(* A digest, URL, revision or token that its check refuses is Malformed.   *)
(* A word is a Nix system, output or attribute, or a store path; NixOrder  *)
(* lists them all in the order of strings.  An organization, a name or a   *)
(* version is a sequence of pieces with the separators among them.  A path *)
(* is the sequence of what is between its slashes, and each of its parts   *)
(* the sequence of what is between its backslashes.                        *)
(***************************************************************************)
EXTENDS Absence, Arrangements, SequencesExt

CONSTANTS
    NixOrder,                      \* every word, in order
    NixSystems, NixNames, StorePaths, SlugPieces

Sound(texts) == Malformed \notin texts

Place(word) == CHOOSE i \in DOMAIN NixOrder : NixOrder[i] = word
Sorted(words) == SortedBy(words, LAMBDA v, w : Place(v) < Place(w))

-----------------------------------------------------------------------------
(* Names. *)
IsSlug(text) ==
    /\ text # <<>>
    /\ ToSet(text) \subseteq SlugPieces \union {"-"}
    /\ "-" \notin {text[1], text[Len(text)]}

ValidPackage(package) ==
    /\ IsSlug(package.org) /\ IsSlug(package.name)
    /\ package.version # <<>> /\ " " \notin ToSet(package.version)
    /\ package.target # Absent => IsSlug(package.target)

ValidNixArtifact(artifact) == Sound({artifact.sha256}) /\ artifact.size > 0

IsSafeBasename(text) ==
    /\ text # <<>> /\ text[1] # "."
    /\ ToSet(text) \intersect {"/", " "} = {}

(* Mutant: only what leads upwards is refused. *)
IsSafePathUnlessUp(path) ==
    path # <<>> /\ \A i \in DOMAIN path : path[i] # <<"..">>

IsSafePath(path) ==
    /\ path # <<>>
    /\ \A i \in DOMAIN path :
          Len(path[i]) = 1 /\ path[i][1] \notin {"", ".", "..", Malformed}

-----------------------------------------------------------------------------
(* What is to be exported: an attribute, systems and outputs.  An          *)
(* identifier begins with a word of NixNames, none of which begins with a  *)
(* digit.                                                                  *)
Attribute(intent, name) ==
    IF intent.attribute = Absent THEN name ELSE intent.attribute
IsIdentifier(attribute) ==
    /\ attribute # <<>> /\ attribute[1] \in NixNames
    /\ Sound(ToSet(attribute))
ValidIntent(intent, name) ==
    /\ IsIdentifier(Attribute(intent, name))
    /\ Attribute(intent, name) # <<"default">>
    /\ intent.systems # <<>> /\ IsInjective(intent.systems)
    /\ intent.outputs # <<>> /\ IsInjective(intent.outputs)
    /\ ToSet(intent.systems) \subseteq NixSystems
    /\ ToSet(intent.outputs) \subseteq NixNames
NormalizedIntent(intent) ==
    [intent EXCEPT !.systems = Sorted(@), !.outputs = Sorted(@)]

(* Only one strict policy exists; a development policy publishes nothing. *)
StrictPolicy ==
    [profile |-> "strict-v1", pure |-> TRUE, import_from_derivation |-> FALSE,
     sandbox |-> TRUE, network |-> "disabled", dirty |-> FALSE,
     publishable |-> TRUE]
ValidPolicy(policy) ==
    IF policy.profile = "strict-v1" THEN policy = StrictPolicy
    ELSE ~policy.publishable

-----------------------------------------------------------------------------
(* Plans.  A plan's intent has its attribute, and is sorted. *)
SortedAndUnique(words) == IsInjective(words) /\ words = Sorted(words)
ValidResolvedIntent(intent, name) ==
    /\ intent.attribute # Absent
    /\ ValidIntent(intent, name)
    /\ SortedAndUnique(intent.systems)
    /\ SortedAndUnique(intent.outputs)

FileName(package, format) ==
    package.org \o <<"-">> \o package.name \o <<"-">> \o package.version
    \o <<".", format>>
ValidSource(source, package) ==
    /\ ValidNixArtifact(source.artifact)
    /\ Sound({source.manifest, source.lock})
    /\ source.file_name = FileName(package, source.artifact.format)
    /\ IsSafeBasename(source.file_name)

(* Bins map commands to paths. *)
IsBinName(name) == name # Malformed
ValidBins(class, bins) ==
    /\ class = "data" <=> DOMAIN bins = {}
    /\ \A name \in DOMAIN bins : IsBinName(name) /\ IsSafePath(bins[name])

(* A dependency is checked and sorted before it is refused, as all are. *)
ValidPlan(plan) ==
    /\ plan.schema = "zed.nix-export-plan/v1"
    /\ ValidPackage(plan.package)
    /\ ValidResolvedIntent(plan.intent, plan.package.name)
    /\ ValidSource(plan.source, plan.package)
    /\ ValidPolicy(plan.policy) /\ plan.policy.profile = "strict-v1"
    /\ ValidBins(plan.class, plan.bins)
    /\ plan.dependencies = <<>>

NormalizedPlan(plan) == [plan EXCEPT !.intent = NormalizedIntent(@)]

(* Mutant: the outputs stay as they are. *)
PlanBytesUnsorted(plan) ==
    LET canonical == [plan EXCEPT !.intent.systems = Sorted(@)]
    IN  IF ValidPlan(NormalizedPlan(plan)) THEN canonical ELSE Refused

(* canonical_json_bytes: normalized, then validated. *)
PlanBytes(plan) ==
    LET canonical == NormalizedPlan(plan)
    IN  IF ValidPlan(canonical) THEN canonical ELSE Refused

-----------------------------------------------------------------------------
(* What Nix built. *)
ValidStoreReference(reference) ==
    reference.store_path \in StorePaths /\ Sound({reference.nar})

ValidOutput(o) ==
    /\ o.system \in NixSystems /\ o.output \in NixNames
    /\ o.store_path \in StorePaths
    /\ Sound({o.derivation, o.nar, o.nix_version} \union ToSet(o.signatures))
    /\ \A i \in DOMAIN o.references : ValidStoreReference(o.references[i])
    /\ IsInjective([i \in DOMAIN o.references |-> o.references[i].store_path])
    /\ IsInjective(o.signatures)
    /\ o.info_version \in 1..3

NormalizedOutput(o) ==
    [o EXCEPT
       !.references = SortedBy(@, LAMBDA r, s : Place(r.store_path)
                                                < Place(s.store_path)),
       !.signatures = Sorted(@)]

(* By system, output and store path. *)
OutputKey(o) == <<Place(o.system), Place(o.output), Place(o.store_path)>>
OutputBefore(o, p) ==
    \E i \in 1..3 :
        /\ OutputKey(o)[i] < OutputKey(p)[i]
        /\ \A j \in 1..(i - 1) : OutputKey(o)[j] = OutputKey(p)[j]

(* A locked reference is the set of what is found in its text: a store     *)
(* path, a NAR hash, a revision or any other hexadecimal word of that      *)
(* length, or a blank.                                                     *)
IsImmutableRef(marks) ==
    /\ "blank" \notin marks
    /\ marks \intersect {"store path", "nar hash", "revision", "hex"} # {}

ValidZedOrigin(origin) ==
    /\ Sound({origin.registry, origin.tag, origin.commit, origin.lock})
    /\ ValidNixArtifact(origin.artifact)

ValidNixOrigin(origin) ==
    /\ IsImmutableRef(origin.locked_ref)
    /\ Sound({origin.flake_lock})
    /\ origin.attribute # <<>>
    /\ \A i \in DOMAIN origin.attribute : IsIdentifier(origin.attribute[i])
    /\ ValidOutput(origin.realized)

-----------------------------------------------------------------------------
(* Records, in either direction. *)
Pair(o) == <<o.system, o.output>>

(* Mutant: a pair that was built again is met with the store path it has. *)
CoversIntentWithRepeats(intent, outputs) ==
    /\ outputs # <<>>
    /\ \A i \in DOMAIN outputs :
          /\ outputs[i].system \in ToSet(intent.systems)
          /\ outputs[i].output \in ToSet(intent.outputs)
    /\ ToSet(intent.systems) = {outputs[i].system : i \in DOMAIN outputs}

(* Each output is of a system and output of the intent, none is there      *)
(* twice, and each system has one.                                         *)
CoversIntent(intent, outputs) ==
    /\ outputs # <<>>
    /\ \A i \in DOMAIN outputs :
          /\ outputs[i].system \in ToSet(intent.systems)
          /\ outputs[i].output \in ToSet(intent.outputs)
    /\ IsInjective([i \in DOMAIN outputs |-> Pair(outputs[i])])
    /\ ToSet(intent.systems) = {outputs[i].system : i \in DOMAIN outputs}

ValidZedToNix(r) ==
    /\ ValidZedOrigin(r.source)
    /\ ValidIntent(r.intent, r.package.name)
    /\ Sound({r.bundle})
    /\ \A i \in DOMAIN r.outputs : ValidOutput(r.outputs[i])
    /\ CoversIntent(r.intent, r.outputs)

(* Mutant: an import may have references. *)
ValidNixToZedOpen(r) == ValidNixOrigin(r.source) /\ ValidNixArtifact(r.artifact)

ValidNixToZed(r) ==
    /\ ValidNixOrigin(r.source)
    /\ ValidNixArtifact(r.artifact)
    /\ r.source.realized.references = <<>>

ValidNixRecord(r) ==
    /\ r.schema = "zed.nix-adapter/v1"
    /\ ValidPackage(r.package)
    /\ ValidPolicy(r.policy)
    /\ IF r.direction = "zed-to-nix" THEN ValidZedToNix(r)
       ELSE ValidNixToZed(r)

(* Mutant: outputs are sorted, and what they list is not. *)
NormalizedOutside(r) ==
    IF r.direction = "zed-to-nix"
    THEN [r EXCEPT !.intent = NormalizedIntent(@),
                   !.outputs = SortedBy(@, OutputBefore)]
    ELSE r

NormalizedRecord(r) ==
    IF r.direction = "zed-to-nix"
    THEN [r EXCEPT
            !.intent = NormalizedIntent(@),
            !.outputs = SortedBy([i \in DOMAIN @ |-> NormalizedOutput(@[i])],
                                 OutputBefore)]
    ELSE [r EXCEPT !.source.realized = NormalizedOutput(@)]

(* canonical_json_bytes: validated, then normalized.  Keys are sorted too, *)
(* and a record has no others.                                             *)
RecordBytes(r) == IF ValidNixRecord(r) THEN NormalizedRecord(r) ELSE Refused

-----------------------------------------------------------------------------
CONSTANTS
    Drafts,        \* plans as planners may write them
    Results,       \* outputs as builders may report them
    MaxRealized,   \* how many outputs are reported
    MaxGathered    \* how many a sealer gathers

VARIABLES
    drafted,       \* the canonical bytes of accepted plans
    realized,      \* what builders reported
    gathered,      \* what the sealer has, in the order of its arrival
    sealed,        \* records: the plan of each and its bytes
    imported       \* the canonical bytes of imports

nixVars == <<drafted, realized, gathered, sealed, imported>>

NixInit ==
    /\ drafted = {} /\ realized = {} /\ gathered = <<>>
    /\ sealed = {} /\ imported = {}
NoNix ==
    /\ drafted = Absent /\ realized = Absent /\ gathered = Absent
    /\ sealed = Absent /\ imported = Absent

Draft(plan) ==
    /\ Cardinality(drafted) < 2
    /\ PlanBytes(plan) # Refused
    /\ drafted' = drafted \union {PlanBytes(plan)}
    /\ UNCHANGED <<realized, gathered, sealed, imported>>

Realize(result) ==
    /\ drafted # {}
    /\ Cardinality(realized) < MaxRealized
    /\ realized' = realized \union {result}
    /\ realized' # realized
    /\ UNCHANGED <<drafted, gathered, sealed, imported>>

Gather(result) ==
    /\ Len(gathered) < MaxGathered
    /\ gathered' = Append(gathered, result)
    /\ UNCHANGED <<drafted, realized, sealed, imported>>

Discard ==
    /\ gathered # <<>>
    /\ gathered' = <<>>
    /\ UNCHANGED <<drafted, realized, sealed, imported>>

(* The record of a plan, with its systems in the order of the manifest. *)
RecordFor(plan, systems) ==
    [direction |-> "zed-to-nix", schema |-> "zed.nix-adapter/v1",
     package |-> plan.package,
     source |-> [registry |-> "registry", artifact |-> plan.source.artifact,
                 tag |-> "tag", commit |-> "commit",
                 lock |-> plan.source.lock],
     intent |-> [plan.intent EXCEPT !.systems = systems],
     bundle |-> "bundle", outputs |-> gathered, policy |-> plan.policy]

Seal(plan) ==
    /\ Cardinality(sealed) < 2
    /\ \E systems \in SetToSeqs(ToSet(plan.intent.systems)) :
          LET bytes == RecordBytes(RecordFor(plan, systems))
          IN  /\ bytes # Refused
              /\ sealed' = sealed \union {[plan |-> plan, bytes |-> bytes]}
    /\ gathered' = <<>>
    /\ UNCHANGED <<drafted, realized, imported>>

(* The importer chooses the identity of the package. *)
ImportOf(result, package) ==
    [direction |-> "nix-to-zed", schema |-> "zed.nix-adapter/v1",
     package |-> package,
     source |-> [locked_ref |-> {"revision"}, flake_lock |-> "flake lock",
                 attribute |-> <<<<"packages">>, <<result.system>>,
                                 <<"tool">>>>,
                 realized |-> result],
     artifact |-> [format |-> "tar.gz", sha256 |-> "translated", size |-> 1],
     policy |-> StrictPolicy]

Import(result) ==
    /\ imported = {}
    /\ \E plan \in drafted :
          LET bytes == RecordBytes(ImportOf(result, plan.package))
          IN  bytes # Refused /\ imported' = {bytes}
    /\ UNCHANGED <<drafted, realized, gathered, sealed>>

NixNext ==
    \/ \E plan \in Drafts : Draft(plan)
    \/ \E result \in Results : Realize(result)
    \/ \E result \in realized : Gather(result) \/ Import(result)
    \/ \E plan \in drafted : Seal(plan)
    \/ Discard

NixSpec == NixInit /\ [][NixNext]_nixVars

-----------------------------------------------------------------------------
(* What a plan or an output means, without the order of its lists. *)
IntentMeaning(intent) ==
    [intent EXCEPT !.systems = ToSet(@), !.outputs = ToSet(@)]
PlanMeaning(plan) == [plan EXCEPT !.intent = IntentMeaning(@)]
OutputMeaning(o) ==
    [o EXCEPT !.references = ToSet(@), !.signatures = ToSet(@)]
RecordMeaning(r) ==
    [r EXCEPT !.intent = IntentMeaning(@),
              !.outputs = {OutputMeaning(@[i]) : i \in DOMAIN @}]

(* Plans that mean the same have the same bytes, in whatever order their   *)
(* systems and outputs were written (nix_plan.rs,                          *)
(* NixExportPlan::canonical_json_bytes).                                   *)
PlansAgree ==
    (drafted # Absent) =>
        \A p, q \in drafted : PlanMeaning(p) = PlanMeaning(q) => p = q

(* Records of the same evidence have the same bytes, in whatever order it  *)
(* arrived and whatever order builders gave its references and signatures  *)
(* (nix.rs, NixAdapterRecord::canonical_json_bytes).                       *)
SealersAgree ==
    (sealed # Absent) =>
        \A r, s \in sealed :
            RecordMeaning(r.bytes) = RecordMeaning(s.bytes)
                => r.bytes = s.bytes

(* A sealed record has evidence for every system that its plan announced,  *)
(* one for each system and output, and all of it was reported by a builder *)
(* (nix.rs, NixAdapterRecord::validate).                                   *)
SealedAsAnnounced ==
    (sealed # Absent) =>
        \A r \in sealed :
            LET outputs == ToSet(r.bytes.outputs)
            IN  /\ \A system \in ToSet(r.plan.intent.systems) :
                      \E o \in outputs : o.system = system
                /\ \A o, p \in outputs : Pair(o) = Pair(p) => o = p
                /\ Len(r.bytes.outputs) = Cardinality(outputs)
                /\ \A o \in outputs : \E result \in realized :
                      OutputMeaning(o) = OutputMeaning(result)

(* The walk along the segments of a path, from the root of the artifact;   *)
(* where it leaves the artifact it is Refused.                             *)
Moved(at, segment) ==
    IF at = Refused \/ (segment = ".." /\ at = <<>>) THEN Refused
    ELSE IF segment = ".." THEN Front(at)
    ELSE IF segment \in {"", "."} THEN at
    ELSE Append(at, segment)
Walk(segments) ==
    LET at[i \in 0..Len(segments)] ==
          IF i = 0 THEN <<>> ELSE Moved(at[i - 1], segments[i])
    IN  at[Len(segments)]

(* A command of an exported package is one file inside its artifact, the   *)
(* same where the backslash is a separator and where it is not, and two    *)
(* paths are never two spellings of a file (nix_plan.rs,                   *)
(* is_safe_relative_path).                                                 *)
CommandsStayInside ==
    (drafted # Absent) =>
        \A plan \in drafted : \A c, d \in DOMAIN plan.bins :
            LET split == FlattenSeq(plan.bins[c])
                other == FlattenSeq(plan.bins[d])
            IN  /\ Walk(split) \notin {Refused, <<>>}
                /\ Len(Walk(split)) = Len(plan.bins[c])
                /\ Walk(split) = Walk(other) => plan.bins[c] = plan.bins[d]

(* What is imported runs without a Nix store: no builder reported that its *)
(* store path refers to another, or to itself (nix.rs,                     *)
(* NixAdapterRecord::validate, contract v1).                               *)
ImportsStandAlone ==
    (imported # Absent) =>
        \A r \in imported : \A result \in realized :
            result.store_path = r.source.realized.store_path
                => result.references = <<>>

(* What a plan or a record says holds on the machine that goes by it.      *)
TranslationsHold ==
    SealedAsAnnounced /\ CommandsStayInside /\ ImportsStandAlone

=============================================================================
