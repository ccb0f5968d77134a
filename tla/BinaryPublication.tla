--------------------------- MODULE BinaryPublication ---------------------------
(***************************************************************************)
(* Binary artifacts, version 1, between publishers, the registry and       *)
(* installers.  The documents and their rules, which come first, are those *)
(* of src/rust/binary_artifact.rs: the descriptor in the archive, the      *)
(* registry's metadata of one artifact, the list of a release's artifacts, *)
(* what a publisher sends, and the record a client locks.  The registry    *)
(* and the clients are programs outside this repository and do here what   *)
(* docs/binary-artifacts-v1.md lines 92-130 ask of them with those rules.  *)
(* A request or its answer may be lost, and the publisher then sends the   *)
(* same request again.                                                     *)
(*                                                                         *)
(* A text that its validator refuses is Malformed; an optional field that  *)
(* is left out is Absent.  A path is <<name, case>>: two paths with one    *)
(* name differ in the case of their letters only.  A digest is the value   *)
(* digested, so it names one document.                                     *)
(***************************************************************************)
EXTENDS Absence, Arrangements, SequencesExt

CONSTANTS
    MaxSize,            \* the largest u64
    TargetOrder,        \* the targets, in the order of their bytes
    Publishers, Installers,
    Uploads,            \* the requests: [meta, archive]
    MaxLosses           \* bound: requests and answers that are lost

Answers == {"stored", "already_stored", "conflict", "refused"}

(* A payload is a list of files, and a target that is well-formed has its  *)
(* place among the targets.  What validators refuse is no text of the      *)
(* registry's own.                                                         *)
ASSUME BinaryAssumption ==
    /\ Absent \notin Answers
    /\ Malformed \notin {"url", "time"}
    /\ DOMAIN TargetOrder = 1..Len(TargetOrder) /\ Len(TargetOrder) \in Nat
    /\ \A i, j \in DOMAIN TargetOrder : TargetOrder[i] = TargetOrder[j] => i = j
    /\ \A u \in Uploads :
          /\ u.meta.platform.target \in ToSet(TargetOrder) \union {Malformed}
          /\ DOMAIN u.archive.payload = 1..Len(u.archive.payload)
          /\ Len(u.archive.payload) \in Nat
    /\ MaxLosses \in Nat

WellFormed(texts) == Malformed \notin texts
Digest(document) == <<"sha256", document>>

-----------------------------------------------------------------------------
(* Identity and platform. *)
ValidIdentity(identity) ==
    WellFormed({identity.org, identity.name, identity.version})

(* attributes stands for os, arch, libc and abi. *)
ValidPlatform(platform) ==
    WellFormed({platform.target, platform.attributes})

ValidSource(source) ==
    source # Absent =>
        WellFormed({source.repository, source.tag, source.commit})

(* The version grammar of a path, its bytes' order, and the key under      *)
(* which a case-insensitive file system stores it.                         *)
Descriptor == <<".zpkg-binary.json", "lower">>
PackageManifest == <<".zpkg.toml", "lower">>
PathOrder ==
    <<<<".zpkg-binary.json", "upper">>, Descriptor, PackageManifest,
      <<"bin/tool", "upper">>, <<"bin/tool", "lower">>,
      <<"bin/tool/data", "lower">>, <<"lib/tool", "lower">>>>
SafePath(path) == path \in ToSet(PathOrder)
PathRank(path) == CHOOSE i \in DOMAIN PathOrder : PathOrder[i] = path
PortablePathKey(path) == path[1]

(* A file whose place is below that of another, which would have to be a   *)
(* directory.  No rule of a descriptor looks for such a pair, and no       *)
(* program can extract it.                                                 *)
LiesUnder(path, other) ==
    <<PortablePathKey(path), PortablePathKey(other)>>
        = <<"bin/tool/data", "bin/tool">>
Unpacks(files) ==
    \A f, g \in ToSet(files) : ~LiesUnder(f.path, g.path)

ValidFile(file) ==
    /\ SafePath(file.path)
    /\ file.path # Descriptor
    /\ file.sha256 # Malformed

-----------------------------------------------------------------------------
(* Evidence about an archive. *)
KindOrder == <<"signature", "attestation", "provenance", "sbom">>
ValidAttachment(attachment, subject) ==
    /\ attachment.kind \in ToSet(KindOrder)
    /\ attachment.size > 0
    /\ attachment.subject = subject
    /\ WellFormed({attachment.sha256, attachment.url})

Before(a, b) ==
    \E i, j \in DOMAIN KindOrder :
        KindOrder[i] = a.kind /\ KindOrder[j] = b.kind /\ i < j

(* Strictly by kind (one media type and digest for each kind here). *)
ValidAttachments(attachments, subject) ==
    \A i \in DOMAIN attachments :
        /\ ValidAttachment(attachments[i], subject)
        /\ i > 1 => Before(attachments[i - 1], attachments[i])

-----------------------------------------------------------------------------
(* The descriptor.  files is a sequence of [path, sha256, size,            *)
(* executable]; entrypoints and a manifest's bin are sets of               *)
(* [command, path] in which a command occurs once, a command being         *)
(* <<name, case>>.                                                         *)
CheckedAdd(a, b) ==
    IF a = Absent \/ b = Absent \/ a + b > MaxSize THEN Absent ELSE a + b
TotalSize(files) ==
    FoldLeft(LAMBDA total, file : CheckedAdd(total, file.size), 0, files)

(* The same list, checked for exact repetitions only. *)
ValidFilesExactly(files) ==
    /\ files # <<>>
    /\ \A i \in DOMAIN files :
          /\ ValidFile(files[i])
          /\ i > 1 => PathRank(files[i - 1].path) < PathRank(files[i].path)
    /\ \E i \in DOMAIN files : files[i].path = PackageManifest

ValidFiles(files) ==
    /\ files # <<>>
    /\ \A i \in DOMAIN files :
          /\ ValidFile(files[i])
          /\ i > 1 => PathRank(files[i - 1].path) < PathRank(files[i].path)
          /\ \A j \in 1..(i - 1) :
                PortablePathKey(files[j].path) # PortablePathKey(files[i].path)
    /\ \E i \in DOMAIN files : files[i].path = PackageManifest
    /\ \A i \in DOMAIN files :
          files[i].path = PackageManifest => ~files[i].executable

ValidEntrypoints(entrypoints, files) ==
    /\ entrypoints # {}
    /\ \A e \in entrypoints :
          /\ e.command # Malformed
          /\ \A other \in entrypoints \ {e} : other.command[1] # e.command[1]
          /\ \E i \in DOMAIN files :
                files[i].path = e.path /\ files[i].executable

ValidDescriptor(descriptor) ==
    /\ ValidIdentity(descriptor.package)
    /\ ValidPlatform(descriptor.platform)
    /\ descriptor.packageManifest = PackageManifest
    /\ ValidFiles(descriptor.files)
    /\ TotalSize(descriptor.files) # Absent
    /\ descriptor.expandedSize = TotalSize(descriptor.files)
    /\ ValidEntrypoints(descriptor.entrypoints, descriptor.files)
    /\ ValidSource(descriptor.source)

(* A package manifest is [package, repository, bin]; the rest of           *)
(* Manifest::validate is in module Manifest.                               *)
ValidManifest(manifest) ==
    /\ ValidIdentity(manifest.package)
    /\ manifest.repository # Malformed

MatchesManifest(descriptor, manifest) ==
    /\ ValidDescriptor(descriptor)
    /\ ValidManifest(manifest)
    /\ descriptor.package = manifest.package
    /\ descriptor.entrypoints = manifest.bin

-----------------------------------------------------------------------------
(* The registry's record of one artifact, and the list of a release. *)
ValidMetadata(record) ==
    /\ ValidIdentity(record.package)
    /\ ValidPlatform(record.platform)
    /\ WellFormed({record.sha256, record.descriptorSha256, record.url,
                   record.publishedAt})
    /\ record.size > 0
    /\ ValidSource(record.source)
    /\ ValidAttachments(record.attachments, record.sha256)

ArtifactIdentity(record) ==
    [package |-> record.package, target |-> record.platform.target]

(* Targets are compared by their bytes. *)
TargetRank(target) == CHOOSE i \in DOMAIN TargetOrder : TargetOrder[i] = target

ValidList(list) ==
    /\ ValidIdentity(list.package)
    /\ \A i \in DOMAIN list.artifacts :
          /\ ValidMetadata(list.artifacts[i])
          /\ list.artifacts[i].package = list.package
          /\ i > 1 => TargetRank(list.artifacts[i - 1].platform.target)
                        < TargetRank(list.artifacts[i].platform.target)

-----------------------------------------------------------------------------
(* What a publisher sends beside the archive; then the same without a look *)
(* at the evidence.                                                        *)
ValidPublishMetaOfArchive(meta) ==
    /\ ValidManifest(meta.manifest)
    /\ ValidPlatform(meta.platform)
    /\ WellFormed({meta.sha256, meta.descriptorSha256, meta.tag})
    /\ meta.size > 0

ValidPublishMeta(meta) ==
    /\ ValidManifest(meta.manifest)
    /\ meta.manifest.bin # {}
    /\ ValidPlatform(meta.platform)
    /\ WellFormed({meta.sha256, meta.descriptorSha256, meta.tag,
                   meta.commit})
    /\ meta.size > 0
    /\ ValidAttachments(meta.attachments, meta.sha256)

PublishedSource(meta) ==
    [repository |-> meta.manifest.repository, tag |-> meta.tag,
     commit |-> meta.commit]

(* What a registry that compared the bytes only would call a repetition. *)
IsIdempotentWithBytes(meta, record) ==
    /\ ValidPublishMeta(meta)
    /\ ValidMetadata(record)
    /\ meta.manifest.package = record.package
    /\ meta.platform = record.platform
    /\ meta.sha256 = record.sha256

IsIdempotentWith(meta, record) ==
    /\ ValidPublishMeta(meta)
    /\ ValidMetadata(record)
    /\ meta.manifest.package = record.package
    /\ meta.platform = record.platform
    /\ meta.sha256 = record.sha256
    /\ meta.size = record.size
    /\ meta.descriptorSha256 = record.descriptorSha256
    /\ meta.attachments = record.attachments
    /\ record.source = PublishedSource(meta)

(* The record a client freezes. *)
ValidLock(lock) ==
    /\ ValidIdentity(lock.package)
    /\ ValidPlatform(lock.platform)
    /\ WellFormed({lock.sha256, lock.descriptorSha256, lock.registry,
                   lock.url})
    /\ lock.size > 0
    /\ ValidSource(lock.source)
    /\ ValidAttachments(lock.attachments, lock.sha256)

-----------------------------------------------------------------------------
VARIABLES
    records,            \* the registry's metadata, one per artifact
    blobs,              \* the archives it holds
    upload,             \* what each publisher publishes
    wire,               \* the exchange of each publisher with the registry
    outcome,            \* what each publisher was told
    losses,
    listing,            \* the last list each installer read
    lock,               \* what each installer froze
    installed           \* the archive each installer unpacked

binaryVars == <<records, blobs, upload, wire, outcome, losses, listing, lock,
                installed>>

BinaryInit ==
    /\ records = {} /\ blobs = {} /\ losses = 0
    /\ upload \in [Publishers -> Uploads]
    /\ wire = [p \in Publishers |-> "idle"]
    /\ outcome = [p \in Publishers |-> Absent]
    /\ listing = [c \in Installers |-> Absent]
    /\ lock = [c \in Installers |-> Absent]
    /\ installed = [c \in Installers |-> Absent]

-----------------------------------------------------------------------------
(* Publication. *)
Put(p) ==
    /\ wire[p] = "idle" /\ outcome[p] = Absent
    /\ wire' = [wire EXCEPT ![p] = "sent"]
    /\ UNCHANGED <<records, blobs, upload, outcome, losses, listing, lock,
                   installed>>

(* An archive is [manifest, descriptor, payload]. *)
VerifiedArchive(archive) ==
    /\ MatchesManifest(archive.descriptor, archive.manifest)
    /\ archive.descriptor.files = archive.payload

Acceptable(request) ==
    /\ ValidPublishMeta(request.meta)
    /\ request.meta.sha256 = Digest(request.archive)
    /\ request.meta.descriptorSha256 = Digest(request.archive.descriptor)
    /\ VerifiedArchive(request.archive)
    /\ request.meta.manifest = request.archive.manifest
    /\ request.meta.platform = request.archive.descriptor.platform

RecordOf(meta) ==
    [package |-> meta.manifest.package, platform |-> meta.platform,
     sha256 |-> meta.sha256, size |-> meta.size,
     descriptorSha256 |-> meta.descriptorSha256, url |-> "url",
     publishedAt |-> "time", yanked |-> FALSE,
     source |-> PublishedSource(meta), attachments |-> meta.attachments]

Stored(meta) ==
    {r \in records : ArtifactIdentity(r) = ArtifactIdentity(RecordOf(meta))}

VerdictOrWait(request) ==
    IF ~Acceptable(request) THEN "refused"
    ELSE IF Stored(request.meta) = {} THEN "stored" ELSE "sent"
Verdict(request) ==
    IF ~Acceptable(request) THEN "refused"
    ELSE IF Stored(request.meta) = {} THEN "stored"
    ELSE IF \A r \in Stored(request.meta) : IsIdempotentWith(request.meta, r)
    THEN "already_stored"
    ELSE "conflict"

Handle(p) ==
    /\ wire[p] = "sent"
    /\ wire' = [wire EXCEPT ![p] = Verdict(upload[p])]
    /\ IF Verdict(upload[p]) = "stored"
       THEN /\ records' = records \union {RecordOf(upload[p].meta)}
            /\ blobs' = blobs \union {upload[p].archive}
       ELSE UNCHANGED <<records, blobs>>
    /\ UNCHANGED <<upload, outcome, losses, listing, lock, installed>>

(* A request or an answer does not arrive; the publisher will try again. *)
Lose(p) ==
    /\ wire[p] # "idle" /\ losses < MaxLosses
    /\ wire' = [wire EXCEPT ![p] = "idle"]
    /\ losses' = losses + 1
    /\ UNCHANGED <<records, blobs, upload, outcome, listing, lock, installed>>

Hear(p) ==
    /\ wire[p] \in Answers
    /\ outcome' = [outcome EXCEPT ![p] = wire[p]]
    /\ wire' = [wire EXCEPT ![p] = "idle"]
    /\ UNCHANGED <<records, blobs, upload, losses, listing, lock, installed>>

(* Being yanked is not part of what was published. *)
Yank ==
    \E r \in records :
        /\ ~r.yanked
        /\ records' = (records \ {r}) \union {[r EXCEPT !.yanked = TRUE]}
        /\ UNCHANGED <<blobs, upload, wire, outcome, losses, listing, lock,
                       installed>>

-----------------------------------------------------------------------------
(* Installation: the list, the record that is frozen, the archive. *)
ByTarget(S) ==
    {pair \in S \X S : TargetRank(pair[1].platform.target)
                         < TargetRank(pair[2].platform.target)}
ReleaseList(package) ==
    LET ofIt == {r \in records : r.package = package}
    IN  [package |-> package, artifacts |-> InOrderOf(ofIt, ByTarget(ofIt))]

Read(c) ==
    /\ lock[c] = Absent
    /\ \E r \in records :
        listing' = [listing EXCEPT ![c] = ReleaseList(r.package)]
    /\ UNCHANGED <<records, blobs, upload, wire, outcome, losses, lock,
                   installed>>

LockOfArchive(r) ==
    [package |-> r.package, platform |-> r.platform, sha256 |-> r.sha256,
     size |-> r.size, descriptorSha256 |-> r.sha256,
     registry |-> "registry", url |-> r.url, source |-> r.source,
     attachments |-> r.attachments]
LockOf(r) ==
    [package |-> r.package, platform |-> r.platform, sha256 |-> r.sha256,
     size |-> r.size, descriptorSha256 |-> r.descriptorSha256,
     registry |-> "registry", url |-> r.url, source |-> r.source,
     attachments |-> r.attachments]

Freeze(c) ==
    /\ listing[c] # Absent /\ lock[c] = Absent
    /\ ValidList(listing[c])
    /\ \E i \in DOMAIN listing[c].artifacts :
        /\ ~listing[c].artifacts[i].yanked
        /\ ValidLock(LockOf(listing[c].artifacts[i]))
        /\ lock' = [lock EXCEPT ![c] = LockOf(listing[c].artifacts[i])]
    /\ UNCHANGED <<records, blobs, upload, wire, outcome, losses, listing,
                   installed>>

(* What cannot be extracted leaves nothing behind. *)
Install(c) ==
    /\ lock[c] # Absent /\ installed[c] = Absent
    /\ \E archive \in blobs :
        /\ Digest(archive) = lock[c].sha256
        /\ Digest(archive.descriptor) = lock[c].descriptorSha256
        /\ VerifiedArchive(archive)
        /\ Unpacks(archive.payload)
        /\ installed' = [installed EXCEPT ![c] = archive]
    /\ UNCHANGED <<records, blobs, upload, wire, outcome, losses, listing,
                   lock>>

BinaryNext ==
    \/ \E p \in Publishers : Put(p) \/ Handle(p) \/ Lose(p) \/ Hear(p)
    \/ Yank
    \/ \E c \in Installers : Read(c) \/ Freeze(c) \/ Install(c)

(* The publisher keeps trying and the registry keeps answering; an         *)
(* installer carries on with what it has locked.                           *)
Progress(p) == Put(p) \/ Handle(p) \/ Hear(p)
BinaryFairness ==
    /\ \A p \in Publishers : WF_binaryVars(Progress(p))
    /\ \A c \in Installers : WF_binaryVars(Install(c))

BinarySpec == BinaryInit /\ [][BinaryNext]_binaryVars /\ BinaryFairness

-----------------------------------------------------------------------------

(* However many requests and answers were lost: a publisher that is told   *)
(* its artifact is stored finds its own bytes, source and evidence in the  *)
(* registry, and one that is told of a conflict finds something else there *)
(* (is_idempotent_with, binary_artifact.rs 578-605).                       *)
OutcomesAreTrue ==
    \A p \in Publishers :
        LET mine == RecordOf(upload[p].meta)
            found == {[r EXCEPT !.yanked = FALSE] :
                        r \in Stored(upload[p].meta)}
        IN  /\ outcome[p] \in {"stored", "already_stored"} => found = {mine}
            /\ outcome[p] = "conflict" => found # {} /\ mine \notin found

(* Whatever a publisher sends, the lists the registry builds from what it  *)
(* accepted are readable, so one bad record never hides a release          *)
(* (BinaryArtifactListResponseV1::validate refuses the whole list).        *)
ListsAreReadable == \A r \in records : ValidList(ReleaseList(r.package))

(* What a publisher is told is so, and hides nothing of the others.        *)
OutcomesHold == OutcomesAreTrue /\ ListsAreReadable

(* On a file system that folds case, every command of an installed package *)
(* finds one file, the executable the manifest names, and no two listed    *)
(* files are unpacked to one place (ValidFiles, by portable_path_key).     *)
(* That a file may lie below another is another matter: such an archive is *)
(* published and locked, and never installed (EveryoneIsServed).           *)
CommandsFindTheirFiles ==
    \A c \in Installers : installed[c] # Absent =>
        LET files == ToSet(installed[c].payload)
            At(path) == {f \in files :
                            PortablePathKey(f.path) = PortablePathKey(path)}
        IN  /\ \A f \in files : At(f.path) = {f}
            /\ installed[c].manifest.bin # {}
            /\ \A e \in installed[c].manifest.bin :
                  \E f \in At(e.path) : f.path = e.path /\ f.executable
            /\ installed[c].manifest.package = lock[c].package

(* The archive that is locked lists a file below another. *)
LockedNested(c) ==
    /\ lock[c] # Absent
    /\ \E archive \in blobs :
          Digest(archive) = lock[c].sha256 /\ ~Unpacks(archive.payload)

(* Every publisher is answered, and every locked artifact can be installed *)
(* for ever, yanked or not (is_idempotent_with, and the records of         *)
(* binary_artifact.rs that a client locks), unless the archive it names    *)
(* lists a file below another, which the rules of a descriptor let pass.   *)
EveryoneIsServed ==
    /\ \A p \in Publishers : <>(outcome[p] # Absent)
    /\ \A c \in Installers :
          lock[c] # Absent ~> (installed[c] # Absent \/ LockedNested(c))
=============================================================================
