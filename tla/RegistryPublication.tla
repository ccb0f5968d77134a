------------------------- MODULE RegistryPublication -------------------------
(***************************************************************************)
(* A registry that publishes snapshots of its packages to a static store,  *)
(* and a reader that resolves packages from it.  Publishers of packages    *)
(* repeat requests; the exporter, which writes the objects of a snapshot   *)
(* and then the checkpoint that selects it, may stop anywhere and begin    *)
(* again.  Server, exporter, store and reader are external; what they hold *)
(* and check comes first: index records, the snapshot manifest that lists  *)
(* them, and archive manifests (src/rust/registry_protocol_v1.rs).         *)
(*                                                                         *)
(* The bytes of a document are the record that its canonical JSON spells,  *)
(* and a digest stands for the bytes it is of.  Packages, paths and tokens *)
(* are numbers in their byte order; a text is sound or Malformed.          *)
(***************************************************************************)
EXTENDS Absence, Arrangements, SequencesExt

CONSTANT MaxU64                  \* the largest u64

Sound(text) == text # Malformed
AllSound(texts) == \A i \in DOMAIN texts : Sound(texts[i])

(* RegistryArchiveReferenceV1: the archive and its manifest, by digest. *)
ValidReference(archive) ==
    Sound(archive.sha256) /\ Sound(archive.manifest) /\ archive.size # 0

ValidDependency(dependency) ==
    /\ Sound(dependency.package)
    /\ Sound(dependency.requirement)
    /\ AllSound(dependency.features) /\ IsInjective(dependency.features)

(* A reason is given exactly when the version is not active. *)
ValidLifecycle(record) ==
    IF record.lifecycle = "active" THEN record.reason = Absent
    ELSE record.reason \notin {Absent, Malformed}

ValidRecord(record) ==
    LET dependencies == record.dependencies
    IN  /\ ValidReference(record.archive)
        /\ record.sequence # 0
        /\ \A i \in DOMAIN dependencies :
              /\ ValidDependency(dependencies[i])
              /\ \A j \in DOMAIN dependencies :
                    dependencies[i].package = dependencies[j].package => i = j
        /\ \A list \in {record.targets, record.features} :
              AllSound(list) /\ IsInjective(list)
        /\ ValidLifecycle(record)

Sorted(list) == SortedBy(list, LAMBDA a, b : a < b)
ByPackage(dependencies) ==
    SortedBy(dependencies, LAMBDA a, b : a.package < b.package)

(* Mutant: the features of a dependency stay as they are. *)
RecordBytesOuterSort(record) ==
    IF ~ValidRecord(record) THEN Refused
    ELSE [record EXCEPT
             !.dependencies = ByPackage(@),
             !.targets = Sorted(@), !.features = Sorted(@)]

SortedFeatures(dependency) == [dependency EXCEPT !.features = Sorted(@)]

(* RegistryIndexRecordV1::canonical_json_bytes. *)
RecordBytes(record) ==
    IF ~ValidRecord(record) THEN Refused
    ELSE [record EXCEPT
             !.dependencies = ByPackage([i \in DOMAIN @ |->
                                            SortedFeatures(@[i])]),
             !.targets = Sorted(@), !.features = Sorted(@)]

-----------------------------------------------------------------------------
(* One object of a snapshot: the index of a package. *)
ValidEntry(entry) == Sound(entry.path) /\ Sound(entry.sha256) /\ entry.size # 0

(* Mutant: a path may come twice. *)
InOrderWithRepetitions(entries) ==
    \A i \in 2..Len(entries) : entries[i - 1].path <= entries[i].path
InOrder(entries) ==
    \A i \in 2..Len(entries) : entries[i - 1].path < entries[i].path

ValidSnapshot(snapshot) ==
    /\ Sound(snapshot.registry)
    /\ snapshot.sequence # 0
    /\ snapshot.entries # <<>>
    /\ \A i \in DOMAIN snapshot.entries : ValidEntry(snapshot.entries[i])
    /\ InOrder(snapshot.entries)

(* RegistryIndexSnapshotV1::canonical_json_bytes: nothing is sorted, what  *)
(* is out of order is refused.                                             *)
SnapshotBytes(snapshot) ==
    IF ValidSnapshot(snapshot) THEN snapshot ELSE Refused

-----------------------------------------------------------------------------
(* The contents of an archive. *)
ValidArchiveEntry(entry) ==
    /\ Sound(entry.path)
    /\ entry.mode <= 511
    /\ CASE entry.kind = "file" ->
                /\ entry.sha256 \notin {Absent, Malformed}
                /\ entry.link = Absent
         [] entry.kind = "directory" ->
                /\ entry.size = 0
                /\ entry.sha256 = Absent /\ entry.link = Absent
         [] entry.kind = "symlink" ->
                /\ entry.size = 0 /\ entry.sha256 = Absent
                /\ entry.link \notin {Absent, Malformed}

(* The sum of the files, or Refused when 64 bits do not hold it. *)
CheckedAdd(total, size) ==
    IF total = Refused \/ total + size > MaxU64 THEN Refused
    ELSE total + size
(* Mutant: the sum wraps. *)
WrappingAdd(total, size) == (total + size) % (MaxU64 + 1)

FileSize(entry) == IF entry.kind = "file" THEN entry.size ELSE 0

(* Mutant: every entry counts as it is. *)
TotalFileSizeWrapping(entries) ==
    LET total[i \in 0..Len(entries)] ==
            IF i = 0 THEN 0
            ELSE WrappingAdd(total[i - 1], FileSize(entries[i]))
    IN  total[Len(entries)]
TotalFileSize(entries) ==
    LET total[i \in 0..Len(entries)] ==
            IF i = 0 THEN 0
            ELSE CheckedAdd(total[i - 1], FileSize(entries[i]))
    IN  total[Len(entries)]

ValidArchiveManifest(manifest) ==
    /\ Sound(manifest.archive)
    /\ manifest.entries # <<>>
    /\ \A i \in DOMAIN manifest.entries :
          ValidArchiveEntry(manifest.entries[i])
    /\ InOrder(manifest.entries)
    /\ manifest.expanded_size = TotalFileSize(manifest.entries)

(* RegistryPublishRequestV1::validate. *)
ValidPublishRequest(request) ==
    /\ Sound(request.package)
    /\ ValidReference(request.archive)
    /\ request.precondition # 0

-----------------------------------------------------------------------------
CONSTANTS
    Packages,      (* numbers                                            *)
    Requests,      (* the publish requests that may arrive               *)
    Assemblies,    (* the ways in which the parts of a record are found  *)
    Contents,      (* the archive manifests that exist, by their digest  *)
    MaxSnapshots

VARIABLES
    versions,      (* what the server holds: package -> [archive,        *)
                   (* lifecycle, reason], or Absent                      *)
    store,         (* the objects of all snapshots                       *)
    selected,      (* the published checkpoint: [sequence, root, of],    *)
                   (* of the versions that it is of                      *)
    export,        (* what the exporter is writing, or Absent            *)
    roots,         (* the builds of the next snapshot: [of, root]        *)
    client,        (* the reader's steps from the checkpoint it took     *)
    resolved       (* what the reader found last, or Absent              *)

snapshotVars == <<versions, store, selected, export, roots, client, resolved>>

None == [p \in Packages |-> Absent]
Idle == [step |-> "idle", sequence |-> 0, root |-> Absent, of |-> None,
         package |-> 0, record |-> Absent]

SnapshotInit ==
    /\ versions = None
    /\ store = {}
    /\ selected = [sequence |-> 0, root |-> Absent, of |-> None]
    /\ export = Absent
    /\ roots = {}
    /\ client = Idle
    /\ resolved = Absent

-----------------------------------------------------------------------------
(* The server.  A version that is published again is accepted only with    *)
(* the same archive; a precondition names the checkpoint that the          *)
(* publisher saw.                                                          *)
Publish(request) ==
    /\ ValidPublishRequest(request)
    /\ request.precondition \in {Absent, selected.sequence}
    /\ versions[request.package] = Absent
    /\ versions' = [versions EXCEPT ![request.package] =
          [archive |-> request.archive, lifecycle |-> "active",
           reason |-> Absent]]
    /\ UNCHANGED <<store, selected, export, roots, client, resolved>>

(* Yanked, revoked for security and tombstoned are treated alike: one of   *)
(* the three stands for them.                                              *)
Withdraw(package, state) ==
    /\ versions[package] # Absent
    /\ versions[package].lifecycle = "active"
    /\ versions' = [versions EXCEPT ![package].lifecycle = state,
                                    ![package].reason = "reason"]
    /\ UNCHANGED <<store, selected, export, roots, client, resolved>>

-----------------------------------------------------------------------------
(* The exporter.  The parts of a record come as a database returns them. *)
Record(package, version, assembly, sequence) ==
    [package |-> package, archive |-> version.archive,
     dependencies |-> assembly.dependencies, targets |-> assembly.targets,
     features |-> assembly.features,
     lifecycle |-> version.lifecycle, reason |-> version.reason,
     sequence |-> sequence]

Entry(bytes) == [path |-> bytes.package, sha256 |-> bytes, size |-> 1]

(* The records of what was held. *)
Records(of, assembly, sequence) ==
    {RecordBytes(Record(p, of[p], assembly, sequence)) :
        p \in {p \in Packages : of[p] # Absent}}

Listed(root) ==
    IF root = Absent THEN {}
    ELSE {root.entries[i].sha256 : i \in DOMAIN root.entries}

(* A build of the next snapshot.  Entries are listed in any order, and one *)
(* of the previous snapshot may still be in the list; what is refused as   *)
(* bytes is not exported.                                                  *)
Build(assembly, stale) ==
    LET sequence == selected.sequence + 1
        records == Records(versions, assembly, sequence)
    IN  /\ export = Absent
        /\ sequence <= MaxSnapshots
        /\ Refused \notin records
        /\ \E list \in SetToSeqs(records \cup stale) :
              LET root == SnapshotBytes(
                      [registry |-> "registry", sequence |-> sequence,
                       entries |-> [i \in DOMAIN list |-> Entry(list[i])]])
              IN  /\ root # Refused
                  /\ export' = [sequence |-> sequence, root |-> root,
                                of |-> versions,
                                missing |-> (records \cup {root}) \ store]
                  /\ roots' = roots \cup {[of |-> versions, root |-> root]}
        /\ UNCHANGED <<versions, store, selected, client, resolved>>

Store ==
    /\ export # Absent
    /\ \E object \in export.missing :
          /\ store' = store \cup {object}
          /\ export' = [export EXCEPT !.missing = @ \ {object}]
    /\ UNCHANGED <<versions, selected, roots, client, resolved>>

(* Mutant: the checkpoint is written before the objects. *)
SelectEarly ==
    /\ export # Absent
    /\ selected' = [sequence |-> export.sequence, root |-> export.root,
                    of |-> export.of]
    /\ export' = Absent
    /\ roots' = {}
    /\ UNCHANGED <<versions, store, client, resolved>>

(* The checkpoint is written last. *)
Select ==
    /\ export # Absent
    /\ export.missing = {}
    /\ selected' = [sequence |-> export.sequence, root |-> export.root,
                    of |-> export.of]
    /\ export' = Absent
    /\ roots' = {}
    /\ UNCHANGED <<versions, store, client, resolved>>

(* The exporter stops and forgets; what it stored stays. *)
Stop ==
    /\ export # Absent
    /\ export' = Absent
    /\ UNCHANGED <<versions, store, selected, roots, client, resolved>>

-----------------------------------------------------------------------------
(* The reader: one package, step by step, from the checkpoint it took.     *)
Take(package) ==
    /\ client.step = "idle"
    /\ selected.sequence > 0
    /\ client' = [Idle EXCEPT !.step = "manifest", !.package = package,
                              !.sequence = selected.sequence,
                              !.root = selected.root,
                              !.of = selected.of]
    /\ resolved' = Absent
    /\ UNCHANGED <<versions, store, selected, export, roots>>

(* The object that a snapshot names for a package; no entry says that      *)
(* there is no such package.                                               *)
Named(snapshot, package) ==
    {snapshot.entries[i].sha256 :
        i \in {i \in DOMAIN snapshot.entries :
                  snapshot.entries[i].path = package}}

Find ==
    /\ client.step = "manifest"
    /\ client.root \in store
    /\ ValidSnapshot(client.root)
    /\ IF Named(client.root, client.package) = {}
       THEN client' = [client EXCEPT !.step = "found"]
       ELSE \E object \in Named(client.root, client.package) :
               client' = [client EXCEPT !.step = "record", !.record = object]
    /\ UNCHANGED <<versions, store, selected, export, roots, resolved>>

FetchRecord ==
    /\ client.step = "record"
    /\ client.record \in store
    /\ ValidRecord(client.record)
    /\ client.record.sequence <= client.sequence
    /\ client' = [client EXCEPT !.step = "found"]
    /\ UNCHANGED <<versions, store, selected, export, roots, resolved>>

(* What the files of an archive come to when they are written. *)
Written(entries) ==
    LET bytes[i \in 0..Len(entries)] ==
            IF i = 0 THEN 0 ELSE bytes[i - 1] + FileSize(entries[i])
    IN  bytes[Len(entries)]

(* The archive is expanded when its manifest is sound. *)
Expand ==
    LET contents == Contents[client.record.archive.manifest]
        Result(written, announced) ==
            [package |-> client.package, of |-> client.of,
             record |-> client.record, written |-> written,
             announced |-> announced]
    IN  /\ client.step = "found"
        /\ resolved' =
              IF client.record = Absent \/ ~ValidArchiveManifest(contents)
              THEN Result(0, 0)
              ELSE Result(Written(contents.entries), contents.expanded_size)
        /\ client' = Idle
        /\ UNCHANGED <<versions, store, selected, export, roots>>

SnapshotNext ==
    \/ \E request \in Requests : Publish(request)
    \/ \E package \in Packages : Withdraw(package, "yanked")
    \/ \E assembly \in Assemblies, stale \in SUBSET Listed(selected.root) :
          Build(assembly, stale)
    \/ Store
    \/ Select
    \/ Stop
    \/ \E package \in Packages : Take(package)
    \/ Find
    \/ FetchRecord
    \/ Expand

(* A reader that has begun goes on; the exporter may stop for ever. *)
Fairness ==
    /\ WF_snapshotVars(Find)
    /\ WF_snapshotVars(FetchRecord)
    /\ WF_snapshotVars(Expand)

SnapshotSpec == SnapshotInit /\ [][SnapshotNext]_snapshotVars /\ Fairness

-----------------------------------------------------------------------------

(* What a reader finds is what the server held when the snapshot of its    *)
(* checkpoint was built: the whole of one state and never a mixture, also  *)
(* when an entry of the previous snapshot was listed again                 *)
(* (RegistryIndexSnapshotV1::validate: strictly ascending paths).          *)
ReadersSeeOneState ==
    resolved # Absent =>
        LET version == resolved.of[resolved.package]
        IN  IF version = Absent THEN resolved.record = Absent
            ELSE /\ resolved.record # Absent
                 /\ resolved.record.archive = version.archive
                 /\ resolved.record.lifecycle = version.lifecycle

(* An exporter that begins again with the same versions writes the same    *)
(* objects under the same prefix, in whatever order it finds the parts of  *)
(* records and the entries (RegistryIndexRecordV1::canonical_json_bytes).  *)
RebuildIsTheSame ==
    \A one, two \in roots :
        one.of = two.of => one.root = two.root

(* Expanding an archive writes exactly the bytes that its manifest         *)
(* announces, also when the sizes are close to the limits of 64 bits       *)
(* (RegistryArchiveManifestV1::validate).                                  *)
ExpandsAsAnnounced ==
    resolved # Absent => resolved.written = resolved.announced

(* Whatever the exporter wrote before it stopped, nothing that a           *)
(* checkpoint selects is missing or refused: a reader that has begun can   *)
(* go on (docs/registry-protocol-v1.md: the checkpoint is published last). *)
ReaderCanGoOn ==
    /\ client.step = "manifest" =>
          client.root \in store /\ ValidSnapshot(client.root)
    /\ client.step = "record" =>
          /\ client.record \in store /\ ValidRecord(client.record)
          /\ client.record.sequence <= client.sequence

(* The server's state is what reaches the reader: as one snapshot, whole,  *)
(* down to the bytes of an archive.                                        *)
PublishedAsHeld ==
    /\ ReadersSeeOneState /\ RebuildIsTheSame /\ ExpandsAsAnnounced
    /\ ReaderCanGoOn

(* A reader that took a checkpoint finishes, whatever the exporter does    *)
(* meanwhile: nothing that a checkpoint selects is missing or refused.     *)
ReadersFinish == client.step # "idle" ~> client.step = "idle"
=============================================================================
