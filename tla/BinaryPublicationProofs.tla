------------------------ MODULE BinaryPublicationProofs ------------------------
(***************************************************************************)
(* Proofs, first about binary artifacts: what publishers are told is true, *)
(* the registry's lists are readable, and an installed package has its     *)
(* commands, for every set of uploads, publishers and installers and       *)
(* however many requests and answers are lost.                             *)
(*                                                                         *)
(* The invariant says where everything comes from: a record, yanked or     *)
(* not, from an upload that the registry accepts, one record for each      *)
(* package and target; a list, a lock and an installed archive from such   *)
(* records; and what a publisher was told, or is about to be told, from    *)
(* the record of its artifact, which is never replaced.                    *)
(*                                                                         *)
(* Then about the versions of a package: the registry's list and the tags  *)
(* resolve alike.                                                          *)
(*                                                                         *)
(* Last about the places where the bytes of a version are looked for: the  *)
(* whole search is a list that follows from what the client knows, and has *)
(* each place of artifact_locators once; the invariant says that what was  *)
(* tried is its beginning, that the publisher fills whole kinds of places, *)
(* and that what was tried in vain was down.                               *)
(***************************************************************************)
EXTENDS BinaryPublication, ArtifactRetrieval, VersionLists, FiniteSetTheorems,
        SequenceTheorems, TLAPS

(* The record of what was published, yanked or not. *)
Of(meta, yanked) ==
    [package |-> meta.manifest.package, platform |-> meta.platform,
     sha256 |-> meta.sha256, size |-> meta.size,
     descriptorSha256 |-> meta.descriptorSha256, url |-> "url",
     publishedAt |-> "time", yanked |-> yanked,
     source |-> PublishedSource(meta), attachments |-> meta.attachments]

Plain(r) == [r EXCEPT !.yanked = FALSE]

Accepted == {u \in Uploads : Acceptable(u)}

Stems(r) == \E u \in Accepted : \E yanked \in BOOLEAN : r = Of(u.meta, yanked)

-----------------------------------------------------------------------------
(* Records *)

LEMMA RecordParts ==
  ASSUME NEW meta, NEW yanked
  PROVE  /\ RecordOf(meta) = Of(meta, FALSE)
         /\ Plain(Of(meta, yanked)) = RecordOf(meta)
         /\ [Of(meta, yanked) EXCEPT !.yanked = TRUE] = Of(meta, TRUE)
         /\ Of(meta, yanked).yanked = yanked
         /\ Of(meta, yanked).package = meta.manifest.package
         /\ Of(meta, yanked).platform = meta.platform
         /\ ArtifactIdentity(Of(meta, yanked))
               = ArtifactIdentity(RecordOf(meta))
         /\ LockOf(Of(meta, yanked)) = LockOf(RecordOf(meta))
<1>1. RecordOf(meta) = Of(meta, FALSE)
  BY DEF RecordOf, Of
<1>2. \A b : [Of(meta, yanked) EXCEPT !.yanked = b] = Of(meta, b)
  BY DEF Of
<1>3. \A b : ArtifactIdentity(Of(meta, b)) =
                [package |-> meta.manifest.package,
                 target |-> meta.platform.target]
  BY DEF ArtifactIdentity, Of
<1>4. \A b : LockOf(Of(meta, b)) =
                [package |-> meta.manifest.package,
                 platform |-> meta.platform, sha256 |-> meta.sha256,
                 size |-> meta.size,
                 descriptorSha256 |-> meta.descriptorSha256,
                 registry |-> "registry", url |-> "url",
                 source |-> PublishedSource(meta),
                 attachments |-> meta.attachments]
  BY DEF LockOf, Of
<1>5. /\ Of(meta, yanked).yanked = yanked
      /\ Of(meta, yanked).package = meta.manifest.package
      /\ Of(meta, yanked).platform = meta.platform
  BY DEF Of
<1> QED
  BY <1>1, <1>2, <1>3, <1>4, <1>5 DEF Plain

(* What the validator of requests accepts gives a record that the          *)
(* validator of records accepts.                                           *)
LEMMA ValidRecord ==
  ASSUME NEW meta, NEW yanked, ValidPublishMeta(meta)
  PROVE  ValidMetadata(Of(meta, yanked))
<1>1. /\ ValidIdentity(meta.manifest.package)
      /\ ValidPlatform(meta.platform)
      /\ Malformed \notin {meta.sha256, meta.descriptorSha256, meta.tag,
                           meta.commit, meta.manifest.repository}
      /\ meta.size > 0
      /\ ValidAttachments(meta.attachments, meta.sha256)
  BY DEF ValidPublishMeta, ValidManifest, WellFormed
<1>2. ValidSource(PublishedSource(meta))
  BY <1>1 DEF ValidSource, PublishedSource, WellFormed
<1>3. Malformed \notin {meta.sha256, meta.descriptorSha256, "url", "time"}
  BY <1>1, BinaryAssumption
<1> DEFINE r == Of(meta, yanked)
<1>4. /\ r.package = meta.manifest.package /\ r.platform = meta.platform
      /\ r.sha256 = meta.sha256 /\ r.size = meta.size
      /\ r.descriptorSha256 = meta.descriptorSha256
      /\ r.url = "url" /\ r.publishedAt = "time"
      /\ r.source = PublishedSource(meta)
      /\ r.attachments = meta.attachments
  BY DEF Of
<1> HIDE DEF r
<1>5. ValidMetadata(r)
  BY <1>1, <1>2, <1>3, <1>4 DEF ValidMetadata, WellFormed
<1> QED
  BY <1>5 DEF r

(* A request repeats a record exactly when its own record is that one.     *)
LEMMA Idempotence ==
  ASSUME NEW meta, NEW other, NEW yanked,
         ValidPublishMeta(meta), ValidPublishMeta(other)
  PROVE  IsIdempotentWith(meta, Of(other, yanked))
            <=> RecordOf(other) = RecordOf(meta)
<1> DEFINE r == Of(other, yanked)
<1>1. ValidMetadata(r)
  BY ValidRecord
<1>2. /\ r.package = other.manifest.package /\ r.platform = other.platform
      /\ r.sha256 = other.sha256 /\ r.size = other.size
      /\ r.descriptorSha256 = other.descriptorSha256
      /\ r.attachments = other.attachments
      /\ r.source = PublishedSource(other)
  BY DEF Of
<1> HIDE DEF r
<1>3. IsIdempotentWith(meta, r) <=>
         /\ other.manifest.package = meta.manifest.package
         /\ other.platform = meta.platform
         /\ other.sha256 = meta.sha256 /\ other.size = meta.size
         /\ other.descriptorSha256 = meta.descriptorSha256
         /\ other.attachments = meta.attachments
         /\ PublishedSource(other) = PublishedSource(meta)
  BY <1>1, <1>2 DEF IsIdempotentWith
<1>4. \A m : /\ RecordOf(m).package = m.manifest.package
             /\ RecordOf(m).platform = m.platform
             /\ RecordOf(m).sha256 = m.sha256 /\ RecordOf(m).size = m.size
             /\ RecordOf(m).descriptorSha256 = m.descriptorSha256
             /\ RecordOf(m).attachments = m.attachments
             /\ RecordOf(m).source = PublishedSource(m)
  BY DEF RecordOf
<1>5. ASSUME /\ other.manifest.package = meta.manifest.package
             /\ other.platform = meta.platform
             /\ other.sha256 = meta.sha256 /\ other.size = meta.size
             /\ other.descriptorSha256 = meta.descriptorSha256
             /\ other.attachments = meta.attachments
             /\ PublishedSource(other) = PublishedSource(meta)
      PROVE  RecordOf(other) = RecordOf(meta)
  BY <1>5 DEF RecordOf
<1> QED
  BY <1>3, <1>4, <1>5 DEF r

(* Of an accepted upload. *)
LEMMA AcceptedUpload ==
  ASSUME NEW u \in Accepted
  PROVE  /\ u \in Uploads
         /\ ValidPublishMeta(u.meta)
         /\ u.meta.sha256 = Digest(u.archive)
         /\ VerifiedArchive(u.archive)
         /\ u.meta.manifest = u.archive.manifest
         /\ ValidIdentity(u.meta.manifest.package)
         /\ u.meta.platform.target \in ToSet(TargetOrder)
<1>1. /\ u \in Uploads /\ Acceptable(u)
      /\ u.meta.platform.target \in ToSet(TargetOrder) \union {Malformed}
  BY BinaryAssumption DEF Accepted
<1>2. /\ ValidPublishMeta(u.meta)
      /\ u.meta.sha256 = Digest(u.archive)
      /\ VerifiedArchive(u.archive)
      /\ u.meta.manifest = u.archive.manifest
  BY <1>1 DEF Acceptable
<1>3. /\ ValidIdentity(u.meta.manifest.package)
      /\ u.meta.platform.target # Malformed
  BY <1>2 DEF ValidPublishMeta, ValidManifest, ValidPlatform, WellFormed
<1> QED
  BY <1>1, <1>2, <1>3

(* What is known of a record that stems from an upload. *)
StemsFrom(r, u) ==
    /\ Plain(r) = RecordOf(u.meta)
    /\ [r EXCEPT !.yanked = TRUE] = Of(u.meta, TRUE)
    /\ r.package = u.meta.manifest.package
    /\ r.platform = u.meta.platform
    /\ ArtifactIdentity(r) = ArtifactIdentity(RecordOf(u.meta))
    /\ LockOf(r) = LockOf(RecordOf(u.meta))
    /\ ValidMetadata(r)
    /\ \A v \in Accepted :
          IsIdempotentWith(v.meta, r) <=> RecordOf(u.meta) = RecordOf(v.meta)

LEMMA StemParts ==
  ASSUME NEW r, Stems(r)
  PROVE  \E u \in Accepted : StemsFrom(r, u)
<1>1. PICK u \in Accepted : \E yanked \in BOOLEAN : r = Of(u.meta, yanked)
  BY DEF Stems
<1>2. PICK yanked \in BOOLEAN : r = Of(u.meta, yanked)
  BY <1>1
<1> DEFINE meta == u.meta
           own == Of(meta, yanked)
<1>3. ValidPublishMeta(meta)
  BY AcceptedUpload
<1> HIDE DEF meta
<1>4. /\ Plain(own) = RecordOf(meta)
      /\ [own EXCEPT !.yanked = TRUE] = Of(meta, TRUE)
      /\ own.package = meta.manifest.package
      /\ own.platform = meta.platform
      /\ ArtifactIdentity(own) = ArtifactIdentity(RecordOf(meta))
      /\ LockOf(own) = LockOf(RecordOf(meta))
  BY RecordParts, Zenon
<1>5. ValidMetadata(own)
  BY <1>3, ValidRecord
<1>6. ASSUME NEW v \in Accepted
      PROVE  IsIdempotentWith(v.meta, own) <=> RecordOf(meta) = RecordOf(v.meta)
  <2> DEFINE other == v.meta
  <2>1. ValidPublishMeta(other)
    BY AcceptedUpload
  <2> HIDE DEF other
  <2>2. IsIdempotentWith(other, own) <=> RecordOf(meta) = RecordOf(other)
    BY <1>3, <2>1, Idempotence
  <2> QED
    BY <2>2 DEF other
<1>7. r = own
  BY <1>2 DEF meta
<1> HIDE DEF own
<1>8. /\ Plain(r) = RecordOf(meta)
      /\ [r EXCEPT !.yanked = TRUE] = Of(meta, TRUE)
      /\ r.package = meta.manifest.package
      /\ r.platform = meta.platform
      /\ ArtifactIdentity(r) = ArtifactIdentity(RecordOf(meta))
      /\ LockOf(r) = LockOf(RecordOf(meta))
      /\ ValidMetadata(r)
      /\ \A v \in Accepted :
            IsIdempotentWith(v.meta, r) <=> RecordOf(meta) = RecordOf(v.meta)
  BY <1>4, <1>5, <1>6, <1>7
<1>9. StemsFrom(r, u)
  BY <1>8 DEF StemsFrom, meta
<1> QED
  BY <1>9

(* A new record, and one that is yanked. *)
LEMMA NewRecord ==
  ASSUME NEW u \in Accepted
  PROVE  /\ Stems(RecordOf(u.meta))
         /\ Plain(RecordOf(u.meta)) = RecordOf(u.meta)
         /\ ArtifactIdentity(Plain(RecordOf(u.meta)))
               = ArtifactIdentity(RecordOf(u.meta))
<1>1. \A meta : RecordOf(meta) = Of(meta, FALSE)
  BY DEF RecordOf, Of
<1>2. \A meta : Plain(Of(meta, FALSE)) = RecordOf(meta)
  BY RecordParts, Zenon
<1>3. \E yanked \in BOOLEAN : RecordOf(u.meta) = Of(u.meta, yanked)
  BY <1>1
<1>4. Plain(RecordOf(u.meta)) = RecordOf(u.meta)
  BY <1>1, <1>2
<1> QED
  BY <1>3, <1>4 DEF Stems

LEMMA YankedRecord ==
  ASSUME NEW r, Stems(r)
  PROVE  LET new == [r EXCEPT !.yanked = TRUE]
         IN  /\ Stems(new)
             /\ Plain(new) = Plain(r)
             /\ ArtifactIdentity(new) = ArtifactIdentity(r)
<1> DEFINE new == [r EXCEPT !.yanked = TRUE]
<1>1. PICK u \in Accepted : StemsFrom(r, u)
  BY StemParts
<1>2. new = Of(u.meta, TRUE)
  BY <1>1 DEF StemsFrom
<1> HIDE DEF new
<1>3. /\ Plain(r) = RecordOf(u.meta)
      /\ ArtifactIdentity(r) = ArtifactIdentity(RecordOf(u.meta))
  BY <1>1 DEF StemsFrom
<1>4. \A meta : /\ Plain(Of(meta, TRUE)) = RecordOf(meta)
                /\ ArtifactIdentity(Of(meta, TRUE))
                      = ArtifactIdentity(RecordOf(meta))
  BY RecordParts, Zenon
<1>5. Stems(new)
  BY <1>2 DEF Stems
<1> QED
  BY <1>2, <1>3, <1>4, <1>5 DEF new

(* A digest names one document. *)
LEMMA DigestsDiffer ==
  ASSUME NEW d, NEW e, Digest(d) = Digest(e)
  PROVE  d = e
BY DEF Digest

-----------------------------------------------------------------------------
(* Archives *)

(* In a verified archive files have different keys, and the commands of    *)
(* the manifest name files that can be executed.                           *)
LEMMA VerifiedFiles ==
  ASSUME NEW u \in Accepted
  PROVE  LET files == ToSet(u.archive.payload)
             StoredWith(path) == {f \in files :
                             PortablePathKey(f.path) = PortablePathKey(path)}
         IN  /\ \A f \in files : StoredWith(f.path) = {f}
             /\ u.archive.manifest.bin # {}
             /\ \A e \in u.archive.manifest.bin :
                   \E f \in StoredWith(e.path) : f.path = e.path /\ f.executable
<1> DEFINE payload == u.archive.payload
           descriptor == u.archive.descriptor
           files == ToSet(payload)
           Key(f) == PortablePathKey(f.path)
           StoredWith(path) == {f \in files :
                           PortablePathKey(f.path) = PortablePathKey(path)}
<1>1. /\ descriptor.files = payload
      /\ ValidFiles(payload)
      /\ ValidEntrypoints(descriptor.entrypoints, payload)
      /\ descriptor.entrypoints = u.archive.manifest.bin
  BY AcceptedUpload DEF VerifiedArchive, MatchesManifest, ValidDescriptor
<1>2. DOMAIN payload = 1..Len(payload) /\ Len(payload) \in Nat
  BY AcceptedUpload, BinaryAssumption
<1>3. \A i \in DOMAIN payload : \A j \in 1..(i - 1) :
         Key(payload[j]) # Key(payload[i])
  BY <1>1 DEF ValidFiles
<1>4. files = {payload[i] : i \in DOMAIN payload}
  BY DEF ToSet
<1> HIDE DEF payload, descriptor, files
<1>5. \A i, j \in DOMAIN payload :
         Key(payload[i]) = Key(payload[j]) => i = j
  <2> SUFFICES ASSUME NEW i \in DOMAIN payload, NEW j \in DOMAIN payload,
                      Key(payload[i]) = Key(payload[j]), i # j
               PROVE  FALSE
    OBVIOUS
  <2> HIDE DEF Key
  <2>1. CASE i < j
    BY <1>2, <1>3, <2>1
  <2>2. CASE j < i
    BY <1>2, <1>3, <2>2
  <2> QED
    BY <1>2, <2>1, <2>2
<1>6. \A f, g \in files : Key(f) = Key(g) => f = g
  BY <1>4, <1>5
<1>7. \A f \in files : StoredWith(f.path) = {f}
  BY <1>6
<1>8. /\ descriptor.entrypoints # {}
      /\ \A e \in descriptor.entrypoints : \E i \in DOMAIN payload :
            payload[i].path = e.path /\ payload[i].executable
  BY <1>1 DEF ValidEntrypoints
<1>9. \A e \in descriptor.entrypoints :
         \E f \in StoredWith(e.path) : f.path = e.path /\ f.executable
  BY <1>4, <1>8
<1> QED
  BY <1>1, <1>7, <1>8, <1>9 DEF files, payload, descriptor

-----------------------------------------------------------------------------
(* Lists *)

LEMMA RanksDiffer ==
  /\ \A t \in ToSet(TargetOrder) : TargetRank(t) \in Int
  /\ \A t, u \in ToSet(TargetOrder) : TargetRank(t) = TargetRank(u) => t = u
<1>1. \A t \in ToSet(TargetOrder) :
         /\ TargetRank(t) \in DOMAIN TargetOrder
         /\ TargetOrder[TargetRank(t)] = t
  BY DEF ToSet, TargetRank
<1>2. \A i \in DOMAIN TargetOrder : i \in Int
  BY BinaryAssumption
<1> QED
  BY <1>1, <1>2

Distinct(S) ==
    \A r, s \in S : ArtifactIdentity(r) = ArtifactIdentity(s) => r = s

(* The records of one package are told apart by the ranks of their targets. *)
LEMMA TargetsAreOrdered ==
  ASSUME NEW S, \A r \in S : Stems(r), Distinct(S),
         \A r, s \in S : r.package = s.package
  PROVE  StrictTotalOrder(S, ByTarget(S))
<1> DEFINE T(r) == TargetRank(r.platform.target)
<1>1. \A r \in S : r.platform.target \in ToSet(TargetOrder)
  <2> SUFFICES ASSUME NEW r \in S
               PROVE  r.platform.target \in ToSet(TargetOrder)
    OBVIOUS
  <2> HIDE DEF T
  <2>1. Stems(r)
    OBVIOUS
  <2>2. PICK u \in Accepted : StemsFrom(r, u)
    BY <2>1, StemParts
  <2>3. r.platform = u.meta.platform
    BY <2>2 DEF StemsFrom
  <2> QED
    BY <2>3, AcceptedUpload
<1>2. \A r \in S : T(r) \in Int
  BY <1>1, RanksDiffer
<1>3. \A r, s \in S : T(r) = T(s) => r = s
  <2> SUFFICES ASSUME NEW r \in S, NEW s \in S, T(r) = T(s)
               PROVE  r = s
    OBVIOUS
  <2>1. r.platform.target = s.platform.target /\ r.package = s.package
    BY <1>1, RanksDiffer
  <2>2. ArtifactIdentity(r) = ArtifactIdentity(s)
    BY <2>1 DEF ArtifactIdentity
  <2> QED
    BY <2>2 DEF Distinct
<1>4. \A r, s : <<r, s>> \in ByTarget(S) <=> r \in S /\ s \in S /\ T(r) < T(s)
  BY DEF ByTarget
<1> HIDE DEF T
<1> QED
  BY <1>2, <1>3, <1>4 DEF StrictTotalOrder

(* The list of a release has its records, and validates. *)
LEMMA ListOfRecords ==
  ASSUME NEW S, IsFiniteSet(S), \A r \in S : Stems(r), Distinct(S),
         NEW package, \A r \in S : r.package = package
  PROVE  LET list == InOrderOf(S, ByTarget(S))
         IN  /\ \A i \in DOMAIN list : list[i] \in S
             /\ ValidIdentity(package) =>
                   ValidList([package |-> package, artifacts |-> list])
<1> DEFINE list == InOrderOf(S, ByTarget(S))
           n == Cardinality(S)
<1>1. StrictTotalOrder(S, ByTarget(S))
  BY TargetsAreOrdered
<1>2. /\ n \in Nat /\ list \in [1..n -> S]
      /\ \A p, q \in 1..n : p < q <=> <<list[p], list[q]>> \in ByTarget(S)
  BY <1>1, InOrderOfSet
<1> HIDE DEF n, list
<1>3. DOMAIN list = 1..n /\ \A i \in DOMAIN list : list[i] \in S
  BY <1>2
<1>4. \A r \in S : ValidMetadata(r)
  BY StemParts DEF StemsFrom
<1>5. ASSUME NEW i \in DOMAIN list, i > 1
      PROVE  TargetRank(list[i - 1].platform.target)
                < TargetRank(list[i].platform.target)
  <2>1. i \in 1..n /\ i - 1 \in 1..n /\ i - 1 < i
    BY <1>2, <1>3, <1>5
  <2>2. <<list[i - 1], list[i]>> \in ByTarget(S)
    BY <1>2, <2>1
  <2> QED
    BY <2>2 DEF ByTarget
<1>6. ASSUME ValidIdentity(package)
      PROVE  ValidList([package |-> package, artifacts |-> list])
  <2> DEFINE whole == [package |-> package, artifacts |-> list]
  <2>1. whole.package = package /\ whole.artifacts = list
    OBVIOUS
  <2> HIDE DEF whole
  <2>2. \A i \in DOMAIN list :
           ValidMetadata(list[i]) /\ list[i].package = package
    BY <1>3, <1>4
  <2>3. ValidList(whole)
    BY <1>5, <1>6, <2>1, <2>2 DEF ValidList
  <2> QED
    BY <2>3 DEF whole
<1> QED
  BY <1>3, <1>6 DEF list

-----------------------------------------------------------------------------
(* The invariant *)

(* What the publisher of a record may be told. *)
Told(all, mine, answer) ==
    /\ answer \in {"stored", "already_stored"} =>
          \E r \in all : Plain(r) = mine
    /\ answer = "conflict" =>
          \E r \in all : /\ ArtifactIdentity(r) = ArtifactIdentity(mine)
                         /\ Plain(r) # mine

RecordsStem ==
    /\ IsFiniteSet(records)
    /\ \A r \in records : Stems(r)
    /\ Distinct(records)
    /\ blobs \subseteq {u.archive : u \in Accepted}

AnswersStem ==
    /\ upload \in [Publishers -> Uploads]
    /\ wire \in [Publishers -> {"idle", "sent"} \union Answers]
    /\ outcome \in [Publishers -> {Absent} \union Answers]
    /\ \A p \in Publishers :
          /\ Told(records, RecordOf(upload[p].meta), wire[p])
          /\ Told(records, RecordOf(upload[p].meta), outcome[p])

Listed(list) ==
    list # Absent => \A i \in DOMAIN list.artifacts : Stems(list.artifacts[i])

Locked(locked) ==
    locked # Absent => \E u \in Accepted : locked = LockOf(RecordOf(u.meta))

Unpacked(archive, locked) ==
    archive # Absent =>
        /\ \E u \in Accepted : archive = u.archive
        /\ locked # Absent
        /\ Digest(archive) = locked.sha256

InstallersStem ==
    /\ listing = [c \in Installers |-> listing[c]]
    /\ lock = [c \in Installers |-> lock[c]]
    /\ installed = [c \in Installers |-> installed[c]]
    /\ \A c \in Installers :
          /\ Listed(listing[c]) /\ Locked(lock[c])
          /\ Unpacked(installed[c], lock[c])

IInv == RecordsStem /\ AnswersStem /\ InstallersStem

(* The invariant of the installers is about them alone. *)
LEMMA InstallersStay ==
  ASSUME InstallersStem, UNCHANGED <<listing, lock, installed>>
  PROVE  InstallersStem'
BY DEF InstallersStem, Listed, Locked, Unpacked, Stems, Accepted, Acceptable

(* What was told stays true while its record stays, yanked or not. *)
Remains(all, later) ==
    \A r \in all : \E s \in later :
        Plain(s) = Plain(r) /\ ArtifactIdentity(s) = ArtifactIdentity(r)

LEMMA ToldStays ==
  ASSUME NEW all, NEW later, Remains(all, later),
         NEW mine, NEW answer, Told(all, mine, answer)
  PROVE  Told(later, mine, answer)
<1>1. ASSUME NEW r \in all
      PROVE  \E s \in later : /\ Plain(s) = Plain(r)
                              /\ ArtifactIdentity(s) = ArtifactIdentity(r)
  BY <1>1 DEF Remains
<1>2. CASE answer \in {"stored", "already_stored"}
  <2>1. PICK r \in all : Plain(r) = mine
    BY <1>2 DEF Told
  <2>2. \E s \in later : Plain(s) = mine
    BY <1>1, <2>1
  <2> QED
    BY <1>2, <2>2 DEF Told
<1>3. CASE answer = "conflict"
  <2>1. PICK r \in all : /\ ArtifactIdentity(r) = ArtifactIdentity(mine)
                         /\ Plain(r) # mine
    BY <1>3 DEF Told
  <2>2. \E s \in later : /\ ArtifactIdentity(s) = ArtifactIdentity(mine)
                         /\ Plain(s) # mine
    BY <1>1, <2>1
  <2> QED
    BY <1>3, <2>2 DEF Told
<1> QED
  BY <1>2, <1>3 DEF Told

LEMMA RecordsStay ==
  ASSUME RecordsStem, UNCHANGED <<records, blobs>>
  PROVE  RecordsStem'
BY DEF RecordsStem

LEMMA AnswersStay ==
  ASSUME AnswersStem, UNCHANGED <<records, upload, wire, outcome>>
  PROVE  AnswersStem'
BY DEF AnswersStem

(* A publisher is sent or told something, another record may appear.       *)
LEMMA AnswersChange ==
  ASSUME AnswersStem, NEW p \in Publishers, Remains(records, records'),
         upload' = upload,
         NEW sent \in {"idle", "sent"} \union Answers,
         Told(records', RecordOf(upload[p].meta), sent),
         wire' = [wire EXCEPT ![p] = sent],
         \/ outcome' = outcome
         \/ /\ wire[p] \in Answers
            /\ outcome' = [outcome EXCEPT ![p] = wire[p]]
  PROVE  AnswersStem'
<1>1. \A q \in Publishers :
         /\ wire'[q] = IF q = p THEN sent ELSE wire[q]
         /\ outcome'[q] \in {outcome[q], wire[q]}
  BY DEF AnswersStem
<1>2. /\ wire' \in [Publishers -> {"idle", "sent"} \union Answers]
      /\ outcome' \in [Publishers -> {Absent} \union Answers]
  BY DEF AnswersStem
<1>3. ASSUME NEW q \in Publishers
      PROVE  /\ Told(records', RecordOf(upload[q].meta), wire'[q])
             /\ Told(records', RecordOf(upload[q].meta), outcome'[q])
  <2>1. /\ Told(records', RecordOf(upload[q].meta), wire[q])
        /\ Told(records', RecordOf(upload[q].meta), outcome[q])
    BY ToldStays DEF AnswersStem
  <2>2. CASE q = p
    BY <1>1, <2>1, <2>2
  <2>3. CASE q # p
    BY <1>1, <2>1, <2>3
  <2> QED
    BY <2>2, <2>3
<1>4. upload' \in [Publishers -> Uploads]
  BY DEF AnswersStem
<1> QED
  BY <1>2, <1>3, <1>4 DEF AnswersStem

(* The registry takes a request for an artifact that it does not have.     *)
LEMMA RecordAppears ==
  ASSUME RecordsStem, NEW u \in Accepted, Stored(u.meta) = {},
         records' = records \union {RecordOf(u.meta)},
         blobs' = blobs \union {u.archive}
  PROVE  RecordsStem' /\ Remains(records, records')
<1> DEFINE new == RecordOf(u.meta)
<1>1. Stems(new)
  BY NewRecord
<1>2. \A r \in records : ArtifactIdentity(r) # ArtifactIdentity(new)
  BY DEF Stored
<1> HIDE DEF new
<1>3. Distinct(records')
  BY <1>2 DEF Distinct, RecordsStem, new
<1>4. IsFiniteSet(records')
  BY FS_AddElement DEF RecordsStem
<1>5. \A r \in records' : Stems(r)
  BY <1>1 DEF RecordsStem, new
<1>6. blobs' \subseteq {v.archive : v \in Accepted}
  BY DEF RecordsStem
<1> QED
  BY <1>3, <1>4, <1>5, <1>6 DEF RecordsStem, Remains

(* The verdict on a request for an artifact that the registry has.         *)
LEMMA VerdictIsTrue ==
  ASSUME RecordsStem, NEW u \in Accepted, Stored(u.meta) # {}
  PROVE  Told(records, RecordOf(u.meta), Verdict(u))
<1> DEFINE mine == RecordOf(u.meta)
<1>1. ASSUME NEW r \in Stored(u.meta)
      PROVE  /\ r \in records
             /\ ArtifactIdentity(r) = ArtifactIdentity(mine)
             /\ IsIdempotentWith(u.meta, r) <=> Plain(r) = mine
  <2>1. r \in records /\ ArtifactIdentity(r) = ArtifactIdentity(mine)
    BY DEF Stored
  <2>2. Stems(r)
    BY <2>1 DEF RecordsStem
  <2>3. PICK v \in Accepted : StemsFrom(r, v)
    BY <2>2, StemParts
  <2>4. /\ Plain(r) = RecordOf(v.meta)
        /\ IsIdempotentWith(u.meta, r) <=> RecordOf(v.meta) = mine
    BY <2>3 DEF StemsFrom
  <2> QED
    BY <2>1, <2>4
<1>2. PICK r \in Stored(u.meta) : TRUE
  OBVIOUS
<1>3. Acceptable(u)
  BY DEF Accepted
<1>4. CASE \A s \in Stored(u.meta) : IsIdempotentWith(u.meta, s)
  <2>1. Verdict(u) = "already_stored"
    BY <1>3, <1>4 DEF Verdict
  <2>2. \E s \in records : Plain(s) = mine
    BY <1>1, <1>2, <1>4
  <2> QED
    BY <2>1, <2>2 DEF Told
<1>5. CASE ~\A s \in Stored(u.meta) : IsIdempotentWith(u.meta, s)
  <2>1. Verdict(u) = "conflict"
    BY <1>3, <1>5 DEF Verdict
  <2>2. \E s \in records : /\ ArtifactIdentity(s) = ArtifactIdentity(mine)
                           /\ Plain(s) # mine
    BY <1>1, <1>5
  <2> HIDE DEF mine
  <2>3. Told(records, mine, "conflict")
    BY <2>2 DEF Told
  <2> QED
    BY <2>1, <2>3 DEF mine
<1> QED
  BY <1>4, <1>5

(* A record is yanked. *)
LEMMA RecordIsYanked ==
  ASSUME RecordsStem, NEW r \in records,
         records' = (records \ {r}) \union {[r EXCEPT !.yanked = TRUE]},
         blobs' = blobs
  PROVE  RecordsStem' /\ Remains(records, records')
<1> DEFINE new == [r EXCEPT !.yanked = TRUE]
<1>1. Stems(r)
  BY DEF RecordsStem
<1>2. /\ Plain(new) = Plain(r)
      /\ ArtifactIdentity(new) = ArtifactIdentity(r)
  BY <1>1, YankedRecord
<1>3. Stems(new)
  BY <1>1, YankedRecord
<1> HIDE DEF new
<1>4. Distinct(records')
  BY <1>2 DEF Distinct, RecordsStem, new
<1>5. IsFiniteSet(records')
  <2>1. IsFiniteSet(records \ {r})
    BY FS_RemoveElement DEF RecordsStem
  <2> QED
    BY <2>1, FS_AddElement
<1>6. \A s \in records' : Stems(s)
  BY <1>3 DEF RecordsStem, new
<1>7. Remains(records, records')
  BY <1>2 DEF Remains, new
<1> QED
  BY <1>4, <1>5, <1>6, <1>7 DEF RecordsStem

LEMMA InvariantHolds == BinarySpec => []IInv
<1> USE BinaryAssumption
<1>1. BinaryInit => IInv
  <2> SUFFICES ASSUME BinaryInit
               PROVE  IInv
    OBVIOUS
  <2>1. RecordsStem
    BY FS_EmptySet DEF BinaryInit, RecordsStem, Distinct
  <2>2. AnswersStem
    BY DEF BinaryInit, AnswersStem, Told, Answers
  <2>3. InstallersStem
    BY DEF BinaryInit, InstallersStem, Listed, Locked, Unpacked
  <2> QED
    BY <2>1, <2>2, <2>3 DEF IInv
<1>2. IInv /\ [BinaryNext]_binaryVars => IInv'
  <2> SUFFICES ASSUME IInv, [BinaryNext]_binaryVars
               PROVE  IInv'
    OBVIOUS
  <2> USE DEF IInv
  <2>1. \A answer \in {"idle", "sent", "refused"} :
           \A all, mine : Told(all, mine, answer)
    BY DEF Told
  <2>2. ASSUME UNCHANGED records
        PROVE  Remains(records, records')
    BY <2>2 DEF Remains
  <2>3. ASSUME NEW p \in Publishers, Put(p)
        PROVE  IInv'
    <3>1. AnswersStem'
      BY <2>1, <2>2, <2>3, AnswersChange DEF Put
    <3> QED
      BY <2>3, <3>1, RecordsStay, InstallersStay DEF Put
  <2>4. ASSUME NEW p \in Publishers, Handle(p)
        PROVE  IInv'
    <3> DEFINE u == upload[p]
               mine == RecordOf(u.meta)
    <3>1. /\ wire' = [wire EXCEPT ![p] = Verdict(u)]
          /\ UNCHANGED <<upload, outcome, losses, listing, lock, installed>>
          /\ u \in Uploads
      BY <2>4 DEF Handle, AnswersStem
    <3>2. Verdict(u) \in {"idle", "sent"} \union Answers
      BY DEF Verdict, Answers
    <3>3. CASE Verdict(u) = "stored"
      <4>1. u \in Accepted /\ Stored(u.meta) = {}
        BY <3>1, <3>3 DEF Verdict, Accepted
      <4>2. /\ records' = records \union {mine}
            /\ blobs' = blobs \union {u.archive}
        BY <2>4, <3>3 DEF Handle
      <4>3. RecordsStem' /\ Remains(records, records')
        BY <4>1, <4>2, RecordAppears
      <4>4. Told(records', mine, Verdict(u))
        <5>1. Plain(mine) = mine
          BY <4>1, NewRecord
        <5> HIDE DEF mine
        <5> QED
          BY <3>3, <4>2, <5>1 DEF Told
      <4>5. AnswersStem'
        BY <3>1, <3>2, <4>3, <4>4, AnswersChange
      <4> QED
        BY <3>1, <4>3, <4>5, InstallersStay
    <3>4. CASE Verdict(u) # "stored"
      <4>1. UNCHANGED <<records, blobs>>
        BY <2>4, <3>4 DEF Handle
      <4>2. Told(records, mine, Verdict(u))
        <5>1. CASE Acceptable(u)
          <6>1. u \in Accepted /\ Stored(u.meta) # {}
            BY <3>1, <3>4, <5>1 DEF Verdict, Accepted
          <6> QED
            BY <6>1, VerdictIsTrue
        <5>2. CASE ~Acceptable(u)
          <6>1. Verdict(u) = "refused"
            BY <5>2 DEF Verdict
          <6> QED
            BY <2>1, <6>1
        <5> QED
          BY <5>1, <5>2
      <4>3. AnswersStem'
        BY <2>2, <3>1, <3>2, <4>1, <4>2, AnswersChange
      <4> QED
        BY <3>1, <4>1, <4>3, RecordsStay, InstallersStay
    <3> QED
      BY <3>3, <3>4
  <2>5. ASSUME NEW p \in Publishers, Lose(p)
        PROVE  IInv'
    <3>1. AnswersStem'
      BY <2>1, <2>2, <2>5, AnswersChange DEF Lose
    <3> QED
      BY <2>5, <3>1, RecordsStay, InstallersStay DEF Lose
  <2>6. ASSUME NEW p \in Publishers, Hear(p)
        PROVE  IInv'
    <3>1. AnswersStem'
      BY <2>1, <2>2, <2>6, AnswersChange DEF Hear
    <3> QED
      BY <2>6, <3>1, RecordsStay, InstallersStay DEF Hear
  <2>7. CASE Yank
    <3>1. RecordsStem' /\ Remains(records, records')
      BY <2>7, RecordIsYanked DEF Yank
    <3>2. AnswersStem'
      BY <2>7, <3>1, ToldStays DEF Yank, AnswersStem
    <3> QED
      BY <2>7, <3>1, <3>2, InstallersStay DEF Yank
  <2>8. ASSUME NEW c \in Installers, Read(c)
        PROVE  IInv'
    <3>1. PICK package :
             listing' = [listing EXCEPT ![c] = ReleaseList(package)]
      BY <2>8 DEF Read
    <3>2. Listed(ReleaseList(package))
      <4> DEFINE ofIt == {r \in records : r.package = package}
                 list == InOrderOf(ofIt, ByTarget(ofIt))
      <4>1. IsFiniteSet(ofIt)
        BY FS_Subset DEF RecordsStem
      <4>2. /\ \A r \in ofIt : Stems(r) /\ r.package = package
            /\ Distinct(ofIt)
        BY DEF RecordsStem, Distinct
      <4>3. ReleaseList(package).artifacts = list
        BY DEF ReleaseList
      <4> HIDE DEF ofIt
      <4>4. \A i \in DOMAIN list : list[i] \in ofIt
        BY <4>1, <4>2, ListOfRecords
      <4> QED
        BY <4>2, <4>3, <4>4 DEF Listed
    <3>3. InstallersStem'
      BY <2>8, <3>1, <3>2 DEF Read, InstallersStem
    <3> QED
      BY <2>8, <3>3, RecordsStay, AnswersStay DEF Read
  <2>9. ASSUME NEW c \in Installers, Freeze(c)
        PROVE  IInv'
    <3>1. PICK i \in DOMAIN listing[c].artifacts :
             lock' = [lock EXCEPT ![c] = LockOf(listing[c].artifacts[i])]
      BY <2>9 DEF Freeze
    <3>2. Locked(LockOf(listing[c].artifacts[i]))
      <4>1. Stems(listing[c].artifacts[i])
        BY <2>9 DEF Freeze, InstallersStem, Listed
      <4>2. PICK u \in Accepted : StemsFrom(listing[c].artifacts[i], u)
        BY <4>1, StemParts
      <4> QED
        BY <4>2 DEF StemsFrom, Locked
    <3>3. installed[c] = Absent
      BY <2>9 DEF Freeze, InstallersStem, Unpacked
    <3>4. InstallersStem'
      BY <2>9, <3>1, <3>2, <3>3 DEF Freeze, InstallersStem, Unpacked
    <3> QED
      BY <2>9, <3>4, RecordsStay, AnswersStay DEF Freeze
  <2>10. ASSUME NEW c \in Installers, Install(c)
         PROVE  IInv'
    <3>1. PICK archive \in blobs :
             /\ Digest(archive) = lock[c].sha256
             /\ installed' = [installed EXCEPT ![c] = archive]
      BY <2>10 DEF Install
    <3>2. Unpacked(archive, lock[c])
      BY <2>10, <3>1 DEF Install, Unpacked, RecordsStem
    <3>3. InstallersStem'
      BY <2>10, <3>1, <3>2 DEF Install, InstallersStem
    <3> QED
      BY <2>10, <3>3, RecordsStay, AnswersStay DEF Install
  <2>11. CASE UNCHANGED binaryVars
    BY <2>11, RecordsStay, AnswersStay, InstallersStay DEF binaryVars
  <2> QED
    BY <2>3, <2>4, <2>5, <2>6, <2>7, <2>8, <2>9, <2>10, <2>11 DEF BinaryNext
<1> QED
  BY <1>1, <1>2, PTL DEF BinarySpec

-----------------------------------------------------------------------------
(* What the run checks, for every value of the constants *)

(* A publisher that is told its artifact is stored finds its own bytes,    *)
(* source and evidence there, one that is told of a conflict finds others, *)
(* and every list of the registry validates (is_idempotent_with,           *)
(* BinaryArtifactListResponseV1::validate).                                *)
THEOREM OutcomesAreSo == BinarySpec => []OutcomesHold
<1>1. IInv => OutcomesAreTrue
  <2> SUFFICES ASSUME IInv, NEW p \in Publishers
               PROVE  LET mine == RecordOf(upload[p].meta)
                          found == {[r EXCEPT !.yanked = FALSE] :
                                      r \in Stored(upload[p].meta)}
                      IN  /\ outcome[p] \in {"stored", "already_stored"} =>
                                found = {mine}
                          /\ outcome[p] = "conflict" =>
                                found # {} /\ mine \notin found
    BY DEF OutcomesAreTrue
  <2> DEFINE mine == RecordOf(upload[p].meta)
             all == Stored(upload[p].meta)
             found == {Plain(r) : r \in all}
  <2>1. \A r : r \in all <=>
           r \in records /\ ArtifactIdentity(r) = ArtifactIdentity(mine)
    BY DEF Stored
  <2>2. \A r, s \in all : r = s
    BY <2>1 DEF IInv, RecordsStem, Distinct
  <2>3. Told(records, mine, outcome[p])
    BY DEF IInv, AnswersStem
  <2>4. \A r \in records : ArtifactIdentity(Plain(r)) = ArtifactIdentity(r)
    <3> SUFFICES ASSUME NEW r \in records
                 PROVE  ArtifactIdentity(Plain(r)) = ArtifactIdentity(r)
      OBVIOUS
    <3>1. Stems(r)
      BY DEF IInv, RecordsStem
    <3>2. PICK u \in Accepted : StemsFrom(r, u)
      BY <3>1, StemParts
    <3> QED
      BY <3>2, NewRecord DEF StemsFrom
  <2> HIDE DEF mine, all
  <2>5. CASE outcome[p] \in {"stored", "already_stored"}
    <3>1. PICK r \in records : Plain(r) = mine
      BY <2>3, <2>5 DEF Told
    <3>2. r \in all
      BY <2>1, <2>4, <3>1
    <3>3. found = {mine}
      BY <2>2, <3>1, <3>2
    <3> QED
      BY <2>5, <3>3 DEF Plain, mine, all
  <2>6. CASE outcome[p] = "conflict"
    <3>1. PICK r \in records : /\ ArtifactIdentity(r) = ArtifactIdentity(mine)
                               /\ Plain(r) # mine
      BY <2>3, <2>6 DEF Told
    <3>2. r \in all
      BY <2>1, <3>1
    <3>3. found # {} /\ mine \notin found
      BY <2>2, <3>1, <3>2
    <3> QED
      BY <2>6, <3>3 DEF Plain, mine, all
  <2> QED
    BY <2>5, <2>6 DEF mine, all
<1>2. IInv => ListsAreReadable
  <2> SUFFICES ASSUME IInv, NEW r \in records
               PROVE  ValidList(ReleaseList(r.package))
    BY DEF ListsAreReadable
  <2> DEFINE ofIt == {s \in records : s.package = r.package}
  <2>1. IsFiniteSet(ofIt)
    BY FS_Subset DEF IInv, RecordsStem
  <2>2. /\ \A s \in ofIt : Stems(s) /\ s.package = r.package
        /\ Distinct(ofIt)
    BY DEF IInv, RecordsStem, Distinct
  <2>3. ValidIdentity(r.package)
    <3>1. Stems(r)
      BY DEF IInv, RecordsStem
    <3>2. PICK u \in Accepted : StemsFrom(r, u)
      BY <3>1, StemParts
    <3> QED
      BY <3>2, AcceptedUpload DEF StemsFrom
  <2>4. ReleaseList(r.package) =
           [package |-> r.package,
            artifacts |-> InOrderOf(ofIt, ByTarget(ofIt))]
    BY DEF ReleaseList
  <2> HIDE DEF ofIt
  <2> QED
    BY <2>1, <2>2, <2>3, <2>4, ListOfRecords
<1> QED
  BY <1>1, <1>2, InvariantHolds, PTL DEF OutcomesHold

(* An installed package has the files its archive lists, each under its    *)
(* own key, and an executable for each command of its manifest, which is   *)
(* that of the package that was locked (ValidFiles, matches_manifest).     *)
THEOREM CommandsAreFound == BinarySpec => []CommandsFindTheirFiles
<1>1. IInv => CommandsFindTheirFiles
  <2> SUFFICES ASSUME IInv, NEW c \in Installers, installed[c] # Absent
               PROVE  LET files == ToSet(installed[c].payload)
                          StoredWith(path) == {f \in files :
                                          PortablePathKey(f.path)
                                             = PortablePathKey(path)}
                      IN  /\ \A f \in files : StoredWith(f.path) = {f}
                          /\ installed[c].manifest.bin # {}
                          /\ \A e \in installed[c].manifest.bin :
                                \E f \in StoredWith(e.path) :
                                   f.path = e.path /\ f.executable
                          /\ installed[c].manifest.package = lock[c].package
    BY DEF CommandsFindTheirFiles
  <2>1. /\ Unpacked(installed[c], lock[c])
        /\ Locked(lock[c])
    BY DEF IInv, InstallersStem
  <2>2. PICK u \in Accepted : installed[c] = u.archive
    BY <2>1 DEF Unpacked
  <2>3. PICK v \in Accepted : lock[c] = LockOf(RecordOf(v.meta))
    BY <2>1 DEF Unpacked, Locked
  <2>4. /\ lock[c].sha256 = v.meta.sha256
        /\ lock[c].package = v.meta.manifest.package
    BY <2>3 DEF LockOf, RecordOf
  <2>5. Digest(u.archive) = Digest(v.archive)
    BY <2>1, <2>2, <2>4, AcceptedUpload DEF Unpacked
  <2>6. u.archive = v.archive
    BY <2>5, DigestsDiffer
  <2>7. installed[c].manifest.package = lock[c].package
    BY <2>2, <2>4, <2>6, AcceptedUpload
  <2> QED
    BY <2>2, <2>7, VerifiedFiles
<1> QED
  BY <1>1, InvariantHolds, PTL

-----------------------------------------------------------------------------
(* Lists of versions.  A text is read as a version, and a version is       *)
(* compared by six numbers; whatever two lists name alike is resolved      *)
(* alike, however each is arranged.                                        *)
Versions == [nums : [1..3 -> Nat], pre : Prereleases]
Keys == [1..6 -> Int]
LexOrder == {pair \in Keys \X Keys : LexLess(pair[1], pair[2])}

(* Three segments, those that are missing being zero. *)
LEMMA PaddedSegments ==
  ASSUME NEW nums \in Seq(Nat), NEW pre \in Prereleases
  PROVE  /\ Parsed3(Padded(nums), pre) \in Versions
         /\ Len(nums) = 3 => Parsed3(nums, pre) \in Versions
<1>1. nums \in [1..Len(nums) -> Nat] /\ Len(nums) \in Nat
  OBVIOUS
<1>2. Padded(nums) \in [1..3 -> Nat]
  BY <1>1 DEF Padded
<1>3. Len(nums) = 3 => nums \in [1..3 -> Nat]
  BY <1>1
<1> QED
  BY <1>2, <1>3 DEF Parsed3, Versions

(* A text is read as a version or not at all, and no leading v matters. *)
LEMMA TextsAreRead ==
  ASSUME NEW s \in Texts
  PROVE  /\ ParseVersion(s) \in Versions \union {NoVersion}
         /\ WithoutV(s) \in Texts /\ WithV(s) \in Texts
         /\ ParseVersion(WithoutV(s)) = ParseVersion(s)
         /\ WithoutV(WithV(s)) = WithoutV(s)
<1>1. CASE s \in [tag : STRING]
  <2>1. IsTag(s)
    BY <1>1 DEF IsTag
  <2> QED
    BY <2>1 DEF WithoutV, WithV, ParseVersion
<1>2. CASE s \notin [tag : STRING]
  <2>1. s \in [v : BOOLEAN, nums : Seq(Nat), padded : BOOLEAN,
               pre : Prereleases, build : BOOLEAN,
               pep : {<<>>} \union (STRING \X Nat)]
    BY <1>2 DEF Texts
  <2>2. ~IsTag(s)
    BY <2>1 DEF IsTag
  <2>3. ASSUME NEW b \in BOOLEAN
        PROVE  LET t == [s EXCEPT !.v = b]
               IN  /\ t \in Texts /\ ~IsTag(t)
                   /\ t.nums = s.nums /\ t.padded = s.padded
                   /\ t.pre = s.pre /\ t.build = s.build /\ t.pep = s.pep
                   /\ [t EXCEPT !.v = FALSE] = [s EXCEPT !.v = FALSE]
    BY <2>1 DEF Texts, IsTag
  <2>4. WithoutV(s) = [s EXCEPT !.v = FALSE] /\ WithV(s) = [s EXCEPT !.v = TRUE]
    BY <2>2 DEF WithoutV, WithV
  <2>5. WithoutV(WithV(s)) = WithoutV(s)
    BY <2>3, <2>4 DEF WithoutV
  <2>6. ParseVersion(WithoutV(s)) = ParseVersion(s)
    <3> DEFINE t == WithoutV(s)
    <3>1. /\ t.nums = s.nums /\ t.padded = s.padded
          /\ t.pre = s.pre /\ t.build = s.build /\ t.pep = s.pep
          /\ ~IsTag(t)
      BY <2>3, <2>4
    <3> HIDE DEF t
    <3>2. Semver(t) = Semver(s) /\ NormalizeCalver(t) = NormalizeCalver(s)
      BY <3>1 DEF Semver, NormalizeCalver
    <3>3. NormalizePep440(t) = NormalizePep440(s)
      <4>1. CASE \/ s.pep = <<>> \/ Len(s.nums) > 3
                 \/ s.pre # <<>> \/ s.build
        BY <3>1, <4>1 DEF NormalizePep440
      <4>2. CASE ~(\/ s.pep = <<>> \/ Len(s.nums) > 3
                   \/ s.pre # <<>> \/ s.build)
        BY <3>1, <4>2 DEF NormalizePep440
      <4> QED
        BY <4>1, <4>2
    <3>4. ParseVersion(t) = ParseVersion(s)
      BY <2>2, <3>1, <3>2, <3>3 DEF ParseVersion
    <3> QED
      BY <3>4 DEF t
  <2>7. Semver(s) \in Versions \union {NoVersion}
    BY <2>1, PaddedSegments DEF Semver
  <2>8. NormalizeCalver(s) \in Versions \union {NoVersion}
    BY <2>1, PaddedSegments DEF NormalizeCalver
  <2>9. NormalizePep440(s) \in Versions \union {NoVersion}
    <3>1. CASE s.pep = <<>>
      BY <3>1 DEF NormalizePep440
    <3>2. CASE s.pep # <<>>
      <4>1. s.pep \in STRING \X Nat
        BY <2>1, <3>2
      <4>2. PepLabel(s.pep[1]) \in LabelNames \union {"post", NoVersion}
        BY DEF PepLabel, LabelNames
      <4>3. <<PepLabel(s.pep[1]), s.pep[2]>> \in Prereleases
               \/ PepLabel(s.pep[1]) \in {"post", NoVersion}
        BY <4>1, <4>2 DEF Prereleases
      <4>4. <<>> \in Prereleases
        BY DEF Prereleases
      <4> DEFINE label == PepLabel(s.pep[1])
                 plain == Parsed3(Padded(s.nums), <<>>)
                 marked == Parsed3(Padded(s.nums), <<label, s.pep[2]>>)
      <4>5. plain \in Versions
        BY <2>1, <4>4, PaddedSegments
      <4>6. marked \in Versions \/ label \in {"post", NoVersion}
        BY <2>1, <4>3, PaddedSegments
      <4>7. NormalizePep440(s) \in {NoVersion, plain}
               \/ /\ NormalizePep440(s) = marked
                  /\ label # "post" /\ label # NoVersion
        BY DEF NormalizePep440
      <4> QED
        BY <4>5, <4>6, <4>7
    <3> QED
      BY <3>1, <3>2
  <2> QED
    BY <2>2, <2>3, <2>4, <2>5, <2>6, <2>7, <2>8, <2>9 DEF ParseVersion, OrElse
<1> QED
  BY <1>1, <1>2

(* What versions are compared by: six numbers. *)
LEMMA KeysOfVersions ==
  ASSUME NEW version \in Versions
  PROVE  Precedence(version) \in Keys
<1> DEFINE rank == CHOOSE i \in DOMAIN Labels : Labels[i] = version.pre[1]
           last == Maturity(version.pre)
<1>1. \A i \in 1..3 : version.nums[i] \in Int
  BY DEF Versions
<1>2. \A i \in 1..3 : last[i] \in Int
  <2>1. CASE version.pre = <<>>
    BY <2>1 DEF Maturity
  <2>2. CASE version.pre # <<>>
    <3>1. version.pre \in LabelNames \X Nat
      BY <2>2 DEF Versions, Prereleases
    <3>2. \E i \in DOMAIN Labels : Labels[i] = version.pre[1]
      <4>1. DOMAIN Labels = 1..4
        BY DEF Labels
      <4>2. version.pre[1] \in {"alpha", "beta", "dev", "rc"}
        BY <3>1 DEF LabelNames
      <4>3. /\ Labels[1] = "alpha" /\ Labels[2] = "beta"
            /\ Labels[3] = "dev" /\ Labels[4] = "rc"
        BY DEF Labels
      <4> QED
        BY <4>1, <4>2, <4>3
    <3>3. rank \in 1..4
      BY <3>2 DEF Labels
    <3>4. last = <<0, rank, version.pre[2]>> /\ version.pre[2] \in Int
      BY <2>2, <3>1 DEF Maturity
    <3> HIDE DEF rank, last
    <3> QED
      BY <3>3, <3>4
  <2> QED
    BY <2>1, <2>2
<1> HIDE DEF last
<1>3. Precedence(version) =
         [i \in 1..6 |-> IF i <= 3 THEN version.nums[i] ELSE last[i - 3]]
  BY DEF Precedence, last
<1>4. \A i \in 4..6 : last[i - 3] \in Int
  BY <1>2
<1>5. \A i \in 1..6 :
         (IF i <= 3 THEN version.nums[i] ELSE last[i - 3]) \in Int
  BY <1>1, <1>4
<1> QED
  BY <1>3, <1>5 DEF Keys

(* Of lists of numbers that differ one is less, by the first difference. *)
LEMMA KeysInOrder == StrictTotalOrder(Keys, LexOrder)
<1>0. \A a, b \in Keys :
         <<a, b>> \in LexOrder
            <=> \E i \in 1..6 : a[i] < b[i] /\ \A j \in 1..(i - 1) : a[j] = b[j]
  BY DEF LexOrder, Keys, LexLess
<1>1. \A a \in Keys : <<a, a>> \notin LexOrder
  BY <1>0 DEF Keys
<1>2. ASSUME NEW a \in Keys, NEW b \in Keys, NEW c \in Keys,
             <<a, b>> \in LexOrder, <<b, c>> \in LexOrder
      PROVE  <<a, c>> \in LexOrder
  <2>1. PICK i \in 1..6 : a[i] < b[i] /\ \A j \in 1..(i - 1) : a[j] = b[j]
    BY <1>0, <1>2
  <2>2. PICK k \in 1..6 : b[k] < c[k] /\ \A j \in 1..(k - 1) : b[j] = c[j]
    BY <1>0, <1>2
  <2>3. \A j \in 1..6 : a[j] \in Int /\ b[j] \in Int /\ c[j] \in Int
    BY DEF Keys
  <2>4. CASE i <= k
    <3>1. a[i] < c[i]
      <4>1. b[i] <= c[i]
        BY <2>2, <2>3, <2>4
      <4> QED
        BY <2>1, <2>3, <4>1
    <3>2. \A j \in 1..(i - 1) : a[j] = c[j]
      BY <2>1, <2>2, <2>4
    <3> QED
      BY <1>0, <3>1, <3>2
  <2>5. CASE k < i
    <3>1. a[k] < c[k]
      BY <2>1, <2>2, <2>5
    <3>2. \A j \in 1..(k - 1) : a[j] = c[j]
      BY <2>1, <2>2, <2>5
    <3> QED
      BY <1>0, <3>1, <3>2
  <2> QED
    BY <2>4, <2>5
<1>3. ASSUME NEW a \in Keys, NEW b \in Keys, a # b
      PROVE  <<a, b>> \in LexOrder \/ <<b, a>> \in LexOrder
  <2> DEFINE D == {i \in 1..6 : a[i] # b[i]}
  <2>1. D # {} /\ D \subseteq Nat
    BY <1>3 DEF Keys
  <2> HIDE DEF D
  <2>2. PICK i \in D : \A j \in D : i <= j
    BY <2>1, LeastNumber
  <2>3. i \in 1..6 /\ a[i] # b[i] /\ a[i] \in Int /\ b[i] \in Int
    BY DEF D, Keys
  <2>4. \A j \in 1..(i - 1) : a[j] = b[j]
    BY <2>2, <2>3 DEF D
  <2>5. a[i] < b[i] \/ b[i] < a[i]
    BY <2>3
  <2> QED
    BY <1>0, <2>3, <2>4, <2>5
<1> QED
  BY <1>1, <1>2, <1>3 DEF StrictTotalOrder

(* A list of texts. *)
TextList(list) == ListOf(list, Texts)

(* The last of some positions is the greatest of them. *)
LEMMA LastPosition ==
  ASSUME NEW n \in Nat, NEW S, S \subseteq 1..n, S # {}
  PROVE  Max(S) \in S
<1> DEFINE T == {n - x : x \in S}
<1>1. T \subseteq Nat /\ T # {}
  <2>1. \A x \in S : n - x \in Nat
    OBVIOUS
  <2> QED
    BY <2>1
<1> HIDE DEF T
<1>2. PICK d \in T : \A e \in T : d <= e
  BY <1>1, LeastNumber
<1>3. PICK x \in S : d = n - x
  BY DEF T
<1>4. \A y \in S : n - y \in T
  BY DEF T
<1>5. \A y \in S : x >= y
  BY <1>2, <1>3, <1>4
<1> QED
  BY <1>5 DEF Max

(* What is older comes before. *)
LEMMA OlderIsLess ==
  ASSUME NEW a \in Versions, NEW b \in Versions
  PROVE  Older(a, b) <=> <<Precedence(a), Precedence(b)>> \in LexOrder
BY KeysOfVersions DEF Older, LexOrder

(* A range resolves to a text that fits; none that fits is newer. *)
LEMMA ResolvesToGreatest ==
  ASSUME NEW list, TextList(list), NEW r, r.range, Fit(r, list) # {}
  PROVE  \E i \in Fit(r, list) :
            /\ Resolve(r, list) = list[i]
            /\ \A j \in Fit(r, list) : ~OlderAt(list, i, j)
<1> DEFINE fit == Fit(r, list)
           n == Len(list)
           key == [i \in fit |-> Precedence(ParseVersion(list[i]))]
           keys == {key[i] : i \in fit}
<1>1. n \in Nat /\ DOMAIN list = 1..n /\ \A i \in 1..n : list[i] \in Texts
  BY DEF TextList, ListOf, IsList
<1>2. fit \subseteq 1..n
  BY <1>1 DEF Fit
<1>3. \A i \in fit : ParseVersion(list[i]) \in Versions
  BY <1>1, TextsAreRead DEF Fit, Matches
<1>4. IsFiniteSet(fit)
  <2>1. IsFiniteSet(1..n)
    BY <1>1, AsManyPositions
  <2> QED
    BY <1>2, <2>1, FS_Subset
<1> HIDE DEF fit
<1>5. \A i \in fit : key[i] \in Keys
  BY <1>3, KeysOfVersions
<1>6. \A i, j \in fit :
         OlderAt(list, i, j) <=> <<key[i], key[j]>> \in LexOrder
  BY <1>3, OlderIsLess DEF OlderAt
<1>7. IsFiniteSet(keys) /\ keys \subseteq Keys /\ keys # {}
  <2>1. key \in Surjection(fit, keys)
    BY DEF Surjection
  <2>2. IsFiniteSet(keys)
    BY <1>4, <2>1, FS_Surjection
  <2> QED
    BY <1>5, <2>2 DEF fit
<1> HIDE DEF key
<1>8. PICK k \in keys : \A l \in keys : l = k \/ <<l, k>> \in LexOrder
  <2> HIDE DEF keys
  <2> QED
    BY <1>7, KeysInOrder, LastOfSet
<1>9. PICK i \in fit : key[i] = k
  OBVIOUS
<1>10. \A j \in fit : ~OlderAt(list, i, j)
  <2> SUFFICES ASSUME NEW j \in fit, <<k, key[j]>> \in LexOrder
               PROVE  FALSE
    BY <1>6, <1>9
  <2>1. k \in Keys /\ key[j] \in Keys
    BY <1>5, <1>7
  <2>2. key[j] = k \/ <<key[j], k>> \in LexOrder
    BY <1>8
  <2> QED
    BY <2>1, <2>2, KeysInOrder DEF StrictTotalOrder
<1>11. Greatest(list, fit) # {} /\ Greatest(list, fit) \subseteq 1..n
  BY <1>2, <1>10 DEF Greatest
<1>12. Max(Greatest(list, fit)) \in Greatest(list, fit)
  BY <1>1, <1>11, LastPosition
<1>13. Resolve(r, list) = list[Max(Greatest(list, fit))]
  BY DEF Resolve, fit
<1> QED
  BY <1>12, <1>13 DEF Greatest, fit

(* A range that nothing fits resolves to nothing. *)
LEMMA ResolvesToNothing ==
  ASSUME NEW list, NEW r, r.range, Fit(r, list) = {}
  PROVE  Resolve(r, list) = NoVersion
BY DEF Resolve, ResolveFirst

(* Two lists of one package: the texts of each are read as versions of the *)
(* other.                                                                  *)
Covers(list, other) ==
    \A i \in DOMAIN list : \E j \in DOMAIN other :
        ParseVersion(list[i]) = ParseVersion(other[j])

(* Two such lists resolve a range to one version. *)
LEMMA ResolvedAlike ==
  ASSUME NEW a, TextList(a), NEW b, TextList(b), NEW r, r.range,
         Covers(a, b), Covers(b, a)
  PROVE  SameVersion(Resolve(r, a), Resolve(r, b))
<1>1. \A i \in Fit(r, a) : \E j \in Fit(r, b) :
         ParseVersion(a[i]) = ParseVersion(b[j])
  BY DEF Covers, Fit, Matches
<1>2. \A j \in Fit(r, b) : \E i \in Fit(r, a) :
         ParseVersion(b[j]) = ParseVersion(a[i])
  BY DEF Covers, Fit, Matches
<1>3. CASE Fit(r, a) = {}
  <2>1. Fit(r, b) = {}
    BY <1>2, <1>3
  <2>2. Resolve(r, a) = NoVersion /\ Resolve(r, b) = NoVersion
    BY <1>3, <2>1, ResolvesToNothing
  <2> QED
    BY <2>2 DEF SameVersion
<1>4. CASE Fit(r, a) # {}
  <2>1. Fit(r, b) # {}
    BY <1>1, <1>4
  <2>2. PICK i \in Fit(r, a) :
           /\ Resolve(r, a) = a[i]
           /\ \A j \in Fit(r, a) : ~OlderAt(a, i, j)
    BY <1>4, ResolvesToGreatest
  <2>3. PICK k \in Fit(r, b) :
           /\ Resolve(r, b) = b[k]
           /\ \A j \in Fit(r, b) : ~OlderAt(b, k, j)
    BY <2>1, ResolvesToGreatest
  <2>4. ~Older(ParseVersion(a[i]), ParseVersion(b[k]))
    BY <1>2, <2>2 DEF OlderAt
  <2>5. ~Older(ParseVersion(b[k]), ParseVersion(a[i]))
    BY <1>1, <2>3 DEF OlderAt
  <2>6. a[i] # NoVersion /\ b[k] # NoVersion
    BY SpellingsAreTexts DEF Fit, TextList, ListOf, IsList
  <2> QED
    BY <2>2, <2>3, <2>4, <2>5, <2>6 DEF SameVersion
<1> QED
  BY <1>3, <1>4

(* Texts in another order read as versions of each other. *)
LEMMA SameTextsCover ==
  ASSUME NEW a, IsList(a), NEW b, IsList(b), Elements(a) = Elements(b)
  PROVE  Covers(a, b)
<1>1. DOMAIN a = 1..Len(a) /\ DOMAIN b = 1..Len(b)
  BY DEF IsList
<1>2. ASSUME NEW i \in 1..Len(a)
      PROVE  \E j \in 1..Len(b) : a[i] = b[j]
  <2>1. a[i] \in Elements(b)
    BY DEF Elements
  <2> QED
    BY <2>1 DEF Elements
<1> QED
  BY <1>1, <1>2 DEF Covers

(* What fits first in the sorted list is what the list resolves to.        *)
LEMMA FirstOfSorted ==
  ASSUME NEW list, TextList(list), NEW r, r.range,
         NEW i \in Fit(r, SortDesc(list)),
         \A j \in Fit(r, SortDesc(list)) : i <= j
  PROVE  SameVersion(Resolve(r, list), SortDesc(list)[i])
<1> DEFINE n == Len(list)
           less == Positions(list, Newer)
           sorted == SortDesc(list)
<1>1. /\ n \in Nat /\ IsList(list) /\ DOMAIN list = 1..n
      /\ \A p \in 1..n : list[p] \in Texts
  BY DEF TextList, ListOf, IsList
<1>2. \A p \in 1..n : ParseVersion(list[p]) \in Versions \union {NoVersion}
  BY <1>1, TextsAreRead
<1>3. \A p, q \in 1..n : <<p, q>> \in less <=> Newer(list[p], list[q])
  BY DEF Positions
<1> HIDE DEF less
<1>4. ASSUME NEW p \in 1..n, NEW q \in 1..n, Newer(list[p], list[q])
      PROVE  ~Newer(list[q], list[p])
  <2> SUFFICES ASSUME Newer(list[q], list[p])
               PROVE  FALSE
    OBVIOUS
  <2> DEFINE a == ParseVersion(list[p])
             b == ParseVersion(list[q])
  <2>1. /\ a \in Versions /\ b \in Versions
        /\ Older(a, b) /\ Older(b, a)
    BY <1>2, <1>4 DEF Newer
  <2> HIDE DEF a, b
  <2> QED
    BY <2>1, OlderIsLess, KeysOfVersions, KeysInOrder DEF StrictTotalOrder
<1>5. ASSUME NEW p \in 1..n, NEW q \in 1..n, NEW o \in 1..n,
             Newer(list[p], list[q]), ~Newer(list[p], list[o])
      PROVE  Newer(list[o], list[q])
  <2> DEFINE a == ParseVersion(list[p])
             b == ParseVersion(list[q])
             c == ParseVersion(list[o])
  <2>1. a \in Versions /\ a # NoVersion /\ c \in Versions /\ c # NoVersion
        /\ ~Older(c, a) /\ b \in Versions \union {NoVersion}
        /\ (b = NoVersion \/ Older(b, a))
    BY <1>2, <1>5 DEF Newer
  <2>2. b = NoVersion \/ Older(b, c)
    <3> HIDE DEF a, b, c
    <3>1. CASE b # NoVersion
      <4> DEFINE ka == Precedence(a)
                 kb == Precedence(b)
                 kc == Precedence(c)
      <4>1. /\ ka \in Keys /\ kb \in Keys /\ kc \in Keys
            /\ <<kb, ka>> \in LexOrder /\ <<kc, ka>> \notin LexOrder
            /\ Older(b, c) <=> <<kb, kc>> \in LexOrder
        BY <2>1, <3>1, KeysOfVersions, OlderIsLess
      <4> HIDE DEF ka, kb, kc
      <4>2. kc = ka \/ <<ka, kc>> \in LexOrder
        BY <4>1, KeysInOrder DEF StrictTotalOrder
      <4>3. <<kb, kc>> \in LexOrder
        BY <4>1, <4>2, KeysInOrder DEF StrictTotalOrder
      <4> QED
        BY <4>1, <4>3
    <3> QED
      BY <3>1
  <2> QED
    BY <2>1, <2>2 DEF Newer
<1>6. WeakOrder(1..n, less)
  BY <1>3, <1>4, <1>5 DEF WeakOrder
<1>7. sorted = Arranged(list, 1..n, Stably(n, less))
  BY DEF SortDesc, SortedBy, less
<1> HIDE DEF sorted
<1>8. PICK g : /\ Reorders(sorted, list, g)
               /\ \A p, q \in 1..n : p < q => <<g[q], g[p]>> \notin less
  BY <1>1, <1>6, <1>7, SortedLists
<1>9. /\ IsList(sorted) /\ Len(sorted) = n
      /\ Elements(sorted) = Elements(list)
  BY <1>1, <1>8, ReorderedElements
<1>10. \A p \in 1..n : g[p] \in 1..n /\ sorted[p] = list[g[p]]
  BY <1>8 DEF Reorders
<1>11. DOMAIN sorted = 1..n /\ TextList(sorted)
  BY <1>1, <1>9, <1>10 DEF IsList, TextList, ListOf
<1>12. i \in Fit(r, sorted) /\ \A j \in Fit(r, sorted) : i <= j
  BY DEF sorted
<1>13. i \in 1..n /\ Matches(r, sorted[i])
  BY <1>11, <1>12 DEF Fit
<1>14. g[i] \in Fit(r, list)
  BY <1>1, <1>10, <1>13 DEF Fit
<1>15. PICK m \in Fit(r, list) :
          /\ Resolve(r, list) = list[m]
          /\ \A j \in Fit(r, list) : ~OlderAt(list, m, j)
  BY <1>14, ResolvesToGreatest
<1>16. m \in 1..n /\ Matches(r, list[m])
  BY <1>1 DEF Fit
<1>17. PICK k \in 1..n : g[k] = m
  BY <1>8, <1>16 DEF Reorders
<1>18. sorted[k] = list[m] /\ sorted[i] = list[g[i]]
  BY <1>10, <1>13, <1>17
<1>19. i <= k
  BY <1>11, <1>12, <1>16, <1>17, <1>18 DEF Fit
<1>20. /\ ParseVersion(sorted[i]) # NoVersion
       /\ ParseVersion(sorted[k]) # NoVersion
  BY <1>13, <1>16, <1>18 DEF Matches
<1>21. ~Older(ParseVersion(sorted[k]), ParseVersion(sorted[i]))
  BY <1>14, <1>15, <1>18 DEF OlderAt
<1>22. ~Older(ParseVersion(sorted[i]), ParseVersion(sorted[k]))
  <2>1. CASE i = k
    BY <1>21, <2>1
  <2>2. CASE i < k
    <3>1. <<g[k], g[i]>> \notin less
      BY <1>8, <1>13, <1>17, <2>2
    <3>2. ~Newer(sorted[k], sorted[i])
      BY <1>3, <1>10, <1>13, <1>17, <3>1
    <3> QED
      BY <1>20, <3>2 DEF Newer
  <2> QED
    BY <1>1, <1>13, <1>17, <1>19, <2>1, <2>2
<1>23. sorted[i] # NoVersion /\ sorted[k] # NoVersion
  BY <1>10, <1>13, <1>17, <1>11, SpellingsAreTexts DEF TextList, ListOf
<1>24. SameVersion(Resolve(r, list), sorted[i])
  BY <1>15, <1>18, <1>21, <1>22, <1>23 DEF SameVersion
<1> QED
  BY <1>24 DEF sorted

(* What is put into a list is in it, next to what was there. *)
Gains(t, s, e) ==
    \A x : (\E k \in 1..Len(t) : t[k] = x)
              <=> x = e \/ \E j \in 1..Len(s) : s[j] = x

(* That is what inserting at a position does. *)
LEMMA Inserted ==
  ASSUME NEW S, NEW s \in Seq(S), NEW i \in 1..(Len(s) + 1), NEW e \in S,
         NEW t, t = InsertAt(s, i, e)
  PROVE  t \in Seq(S) /\ Gains(t, s, e)
<1> DEFINE n == Len(s)
           a == SubSeq(s, 1, i - 1)
           b == SubSeq(s, i, n)
           ae == a \o <<e>>
<1>0. t = ae \o b
  BY DEF InsertAt
<1>1. n \in Nat /\ i \in 1..(n + 1)
  OBVIOUS
<1>2. /\ a \in Seq(S) /\ Len(a) = i - 1
      /\ \A j \in 1..(i - 1) : a[j] = s[j]
  BY <1>1
<1>3. /\ b \in Seq(S) /\ Len(b) = n - i + 1
      /\ \A j \in 1..(n - i + 1) : b[j] = s[i + j - 1]
  BY <1>1
<1> HIDE DEF a, b
<1>4. /\ ae \in Seq(S) /\ Len(ae) = i /\ ae[i] = e
      /\ \A j \in 1..(i - 1) : ae[j] = s[j]
  <2>1. /\ ae \in Seq(S) /\ Len(ae) = i
        /\ \A j \in 1..i : ae[j] = IF j <= i - 1 THEN a[j] ELSE e
    BY <1>1, <1>2
  <2> HIDE DEF ae
  <2> QED
    BY <1>1, <1>2, <2>1
<1> HIDE DEF ae
<1>5. /\ t \in Seq(S) /\ Len(t) = n + 1 /\ t[i] = e
      /\ \A j \in 1..(i - 1) : t[j] = s[j]
      /\ \A j \in (i + 1)..(n + 1) : t[j] = s[j - 1]
  <2>1. /\ t \in Seq(S) /\ Len(t) = Len(ae) + Len(b)
        /\ \A j \in 1..(Len(ae) + Len(b)) :
              t[j] = IF j <= Len(ae) THEN ae[j] ELSE b[j - Len(ae)]
    <3>1. /\ ae \o b \in Seq(S) /\ Len(ae \o b) = Len(ae) + Len(b)
          /\ \A j \in 1..(Len(ae) + Len(b)) :
                (ae \o b)[j] = IF j <= Len(ae) THEN ae[j] ELSE b[j - Len(ae)]
      BY <1>3, <1>4, ConcatProperties
    <3> QED
      BY <1>0, <3>1, Zenon
  <2>2. Len(t) = n + 1
    BY <1>1, <1>3, <1>4, <2>1
  <2>3. t[i] = e /\ \A j \in 1..(i - 1) : t[j] = s[j]
    BY <1>1, <1>3, <1>4, <2>1
  <2>4. ASSUME NEW j \in (i + 1)..(n + 1)
        PROVE  t[j] = s[j - 1]
    <3>1. t[j] = b[j - i]
      BY <1>1, <1>3, <1>4, <2>1
    <3>2. j - i \in 1..(n - i + 1) /\ i + (j - i) - 1 = j - 1
      BY <1>1
    <3> QED
      BY <1>3, <3>1, <3>2
  <2> QED
    BY <2>1, <2>2, <2>3, <2>4
<1> HIDE DEF n
<1> SUFFICES ASSUME NEW x
             PROVE  (\E k \in 1..Len(t) : t[k] = x)
                       <=> x = e \/ \E j \in 1..n : s[j] = x
  BY <1>5 DEF Gains, n
<1>6. ASSUME NEW k \in 1..(n + 1)
      PROVE  t[k] = e \/ \E j \in 1..n : s[j] = t[k]
  <2>1. k = i \/ k \in 1..(i - 1) \/ k \in (i + 1)..(n + 1)
    BY <1>1
  <2>2. CASE k \in 1..(i - 1)
    <3>1. k \in 1..n
      BY <1>1, <2>2
    <3>2. t[k] = s[k]
      BY <1>5, <2>2
    <3> QED
      BY <3>1, <3>2
  <2>3. CASE k \in (i + 1)..(n + 1)
    <3>1. k - 1 \in 1..n
      BY <1>1, <2>3
    <3> QED
      BY <1>5, <2>3, <3>1
  <2> QED
    BY <1>5, <2>1, <2>2, <2>3
<1>7. ASSUME NEW j \in 1..n
      PROVE  \E k \in 1..(n + 1) : t[k] = s[j]
  <2>1. CASE j < i
    <3>1. j \in 1..(i - 1) /\ j \in 1..(n + 1)
      BY <1>1, <2>1
    <3> QED
      BY <1>5, <3>1
  <2>2. CASE ~(j < i)
    <3>1. /\ j + 1 \in (i + 1)..(n + 1) /\ j + 1 \in 1..(n + 1)
          /\ j + 1 - 1 = j
      BY <1>1, <2>2
    <3> QED
      BY <1>5, <3>1
  <2> QED
    BY <2>1, <2>2
<1>8. i \in 1..(n + 1)
  BY <1>1
<1> QED
  BY <1>5, <1>6, <1>7, <1>8

(* The registry and the repository list the same versions: the tags are    *)
(* those texts, each with a v or as it was published, in another order.    *)
NameTheSame(list, other) ==
    \A i \in 1..Len(list) : \E j \in 1..Len(other) :
        WithoutV(list[i]) = WithoutV(other[j])
ListsAgree ==
    /\ published \in Seq(Texts) /\ tags \in Seq(Texts)
    /\ NameTheSame(published, tags) /\ NameTheSame(tags, published)

(* A list of texts, as it is written in the lemmas. *)
LEMMA TextsInList ==
  ASSUME NEW s \in Seq(Texts)
  PROVE  TextList(s)
<1>1. /\ Len(s) \in Nat /\ DOMAIN s = 1..Len(s)
      /\ s \in [1..Len(s) -> Texts]
  BY LenProperties
<1> QED
  BY <1>1 DEF TextList, ListOf, IsList

(* What is published later is listed by both. *)
LEMMA PublishedAgrees ==
  ASSUME ListsAgree, NEW s \in Spellings, Publish(s)
  PROVE  ListsAgree'
<1>1. PICK tag \in {s, WithV(s)}, i \in 1..(Len(tags) + 1) :
         tags' = InsertAt(tags, i, tag)
  BY DEF Publish
<1>2. s \in Texts /\ WithV(s) \in Texts /\ WithoutV(WithV(s)) = WithoutV(s)
  BY SpellingsAreTexts, TextsAreRead
<1>3. tag \in Texts /\ WithoutV(tag) = WithoutV(s)
  BY <1>1, <1>2
<1>4. published \in Seq(Texts) /\ tags \in Seq(Texts)
  BY DEF ListsAgree
<1>5. tags' \in Seq(Texts) /\ Gains(tags', tags, tag)
  BY <1>1, <1>3, <1>4, Inserted
<1>6. published' \in Seq(Texts) /\ Gains(published', published, s)
  <2>1. published' = Append(published, s)
    BY DEF Publish
  <2>2. /\ published' \in Seq(Texts) /\ Len(published') = Len(published) + 1
        /\ published'[Len(published) + 1] = s
        /\ \A j \in 1..Len(published) : published'[j] = published[j]
        /\ Len(published) \in Nat
    BY <1>2, <1>4, <2>1, AppendProperties, LenProperties
  <2>3. \A j : j \in 1..(Len(published) + 1)
                  <=> j \in 1..Len(published) \/ j = Len(published) + 1
    BY <2>2
  <2> QED
    BY <2>2, <2>3 DEF Gains
<1>7. ASSUME NEW k \in 1..Len(published')
      PROVE  \E j \in 1..Len(tags') :
                WithoutV(published'[k]) = WithoutV(tags'[j])
  <2>1. CASE published'[k] = s
    BY <1>3, <1>5, <2>1 DEF Gains
  <2>2. CASE \E j \in 1..Len(published) : published[j] = published'[k]
    <3>1. \E j \in 1..Len(tags) : WithoutV(published'[k]) = WithoutV(tags[j])
      BY <2>2 DEF ListsAgree, NameTheSame
    <3> QED
      BY <1>5, <3>1 DEF Gains
  <2> QED
    BY <1>6, <2>1, <2>2 DEF Gains
<1>8. ASSUME NEW k \in 1..Len(tags')
      PROVE  \E j \in 1..Len(published') :
                WithoutV(tags'[k]) = WithoutV(published'[j])
  <2>1. CASE tags'[k] = tag
    BY <1>3, <1>6, <2>1 DEF Gains
  <2>2. CASE \E j \in 1..Len(tags) : tags[j] = tags'[k]
    <3>1. \E j \in 1..Len(published) :
             WithoutV(tags'[k]) = WithoutV(published[j])
      BY <2>2 DEF ListsAgree, NameTheSame
    <3> QED
      BY <1>6, <3>1 DEF Gains
  <2> QED
    BY <1>5, <2>1, <2>2 DEF Gains
<1>9. NameTheSame(published', tags') /\ NameTheSame(tags', published')
  BY <1>7, <1>8 DEF NameTheSame
<1> QED
  BY <1>5, <1>6, <1>9 DEF ListsAgree, NameTheSame

(* Whichever list a client reads, a range is resolved to one version, and  *)
(* that is what comes first in the sorted list (resolve and sort_desc).    *)
THEOREM RangesResolveAlike == ListSpec => []ListsResolveAlike
<1>1. ListInit => ListsAgree
  BY DEF ListInit, ListsAgree, NameTheSame
<1>2. ListsAgree /\ [ListNext]_listVars => ListsAgree'
  <2>1. ListsAgree /\ ListNext => ListsAgree'
    BY PublishedAgrees DEF ListNext
  <2>2. ListsAgree /\ UNCHANGED listVars => ListsAgree'
    BY DEF ListsAgree, NameTheSame, listVars
  <2> QED
    BY <2>1, <2>2
<1>3. ListsAgree => ListsResolveAlike
  <2> SUFFICES ASSUME ListsAgree, requirement.range
               PROVE  ListsResolveAlike
    BY DEF ListsResolveAlike
  <2>1. TextList(published) /\ TextList(tags)
    BY TextsInList DEF ListsAgree
  <2>2. /\ Len(tags) \in Nat /\ DOMAIN tags = 1..Len(tags)
        /\ \A i \in 1..Len(tags) : tags[i] \in Texts
        /\ DOMAIN published = 1..Len(published)
        /\ \A i \in 1..Len(published) : published[i] \in Texts
    BY <2>1 DEF TextList, ListOf, IsList
  <2>3. /\ DOMAIN TagVersions = 1..Len(tags)
        /\ \A i \in 1..Len(tags) : /\ TagVersions[i] = WithoutV(tags[i])
                                   /\ TagVersions[i] \in Texts
    BY <2>2, TextsAreRead DEF TagVersions
  <2>4. Len(TagVersions) = Len(tags)
    BY <2>2, <2>3
  <2>5. TextList(TagVersions)
    BY <2>2, <2>3, <2>4 DEF TextList, ListOf, IsList, TagVersions
  <2>6. \A i \in 1..Len(tags) :
           ParseVersion(TagVersions[i]) = ParseVersion(tags[i])
    BY <2>2, <2>3, TextsAreRead
  <2>7. ASSUME NEW s \in Texts, NEW t \in Texts, WithoutV(s) = WithoutV(t)
        PROVE  ParseVersion(s) = ParseVersion(t)
    <3>1. ParseVersion(WithoutV(s)) = ParseVersion(s)
      BY TextsAreRead
    <3>2. ParseVersion(WithoutV(t)) = ParseVersion(t)
      BY TextsAreRead
    <3> QED
      BY <2>7, <3>1, <3>2
  <2>8. Covers(published, TagVersions)
    <3>1. ASSUME NEW i \in 1..Len(published)
          PROVE  \E j \in 1..Len(tags) :
                    ParseVersion(published[i]) = ParseVersion(tags[j])
      <4>1. PICK j \in 1..Len(tags) : WithoutV(published[i]) = WithoutV(tags[j])
        BY DEF ListsAgree, NameTheSame
      <4> QED
        BY <2>2, <2>7, <4>1
    <3> QED
      BY <2>2, <2>3, <2>6, <3>1 DEF Covers
  <2>9. Covers(TagVersions, published)
    <3>1. ASSUME NEW j \in 1..Len(tags)
          PROVE  \E i \in 1..Len(published) :
                    ParseVersion(tags[j]) = ParseVersion(published[i])
      <4>1. PICK i \in 1..Len(published) :
               WithoutV(tags[j]) = WithoutV(published[i])
        BY DEF ListsAgree, NameTheSame
      <4> QED
        BY <2>2, <2>7, <4>1
    <3> QED
      BY <2>2, <2>3, <2>6, <3>1 DEF Covers
  <2>10. SameVersion(Resolve(requirement, published),
                     Resolve(requirement, TagVersions))
    BY <2>1, <2>5, <2>8, <2>9, ResolvedAlike
  <2>11. \A i \in Fit(requirement, SortDesc(published)) :
            (\A j \in Fit(requirement, SortDesc(published)) : i <= j)
               => SameVersion(Resolve(requirement, published),
                              SortDesc(published)[i])
    BY <2>1, FirstOfSorted
  <2> QED
    BY <2>10, <2>11 DEF ListsResolveAlike
<1> QED
  BY <1>1, <1>2, <1>3, PTL DEF ListSpec

-----------------------------------------------------------------------------
(* Where a version is looked for *)

Places(list, kinds) ==
    /\ IsList(list)
    /\ \A l \in Elements(list) : l.kind \in kinds
SearchedOnce(list) ==
    \A i, j \in 1..Len(list) :
        list[i] = list[j] /\ list[i].kind # "mirror" => i = j

(* One thing after another makes two. *)
LEMMA TwoTogether ==
  ASSUME NEW x, NEW y
  PROVE  <<x>> \o <<y>> = <<x, y>>
<1> DEFINE s == <<x>>
           t == <<y>>
           u == s \o t
           v == <<x, y>>
<1>1. /\ IsList(s) /\ Len(s) = 1 /\ s[1] = x
      /\ IsList(t) /\ Len(t) = 1 /\ t[1] = y
      /\ IsList(v) /\ Len(v) = 2 /\ v[1] = x /\ v[2] = y
  BY ShortLists
<1> HIDE DEF s, t, v
<1>2. /\ IsList(u) /\ Len(u) = Len(s) + Len(t)
      /\ \A i \in 1..(Len(s) + Len(t)) :
            u[i] = IF i <= Len(s) THEN s[i] ELSE t[i - Len(s)]
  BY <1>1, Concatenated
<1> HIDE DEF u
<1>3. u[1] = x /\ u[2] = y
  BY <1>1, <1>2
<1>4. Len(u) = 2 /\ \A i \in 1..2 : u[i] = v[i]
  BY <1>1, <1>2, <1>3
<1>5. u = v
  BY <1>1, <1>2, <1>4 DEF IsList
<1> QED
  BY <1>5 DEF s, t, u, v

(* Kinds that have nothing in common, and those of both. *)
Apart(K, M, N) ==
    (\A k \in K : k \notin M /\ k \in N) /\ (\A k \in M : k \in N)

(* Lists of places of different kinds, one after the other.                *)
LEMMA PlacesTogether ==
  ASSUME NEW K, NEW M, NEW N, Apart(K, M, N),
         NEW s, Places(s, K), SearchedOnce(s),
         NEW t, Places(t, M), SearchedOnce(t)
  PROVE  /\ Places(s \o t, N) /\ SearchedOnce(s \o t)
         /\ Elements(s \o t) = Elements(s) \cup Elements(t)
<1> DEFINE u == s \o t
           m == Len(s)
           n == Len(t)
<1>1. IsList(s) /\ IsList(t) /\ m \in Nat /\ n \in Nat
  BY ListIsSeq DEF Places
<1>2. IsList(u) /\ Elements(u) = Elements(s) \cup Elements(t)
  BY <1>1, ElementsOfBoth
<1>3. Places(u, N)
  BY <1>2 DEF Places, Apart
<1>4. Len(u) = m + n
      /\ \A i \in 1..(m + n) : u[i] = IF i <= m THEN s[i] ELSE t[i - m]
  BY <1>1, Concatenated
<1>5. /\ \A i \in 1..m : s[i].kind \in K /\ s[i].kind \notin M
      /\ \A i \in 1..n : t[i].kind \in M
  BY DEF Places, Elements, Apart
<1> HIDE DEF u, m, n
<1>6. \A i \in 1..(m + n) : \/ i \in 1..m /\ u[i] = s[i]
                            \/ i - m \in 1..n /\ u[i] = t[i - m]
  BY <1>1, <1>4
<1>7. ASSUME NEW i \in 1..(m + n), NEW j \in 1..(m + n), u[i] = u[j],
             u[i].kind # "mirror"
      PROVE  i = j
  <2>1. CASE i \in 1..m /\ u[i] = s[i] /\ j \in 1..m /\ u[j] = s[j]
    BY <2>1, <1>7 DEF SearchedOnce, m
  <2>2. CASE /\ i - m \in 1..n /\ u[i] = t[i - m]
             /\ j - m \in 1..n /\ u[j] = t[j - m]
    <3>1. i - m = j - m
      BY <2>2, <1>7 DEF SearchedOnce, n
    <3> QED
      BY <3>1, <1>1, <1>7
  <2>3. ~(i \in 1..m /\ u[i] = s[i] /\ j - m \in 1..n /\ u[j] = t[j - m])
    BY <1>5, <1>7
  <2>4. ~(j \in 1..m /\ u[j] = s[j] /\ i - m \in 1..n /\ u[i] = t[i - m])
    BY <1>5, <1>7
  <2> QED
    BY <1>6, <2>1, <2>2, <2>3, <2>4
<1>8. SearchedOnce(u)
  BY <1>4, <1>7 DEF SearchedOnce
<1> QED
  BY <1>2, <1>3, <1>8 DEF u

(* The places of some kinds, out of a list.                                *)
LEMMA PlacesOfKinds ==
  ASSUME NEW s, IsList(s), SearchedOnce(s), NEW kinds
  PROVE  /\ Places(OfKinds(s, kinds), kinds)
         /\ SearchedOnce(OfKinds(s, kinds))
         /\ Elements(OfKinds(s, kinds))
               = {l \in Elements(s) : l.kind \in kinds}
<1> DEFINE kept == {i \in 1..Len(s) : s[i].kind \in kinds}
           t == OfKinds(s, kinds)
<1>1. Keeps(t, s, kept)
  BY KeptElements DEF OfKinds
<1>2. \A x : x \in Elements(t) <=> \E i \in kept : s[i] = x
  BY <1>1 DEF Keeps
<1>3. Elements(t) = {l \in Elements(s) : l.kind \in kinds}
  <2>1. \A x : x \in Elements(t)
                 <=> \E i \in 1..Len(s) : s[i] = x /\ x.kind \in kinds
    BY <1>2
  <2> QED
    BY <2>1 DEF Elements
<1>4. Places(t, kinds)
  BY <1>1, <1>3 DEF Places, Keeps
<1>5. SearchedOnce(t)
  <2> SUFFICES ASSUME NEW p \in 1..Len(t), NEW q \in 1..Len(t), t[p] = t[q],
                      t[p].kind # "mirror", p # q
               PROVE  FALSE
    BY DEF SearchedOnce
  <2>1. PICK i, j \in kept : i < j /\ s[i] = t[p] /\ s[j] = t[p]
    BY <1>1 DEF Keeps
  <2>2. i \in 1..Len(s) /\ j \in 1..Len(s) /\ i # j
    BY <2>1, ListIsSeq
  <2> QED
    BY <2>1, <2>2 DEF SearchedOnce
<1> QED
  BY <1>3, <1>4, <1>5

(* Of equal keys one is kept.                                              *)
LEMMA KeysOnce ==
  ASSUME NEW keys, IsList(keys)
  PROVE  /\ IsList(Unrepeated(keys)) /\ Once(Unrepeated(keys))
         /\ Elements(Unrepeated(keys)) = Elements(keys)
<1> DEFINE n == Len(keys)
           kept == {i \in 1..n : \A j \in 1..(i - 1) : keys[j] # keys[i]}
           t == Unrepeated(keys)
<1>1. Keeps(t, keys, kept) /\ n \in Nat
  BY KeptElements, ListIsSeq DEF Unrepeated
<1>2. /\ IsList(t)
      /\ \A x : x \in Elements(t) <=> \E i \in kept : keys[i] = x
  BY <1>1 DEF Keeps
<1>3. Elements(t) \subseteq Elements(keys)
  BY <1>2 DEF Elements
<1>4. ASSUME NEW i \in 1..n
      PROVE  keys[i] \in Elements(t)
  <2> DEFINE at == {j \in 1..n : keys[j] = keys[i]}
  <2>1. at \subseteq Nat /\ at # {}
    BY <1>1
  <2>2. PICK k \in at : \A j \in at : k <= j
    BY <2>1, LeastNumber, Zenon
  <2>3. k \in 1..n /\ keys[k] = keys[i]
    BY <2>2
  <2>4. \A j \in 1..(k - 1) : keys[j] # keys[k]
    BY <1>1, <2>2, <2>3
  <2> QED
    BY <1>2, <2>3, <2>4
<1>5. Elements(keys) \subseteq Elements(t)
  BY <1>4 DEF Elements
<1>6. Once(t)
  <2> SUFFICES ASSUME NEW p \in 1..Len(t), NEW q \in 1..Len(t), t[p] = t[q],
                      p # q
               PROVE  FALSE
    BY DEF Once
  <2>1. PICK i, j \in kept : i < j /\ keys[i] = t[p] /\ keys[j] = t[p]
    BY <1>1 DEF Keeps
  <2>2. i \in 1..(j - 1)
    BY <1>1, <2>1
  <2> QED
    BY <2>1, <2>2
<1> QED
  BY <1>2, <1>3, <1>5, <1>6

(* The keys of a query: each once, the coordinate key among them.          *)
LEMMA KeysOfQuery ==
  ASSUME NEW q
  PROVE  /\ IsList(R2ObjectKeys(q)) /\ Once(R2ObjectKeys(q))
         /\ PackageKey(q) \in Elements(R2ObjectKeys(q))
<1> DEFINE section == SectionOf(q)
           content == IF q.sha = Absent THEN <<>> ELSE <<ContentKey(q.sha)>>
           named ==
             IF section.key # Absent THEN <<Expand(section.key, q)>>
             ELSE IF section.prefix # Absent
             THEN <<Append(Verbatim(section.prefix), FileName(q))>> ELSE <<>>
           last == <<GithubKey(q), PackageKey(q)>>
<1>1. R2ObjectKeys(q) = Unrepeated(content \o named \o last)
  BY DEF R2ObjectKeys
<1>2. IsList(content) /\ IsList(named) /\ IsList(last)
  BY ShortLists
<1>3. PackageKey(q) \in Elements(last)
  <2>1. Len(last) = 2 /\ last[2] = PackageKey(q)
    OBVIOUS
  <2> HIDE DEF last
  <2> QED
    BY <2>1 DEF Elements
<1> HIDE DEF content, named, last
<1>4. IsList(content \o named)
  BY <1>2, ElementsOfBoth
<1>5. /\ IsList((content \o named) \o last)
      /\ PackageKey(q) \in Elements((content \o named) \o last)
  BY <1>2, <1>3, <1>4, ElementsOfBoth
<1> QED
  BY <1>1, <1>5, KeysOnce

-----------------------------------------------------------------------------
(* One place, or one only on a condition, is searched once. *)
LEMMA OnePlace ==
  ASSUME NEW kind, NEW place, NEW condition \in BOOLEAN
  PROVE  /\ Places(<<At(kind, place)>>, {kind})
         /\ SearchedOnce(<<At(kind, place)>>)
         /\ Elements(<<At(kind, place)>>) = {At(kind, place)}
         /\ LET list == Provided(condition, <<At(kind, place)>>)
            IN  /\ Places(list, {kind}) /\ SearchedOnce(list)
                /\ Elements(list)
                      = IF condition THEN {At(kind, place)} ELSE {}
<1> DEFINE one == <<At(kind, place)>>
<1>1. /\ IsList(one) /\ Len(one) = 1 /\ Elements(one) = {At(kind, place)}
  BY ShortLists
<1>2. At(kind, place).kind = kind
  BY DEF At
<1> HIDE DEF one
<1>3. Places(one, {kind}) /\ SearchedOnce(one)
  BY <1>1, <1>2 DEF Places, SearchedOnce
<1>4. Places(<<>>, {kind}) /\ SearchedOnce(<<>>) /\ Elements(<<>>) = {}
  BY ShortLists DEF Places, SearchedOnce
<1>5. Provided(condition, one) = IF condition THEN one ELSE <<>>
  BY DEF Provided
<1> QED
  BY <1>1, <1>3, <1>4, <1>5 DEF one

(* As many places as there are different things in a list, of one kind.    *)
LEMMA PlacesEach ==
  ASSUME NEW kind, NEW list, IsList(list)
  PROVE  /\ Places(AllAt(kind, list), {kind})
         /\ Len(AllAt(kind, list)) = Len(list)
         /\ Elements(AllAt(kind, list)) = {At(kind, x) : x \in Elements(list)}
         /\ Once(list) => SearchedOnce(AllAt(kind, list))
<1> DEFINE n == Len(list)
           t == AllAt(kind, list)
<1>1. n \in Nat /\ DOMAIN list = 1..n
  BY ListIsSeq
<1>2. t = [i \in 1..n |-> At(kind, list[i])]
  BY <1>1 DEF AllAt
<1> HIDE DEF n, t
<1>3. IsList(t) /\ Len(t) = n /\ \A i \in 1..n : t[i] = At(kind, list[i])
  <2>1. t = [i \in 1..n |-> t[i]]
    BY <1>2
  <2> QED
    BY <1>1, <1>2, <2>1, MadeList
<1>4. \A x, y : At(kind, x).kind = kind /\ (At(kind, x) = At(kind, y) => x = y)
  <2>1. \A x : At(kind, x).kind = kind /\ At(kind, x).place = x
    BY DEF At
  <2> QED
    BY <2>1
<1>5. Elements(t) = {At(kind, x) : x \in Elements(list)}
  BY <1>3 DEF Elements, n
<1>6. Places(t, {kind})
  BY <1>3, <1>4, <1>5 DEF Places
<1>7. Once(list) => SearchedOnce(t)
  BY <1>3, <1>4 DEF Once, SearchedOnce, n
<1> QED
  BY <1>3, <1>5, <1>6, <1>7 DEF t, n

(* The keys of a store, under its base.                                    *)
LEMMA KeysStored ==
  ASSUME NEW base, NEW keys, IsList(keys)
  PROVE  /\ IsList(StoredAt(base, keys))
         /\ Elements(StoredAt(base, keys))
               = {<<base, k>> : k \in Elements(keys)}
         /\ Once(keys) => Once(StoredAt(base, keys))
<1> DEFINE n == Len(keys)
           t == StoredAt(base, keys)
<1>1. n \in Nat /\ DOMAIN keys = 1..n
  BY ListIsSeq
<1>2. t = [i \in 1..n |-> <<base, keys[i]>>]
  BY <1>1 DEF StoredAt
<1> HIDE DEF n, t
<1>3. IsList(t) /\ Len(t) = n /\ \A i \in 1..n : t[i] = <<base, keys[i]>>
  <2>1. t = [i \in 1..n |-> t[i]]
    BY <1>2
  <2> QED
    BY <1>1, <1>2, <2>1, MadeList
<1>4. Elements(t) = {<<base, k>> : k \in Elements(keys)}
  BY <1>3 DEF Elements, n
<1>5. Once(keys) => Once(t)
  BY <1>3 DEF Once, n
<1> QED
  BY <1>3, <1>4, <1>5 DEF t

(* The two names of an asset are different. *)
LEMMA AssetsDiffer ==
  ASSUME NEW org, IsList(org), org # <<>>, NEW name, IsList(name),
         NEW version, IsList(version)
  PROVE  /\ IsList(AssetNames(org, name, version))
         /\ DOMAIN AssetNames(org, name, version) = 1..2
         /\ Len(AssetNames(org, name, version)) = 2
         /\ AssetNames(org, name, version)[1]
               # AssetNames(org, name, version)[2]
<1> DEFINE zpkg == <<"zpkg">>
           first == zpkg \o org \o name \o version
           second == zpkg \o name \o version
<1>1. AssetNames(org, name, version) = <<first, second>>
  BY DEF AssetNames
<1>2. IsList(zpkg) /\ Len(zpkg) = 1
  BY ShortLists
<1>3. Len(org) \in Nat /\ Len(org) # 0
  <2>1. Len(org) = 0 => org = <<>>
    BY DEF IsList
  <2> QED
    BY <2>1, ListIsSeq
<1>4. Len(name) \in Nat /\ Len(version) \in Nat
  BY ListIsSeq
<1> HIDE DEF zpkg
<1>5. /\ IsList(zpkg \o org) /\ Len(zpkg \o org) = 1 + Len(org)
      /\ IsList(zpkg \o name) /\ Len(zpkg \o name) = 1 + Len(name)
  BY <1>2, Concatenated
<1>6. /\ IsList((zpkg \o org) \o name)
      /\ Len((zpkg \o org) \o name) = 1 + Len(org) + Len(name)
  BY <1>5, Concatenated
<1>7. Len(first) = 1 + Len(org) + Len(name) + Len(version)
  BY <1>6, Concatenated
<1>8. Len(second) = 1 + Len(name) + Len(version)
  BY <1>5, Concatenated
<1>9. first # second
  BY <1>3, <1>4, <1>7, <1>8
<1> HIDE DEF first, second
<1> QED
  BY <1>1, <1>9, ShortLists

(* What artifact_locators lists under each kind. *)
LEMMA PartsOfInventory ==
  ASSUME NEW q, IsQuery(q)
  PROVE  /\ Places(RegistryPlaces(q), {"registry"})
         /\ SearchedOnce(RegistryPlaces(q))
         /\ Places(R2Places(q), {"r2"}) /\ SearchedOnce(R2Places(q))
         /\ Places(ReleasePlaces(q), {"release"})
         /\ SearchedOnce(ReleasePlaces(q))
         /\ Places(PackagesPlaces(q), {"packages"})
         /\ SearchedOnce(PackagesPlaces(q))
         /\ Places(ArchivePlaces(q), {"archive"})
         /\ SearchedOnce(ArchivePlaces(q))
<1> DEFINE identity == GithubIdentityFor(q.org, q.name, q.repo)
<1>1. Places(<<>>, {"release"}) /\ SearchedOnce(<<>>)
      /\ Places(<<>>, {"packages"})
  BY ShortLists DEF Places, SearchedOnce
<1>2. Places(RegistryPlaces(q), {"registry"}) /\ SearchedOnce(RegistryPlaces(q))
  BY OnePlace DEF RegistryPlaces
<1>3. Places(ArchivePlaces(q), {"archive"}) /\ SearchedOnce(ArchivePlaces(q))
  BY OnePlace DEF ArchivePlaces
<1>4. Places(R2Places(q), {"r2"}) /\ SearchedOnce(R2Places(q))
  BY KeysOfQuery, KeysStored, PlacesEach DEF R2Places
<1>5. Places(ReleasePlaces(q), {"release"}) /\ SearchedOnce(ReleasePlaces(q))
  <2> DEFINE assets == AssetNames(q.org, q.name, q.version)
             urls == [i \in DOMAIN assets |->
                         ReleaseAsset(identity, q.tag, assets[i])]
  <2>1. /\ DOMAIN assets = 1..2 /\ assets[1] # assets[2]
    BY AssetsDiffer DEF IsQuery
  <2> HIDE DEF assets
  <2>2. IsList(urls) /\ Len(urls) = 2
    BY <2>1, MadeList
  <2>3. \A x, y : ReleaseAsset(identity, q.tag, x)
                    = ReleaseAsset(identity, q.tag, y) => x = y
    BY DEF ReleaseAsset
  <2>4. Once(urls)
    <3>1. /\ urls[1] = ReleaseAsset(identity, q.tag, assets[1])
          /\ urls[2] = ReleaseAsset(identity, q.tag, assets[2])
      BY <2>1
    <3>2. urls[1] # urls[2]
      BY <2>1, <2>3, <3>1
    <3> HIDE DEF urls
    <3> QED
      BY <2>2, <3>2 DEF Once
  <2>5. Places(AllAt("release", urls), {"release"})
        /\ SearchedOnce(AllAt("release", urls))
    BY <2>2, <2>4, PlacesEach
  <2>6. ReleasePlaces(q) = Provided(Enabled(SectionOf(q).release, q.repo),
                                    AllAt("release", urls))
    BY DEF ReleasePlaces, assets
  <2> HIDE DEF urls
  <2> QED
    BY <1>1, <2>5, <2>6 DEF Provided
<1>6. Places(PackagesPlaces(q), {"packages"}) /\ SearchedOnce(PackagesPlaces(q))
  <2> DEFINE manifest == At("packages", GhcrManifest(identity, q.tag))
             blob == At("packages", GhcrBlob(identity, q.sha))
             rest == Provided(q.sha # Absent, <<blob>>)
  <2>1. manifest # blob
    <3>1. manifest.place[2][3] = <<"manifests">>
      BY DEF At, GhcrManifest
    <3>2. blob.place[2][3] = <<"blobs">>
      BY DEF At, GhcrBlob
    <3>3. <<"manifests">> # <<"blobs">>
      OBVIOUS
    <3> QED
      BY <3>1, <3>2, <3>3
  <2>2. Places(<<manifest>>, {"packages"}) /\ SearchedOnce(<<manifest>>)
    BY OnePlace
  <2>3. /\ Places(<<manifest, blob>>, {"packages"})
        /\ SearchedOnce(<<manifest, blob>>)
    <3>1. manifest.kind = "packages" /\ blob.kind = "packages"
      BY DEF At
    <3> HIDE DEF manifest, blob
    <3>2. /\ IsList(<<manifest, blob>>) /\ Len(<<manifest, blob>>) = 2
          /\ <<manifest, blob>>[1] = manifest /\ <<manifest, blob>>[2] = blob
      BY ShortLists
    <3> QED
      BY <2>1, <3>1, <3>2 DEF Places, SearchedOnce, Elements
  <2>4. <<manifest>> \o rest
          = IF q.sha # Absent THEN <<manifest, blob>> ELSE <<manifest>>
    <3> HIDE DEF manifest, blob
    <3>1. <<manifest>> \o <<blob>> = <<manifest, blob>>
      BY TwoTogether
    <3>2. <<manifest>> \o <<>> = <<manifest>>
      OBVIOUS
    <3> QED
      BY <3>1, <3>2 DEF Provided
  <2>5. PackagesPlaces(q) = Provided(Enabled(SectionOf(q).packages, q.repo),
                                     <<manifest>> \o rest)
    BY DEF PackagesPlaces
  <2> HIDE DEF manifest, blob, rest
  <2> QED
    BY <1>1, <2>2, <2>3, <2>4, <2>5 DEF Provided
<1> QED
  BY <1>2, <1>3, <1>4, <1>5, <1>6

(* The inventory of a query has every place once, and each of its parts.   *)
LocatorKinds == {"registry", "r2", "release", "packages", "archive"}
LEMMA InventoryOfQuery ==
  ASSUME NEW q, IsQuery(q)
  PROVE  /\ Places(ArtifactLocators(q), LocatorKinds)
         /\ SearchedOnce(ArtifactLocators(q))
         /\ Elements(ArtifactLocators(q))
               = Elements(RegistryPlaces(q)) \cup Elements(R2Places(q))
                 \cup Elements(ReleasePlaces(q))
                 \cup Elements(PackagesPlaces(q))
                 \cup Elements(ArchivePlaces(q))
<1> DEFINE two == RegistryPlaces(q) \o R2Places(q)
           three == two \o ReleasePlaces(q)
           four == three \o PackagesPlaces(q)
           five == four \o ArchivePlaces(q)
           K2 == {"registry", "r2"}
           K3 == {"registry", "r2", "release"}
           K4 == {"registry", "r2", "release", "packages"}
<1>1. /\ Places(two, K2) /\ SearchedOnce(two)
      /\ Elements(two) = Elements(RegistryPlaces(q)) \cup Elements(R2Places(q))
  <2> DEFINE K == {"registry"}
             M == {"r2"}
  <2>1. Apart(K, M, K2)
    BY DEF Apart
  <2>2. /\ Places(RegistryPlaces(q), K) /\ SearchedOnce(RegistryPlaces(q))
        /\ Places(R2Places(q), M) /\ SearchedOnce(R2Places(q))
    BY PartsOfInventory
  <2> HIDE DEF K, M, K2
  <2> QED
    BY <2>1, <2>2, PlacesTogether
<1>2. /\ Places(three, K3) /\ SearchedOnce(three)
      /\ Elements(three) = Elements(two) \cup Elements(ReleasePlaces(q))
  <2> DEFINE M == {"release"}
  <2>1. Apart(K2, M, K3)
    BY DEF Apart
  <2>2. Places(ReleasePlaces(q), M) /\ SearchedOnce(ReleasePlaces(q))
    BY PartsOfInventory
  <2> HIDE DEF M, K2, K3, two
  <2> QED
    BY <1>1, <2>1, <2>2, PlacesTogether
<1>3. /\ Places(four, K4) /\ SearchedOnce(four)
      /\ Elements(four) = Elements(three) \cup Elements(PackagesPlaces(q))
  <2> DEFINE M == {"packages"}
  <2>1. Apart(K3, M, K4)
    BY DEF Apart
  <2>2. Places(PackagesPlaces(q), M) /\ SearchedOnce(PackagesPlaces(q))
    BY PartsOfInventory
  <2> HIDE DEF M, K3, K4, three
  <2> QED
    BY <1>2, <2>1, <2>2, PlacesTogether
<1>4. /\ Places(five, LocatorKinds) /\ SearchedOnce(five)
      /\ Elements(five) = Elements(four) \cup Elements(ArchivePlaces(q))
  <2> DEFINE M == {"archive"}
  <2>1. Apart(K4, M, LocatorKinds)
    BY DEF LocatorKinds, Apart
  <2>2. Places(ArchivePlaces(q), M) /\ SearchedOnce(ArchivePlaces(q))
    BY PartsOfInventory
  <2> HIDE DEF M, K4, four
  <2> QED
    BY <1>3, <2>1, <2>2, PlacesTogether
<1>5. ArtifactLocators(q) = five
  BY DEF ArtifactLocators
<1> HIDE DEF two, three, four, five
<1> QED
  BY <1>1, <1>2, <1>3, <1>4, <1>5

-----------------------------------------------------------------------------
(* What is compared by a number is in a weak order. *)
LEMMA NumbersCompare ==
  ASSUME NEW n, NEW f, \A i \in 1..n : f[i] \in Int, NEW less,
         \A i, j \in 1..n : <<i, j>> \in less <=> f[i] < f[j]
  PROVE  WeakOrder(1..n, less)
BY DEF WeakOrder

(* The recovery order: what is not the registry, each place once, none     *)
(* after one of a later kind.                                              *)
Recovers(list, q) ==
    /\ Places(list, NotTheRegistry) /\ SearchedOnce(list)
    /\ Elements(list)
          = {l \in Elements(ArtifactLocators(q)) : l.kind \in NotTheRegistry}
    /\ \A i, j \in 1..Len(list) :
          i < j => ~(RecoveryPriority[list[j].kind]
                        < RecoveryPriority[list[i].kind])
LEMMA RecoveryOfQuery ==
  ASSUME NEW q, IsQuery(q)
  PROVE  Recovers(RecoveryLocators(q), q)
<1> DEFINE s == OfKinds(ArtifactLocators(q), NotTheRegistry)
           n == Len(s)
           Earlier(a, b) == RecoveryPriority[a.kind] < RecoveryPriority[b.kind]
           less == {pair \in (1..n) \X (1..n) : Earlier(s[pair[1]], s[pair[2]])}
           t == Arranged(s, 1..n, Stably(n, less))
<1>1. /\ Places(s, NotTheRegistry) /\ SearchedOnce(s)
      /\ Elements(s)
            = {l \in Elements(ArtifactLocators(q)) : l.kind \in NotTheRegistry}
  BY InventoryOfQuery, PlacesOfKinds DEF Places
<1>2. RecoveryLocators(q) = t
  BY DEF RecoveryLocators, SortedBy, Positions
<1> HIDE DEF s
<1>3. IsList(s) /\ n \in Nat
  BY <1>1, ListIsSeq DEF Places
<1>4. \A k \in NotTheRegistry : RecoveryPriority[k] \in Int
  BY DEF NotTheRegistry, RecoveryPriority
<1>5. \A i \in 1..n : s[i].kind \in NotTheRegistry
  BY <1>1 DEF Places, Elements
<1>6. \A i, j \in 1..n : <<i, j>> \in less <=> Earlier(s[i], s[j])
  OBVIOUS
<1> HIDE DEF less, n
<1>7. WeakOrder(1..n, less)
  <2> DEFINE f == [i \in 1..n |-> RecoveryPriority[s[i].kind]]
  <2>1. \A i \in 1..n : f[i] \in Int
    BY <1>4, <1>5
  <2>2. \A i, j \in 1..n : <<i, j>> \in less <=> f[i] < f[j]
    BY <1>6
  <2> HIDE DEF f
  <2> QED
    BY <2>1, <2>2, NumbersCompare
<1>8. PICK g : /\ Reorders(t, s, g)
               /\ \A i, j \in 1..n : i < j => <<g[j], g[i]>> \notin less
  BY <1>3, <1>7, SortedLists DEF n
<1> HIDE DEF t
<1>9. IsList(t) /\ Len(t) = n /\ Elements(t) = Elements(s)
  BY <1>3, <1>8, ReorderedElements DEF n
<1>10. /\ \A i \in 1..n : g[i] \in 1..n /\ t[i] = s[g[i]]
       /\ \A i, j \in 1..n : g[i] = g[j] => i = j
  BY <1>8 DEF Reorders, n
<1>11. SearchedOnce(t)
  <2> SUFFICES ASSUME NEW i \in 1..n, NEW j \in 1..n, t[i] = t[j],
                      t[i].kind # "mirror"
               PROVE  i = j
    BY <1>9 DEF SearchedOnce
  <2>1. /\ g[i] \in 1..Len(s) /\ g[j] \in 1..Len(s)
        /\ s[g[i]] = s[g[j]] /\ s[g[i]].kind # "mirror"
    BY <1>10 DEF n
  <2>2. g[i] = g[j]
    BY <1>1, <2>1 DEF SearchedOnce
  <2> QED
    BY <1>10, <2>2
<1>12. Places(t, NotTheRegistry)
  BY <1>1, <1>9 DEF Places
<1>13. ASSUME NEW i \in 1..n, NEW j \in 1..n, i < j
       PROVE  ~(RecoveryPriority[t[j].kind] < RecoveryPriority[t[i].kind])
  BY <1>6, <1>8, <1>10, <1>13
<1> QED
  BY <1>1, <1>2, <1>9, <1>11, <1>12, <1>13 DEF Recovers

-----------------------------------------------------------------------------
(* Lists of lists, one after the other. *)
LEMMA FlattenedLists ==
  ASSUME NEW lists, IsList(lists), \A i \in 1..Len(lists) : IsList(lists[i])
  PROVE  /\ IsList(FlattenSeq(lists))
         /\ \A x : x \in Elements(FlattenSeq(lists))
                     <=> \E i \in 1..Len(lists) : x \in Elements(lists[i])
<1> DEFINE n == Len(lists)
           T == UNION {Elements(lists[i]) : i \in 1..n}
           V == Seq(T)
           Made(f) == f = [i \in 1..n |-> IF i = 1 THEN lists[i]
                                          ELSE f[i - 1] \o lists[i]]
           F == CHOOSE f : Made(f)
<1>1. n \in Nat /\ DOMAIN lists = 1..n
  BY ListIsSeq
<1>2. CASE n = 0
  <2>1. FlattenSeq(lists) = lists
    BY <1>2 DEF FlattenSeq
  <2>2. Elements(lists) = {}
    BY <1>2 DEF Elements
  <2> QED
    BY <1>2, <2>1, <2>2
<1>3. CASE n # 0
  <2>1. FlattenSeq(lists) = F[n]
    BY <1>3 DEF FlattenSeq
  <2>2. \A i \in 1..n : lists[i] \in V
    <3> SUFFICES ASSUME NEW i \in 1..n
                 PROVE  lists[i] \in V
      OBVIOUS
    <3>1. lists[i] \in Seq(Elements(lists[i]))
      BY ListIsSeq
    <3>2. Elements(lists[i]) \subseteq T
      OBVIOUS
    <3> QED
      BY <3>1, <3>2
  <2>3. \A v \in V, w \in V : (v \o w) \in V
    OBVIOUS
  <2>4. <<>> \in V /\ \A v \in V : <<>> \o v = v
    OBVIOUS
  <2>5. \A v \in V : IsList(v) /\ Elements(v) \subseteq T
    BY SequenceLists
  <2> HIDE DEF V
  <2> DEFINE step == [i \in 1..n |-> [v \in V |-> v \o lists[i]]]
  <2>6. step \in [1..n -> [V -> V]]
    BY <2>2, <2>3
  <2>7. PICK f \in [0..n -> V] : TakesSteps(f, n, <<>>, step)
    BY <1>1, <2>4, <2>6, StepsAreTaken
  <2>8. ASSUME NEW i \in 1..n
        PROVE  f[i] = f[i - 1] \o lists[i]
    <3>1. i - 1 \in 0..n
      BY <1>1
    <3>2. f[i] = step[i][f[i - 1]] /\ f[i - 1] \in V
      BY <2>7, <3>1 DEF TakesSteps
    <3> QED
      BY <3>2
  <2>9. f[0] = <<>>
    BY <2>7 DEF TakesSteps
  <2> DEFINE G == [i \in 1..n |-> f[i]]
  <2>10. Made(G)
    <3>1. ASSUME NEW i \in 1..n
          PROVE  f[i] = IF i = 1 THEN lists[i] ELSE G[i - 1] \o lists[i]
      <4>1. CASE i = 1
        <5>1. i - 1 = 0
          BY <4>1
        <5>2. f[i] = <<>> \o lists[i]
          BY <2>8, <2>9, <5>1
        <5>3. f[i] = lists[i]
          BY <2>2, <2>4, <5>2
        <5> QED
          BY <4>1, <5>3
      <4>2. CASE i # 1
        <5>1. i - 1 \in 1..n
          BY <1>1, <4>2
        <5> QED
          BY <2>8, <4>2, <5>1
      <4> QED
        BY <4>1, <4>2
    <3> QED
      BY <3>1
  <2> HIDE DEF G
  <2>11. Made(F)
    BY <2>10
  <2> HIDE DEF F
  <2>12. /\ F[1] = lists[1]
         /\ \A i \in 1..n : i # 1 => F[i] = F[i - 1] \o lists[i]
    <3>1. 1 \in 1..n
      BY <1>1, <1>3
    <3> QED
      BY <2>11, <3>1
  <2>13. \A i \in 1..n : F[i] \in V
    <3> DEFINE B == {i \in 1..n : F[i] \notin V}
    <3> SUFFICES ASSUME B # {}
                 PROVE  FALSE
      OBVIOUS
    <3>1. B \subseteq Nat
      OBVIOUS
    <3> HIDE DEF B
    <3>2. PICK k \in B : \A j \in B : k <= j
      BY <3>1, LeastNumber
    <3>3. k \in 1..n /\ F[k] \notin V
      BY <3>2 DEF B
    <3>4. k # 1
      BY <2>2, <2>12, <3>3
    <3>5. k - 1 \in 1..n /\ ~(k <= k - 1)
      BY <1>1, <3>3, <3>4
    <3>6. F[k - 1] \in V
      BY <3>2, <3>5 DEF B
    <3> QED
      BY <2>2, <2>3, <2>12, <3>3, <3>4, <3>6
  <2>14. ASSUME NEW m \in 1..n, NEW x \in Elements(lists[m])
         PROVE  x \in Elements(F[n])
    <3> DEFINE B == {i \in m..n : x \notin Elements(F[i])}
    <3> SUFFICES ASSUME B # {}
                 PROVE  FALSE
      BY <1>1
    <3>1. B \subseteq Nat
      OBVIOUS
    <3> HIDE DEF B
    <3>2. PICK k \in B : \A j \in B : k <= j
      BY <3>1, LeastNumber
    <3>3. k \in m..n /\ k \in 1..n /\ x \notin Elements(F[k])
      BY <3>2 DEF B
    <3>4. k # 1
      BY <2>12, <3>3
    <3>5. k - 1 \in 1..n /\ ~(k <= k - 1)
      BY <1>1, <3>3, <3>4
    <3>6. Elements(F[k]) = Elements(F[k - 1]) \cup Elements(lists[k])
      <4>1. IsList(F[k - 1]) /\ IsList(lists[k])
        BY <2>5, <2>13, <3>3, <3>5
      <4>2. F[k] = F[k - 1] \o lists[k]
        BY <2>12, <3>3, <3>4
      <4> QED
        BY <4>1, <4>2, ElementsOfBoth
    <3>7. k # m
      BY <3>3, <3>6
    <3>8. k - 1 \in m..n
      BY <1>1, <3>3, <3>7
    <3>9. x \in Elements(F[k - 1])
      BY <3>2, <3>5, <3>8 DEF B
    <3> QED
      BY <3>3, <3>6, <3>9
  <2>15. n \in 1..n
    BY <1>1, <1>3
  <2>16. IsList(F[n]) /\ Elements(F[n]) \subseteq T
    BY <2>5, <2>13, <2>15
  <2> QED
    BY <2>1, <2>14, <2>16
<1> QED
  BY <1>2, <1>3

-----------------------------------------------------------------------------
(* What resolved_mirrors returns, when it is no error. *)
AreMirrors(list) ==
    /\ IsList(list)
    /\ \A i \in 1..Len(list) : IsMirror(list[i])
LEMMA ResolvedAreMirrors ==
  ASSUME NEW mirrors, AreMirrors(mirrors), NEW repo, NEW section,
         ResolvedMirrors(mirrors, repo, section) # Malformed
  PROVE  /\ AreMirrors(ResolvedMirrors(mirrors, repo, section))
         /\ \A i \in 1..Len(ResolvedMirrors(mirrors, repo, section)) :
               ValidMirror(ResolvedMirrors(mirrors, repo, section)[i])
<1> DEFINE isGithub(m) == m.kind \in {"github-release", "github-raw"}
           guessed == Provided(/\ Enabled(section.release, repo)
                               /\ RepoRef(repo) # Absent
                               /\ \A i \in DOMAIN mirrors :
                                     ~isGithub(mirrors[i]),
                               <<GithubReleaseOf(repo)>>)
           withGithub == mirrors \o guessed
           stored == Provided(/\ section.base # Absent
                              /\ \A i \in DOMAIN withGithub :
                                    withGithub[i].url # section.base,
                              <<ObjectStore(section.base)>>)
           all == withGithub \o stored
<1>1. /\ all = ResolvedMirrors(mirrors, repo, section)
      /\ ~ \E i \in DOMAIN all : ~ValidMirror(all[i])
  BY DEF ResolvedMirrors
<1>2. \A url : IsMirror(ObjectStore(url)) /\ IsMirror(GithubReleaseOf(url))
  BY ShortLists DEF IsMirror, ObjectStore, GithubReleaseOf
<1>3. ASSUME NEW m, IsMirror(m)
      PROVE  AreMirrors(<<m>>)
  <2> DEFINE s == <<m>>
  <2>1. IsList(s) /\ Len(s) = 1 /\ s[1] = m
    BY ShortLists
  <2> HIDE DEF s
  <2>2. AreMirrors(s)
    BY <1>3, <2>1 DEF AreMirrors
  <2> QED
    BY <2>2 DEF s
<1>4. AreMirrors(<<>>)
  BY ShortLists DEF AreMirrors
<1>5. AreMirrors(guessed)
  BY <1>2, <1>3, <1>4 DEF Provided
<1>6. AreMirrors(stored)
  BY <1>2, <1>3, <1>4 DEF Provided
<1>7. ASSUME NEW s, AreMirrors(s), NEW t, AreMirrors(t)
      PROVE  AreMirrors(s \o t)
  <2>1. /\ IsList(s \o t)
        /\ Elements(s \o t) = Elements(s) \cup Elements(t)
    BY <1>7, ElementsOfBoth DEF AreMirrors
  <2>2. \A m \in Elements(s) \cup Elements(t) : IsMirror(m)
    BY <1>7 DEF AreMirrors, Elements
  <2> QED
    BY <2>1, <2>2 DEF AreMirrors, Elements
<1> HIDE DEF guessed, stored
<1>8. AreMirrors(all)
  BY <1>5, <1>6, <1>7
<1>9. DOMAIN all = 1..Len(all)
  BY <1>8, ListIsSeq DEF AreMirrors
<1> HIDE DEF all
<1> QED
  BY <1>1, <1>8, <1>9

(* A mirror's first address, if it has one, is among its bases.            *)
LEMMA BasesOfMirror ==
  ASSUME NEW m, IsMirror(m)
  PROVE  /\ IsList(BaseUrls(m))
         /\ Given(m.url) => m.url \in Elements(BaseUrls(m))
<1> DEFINE one == <<m.url>>
           urls == one \o m.alternates
           kept == {i \in 1..Len(urls) : Given(urls[i])}
<1>1. /\ IsList(one) /\ Len(one) = 1 /\ one[1] = m.url
      /\ IsList(m.alternates) /\ Len(m.alternates) \in Nat
  BY ShortLists, ListIsSeq DEF IsMirror
<1> HIDE DEF one
<1>2. /\ IsList(urls) /\ Len(urls) = Len(one) + Len(m.alternates)
      /\ \A i \in 1..(Len(one) + Len(m.alternates)) :
            urls[i] = IF i <= Len(one) THEN one[i]
                      ELSE m.alternates[i - Len(one)]
  BY <1>1, Concatenated
<1>3. 1 \in 1..Len(urls) /\ urls[1] = m.url
  BY <1>1, <1>2
<1>4. BaseUrls(m) = Arranged(urls, kept, ByPosition(urls))
  BY DEF BaseUrls, one
<1> HIDE DEF urls
<1>5. Keeps(BaseUrls(m), urls, kept)
  BY <1>2, <1>4, KeptElements
<1> QED
  BY <1>3, <1>5 DEF Keeps

(* The URLs of a mirror; a store's coordinate key is among them.           *)
CoordinateOf(q) ==
    [org |-> q.org, name |-> q.name, sha |-> q.sha, version |-> q.version,
     tag |-> q.tag]
LEMMA UrlsOfMirror ==
  ASSUME NEW m, IsMirror(m), NEW q
  PROVE  /\ IsList(MirrorArtifactUrls(m, CoordinateOf(q)))
         /\ ValidMirror(m) /\ m.kind = "object-store" /\ Given(m.url) =>
               <<m.url, PackageKey(q)>>
                  \in Elements(MirrorArtifactUrls(m, CoordinateOf(q)))
<1> DEFINE c == CoordinateOf(q)
           repo == MirrorRepository(m)
           identity == GithubIdentityFor(c.org, c.name, repo)
           asked == [org |-> c.org, name |-> c.name,
                     version |-> c.version, sha |-> c.sha,
                     tag |-> IF c.tag = <<>> THEN c.version ELSE c.tag,
                     repo |-> repo, section |-> Absent]
           again == Provided(c.sha # Absent, <<ContentKey(c.sha)>>)
           keys == R2ObjectKeys(asked) \o again
           bases == BaseUrls(m)
           digest == <<Append(m.prefix, c.sha)>>
           names == AssetNames(c.org, c.name, c.version)
           assets == digest \o names
           spelled == GitTagsForVersion(c.version)
           Tagged(tag) == [i \in DOMAIN assets |->
                              ReleaseAsset(identity, tag, assets[i])]
           stored == [i \in DOMAIN bases |-> StoredAt(bases[i], keys)]
           tagged == [i \in DOMAIN spelled |-> Tagged(spelled[i])]
           urls == MirrorArtifactUrls(m, c)
<1>1. urls = IF ~ValidMirror(m) \/ m.kind = "directory" THEN <<>>
             ELSE IF m.kind \in {"object-store", "zed-registry"}
             THEN FlattenSeq(stored) ELSE FlattenSeq(tagged)
  BY DEF MirrorArtifactUrls
<1>2. PackageKey(asked) = PackageKey(q)
  BY DEF PackageKey, FileName, CoordinateOf
<1>3. IsList(again)
  BY ShortLists DEF Provided
<1>4. IsList(R2ObjectKeys(asked))
      /\ PackageKey(q) \in Elements(R2ObjectKeys(asked))
  <2> HIDE DEF asked
  <2> QED
    BY <1>2, KeysOfQuery
<1> HIDE DEF again, asked
<1>5. IsList(keys) /\ PackageKey(q) \in Elements(keys)
  BY <1>3, <1>4, ElementsOfBoth
<1>6. IsList(bases) /\ (Given(m.url) => m.url \in Elements(bases))
  BY BasesOfMirror
<1>7. IsList(assets)
  <2>1. IsList(digest) /\ IsList(names)
    BY ShortLists DEF AssetNames
  <2> HIDE DEF digest, names
  <2> QED
    BY <2>1, ElementsOfBoth
<1>8. IsList(spelled)
  BY ShortLists DEF GitTagsForVersion
<1> HIDE DEF keys, bases, assets, spelled
<1>9. /\ DOMAIN bases = 1..Len(bases) /\ Len(bases) \in Nat
      /\ DOMAIN spelled = 1..Len(spelled) /\ Len(spelled) \in Nat
      /\ DOMAIN assets = 1..Len(assets) /\ Len(assets) \in Nat
  BY <1>6, <1>7, <1>8, ListIsSeq
<1>10. /\ IsList(FlattenSeq(stored))
       /\ \A i \in 1..Len(bases) : \A x \in Elements(StoredAt(bases[i], keys)) :
             x \in Elements(FlattenSeq(stored))
  <2>1. IsList(stored) /\ Len(stored) = Len(bases)
    BY <1>9, MadeList
  <2>2. \A i \in 1..Len(bases) : stored[i] = StoredAt(bases[i], keys)
    BY <1>9
  <2> HIDE DEF stored
  <2>3. \A i \in 1..Len(stored) : IsList(stored[i])
    BY <1>5, <2>1, <2>2, KeysStored
  <2> QED
    BY <2>1, <2>2, <2>3, FlattenedLists
<1>11. IsList(FlattenSeq(tagged))
  <2>1. IsList(tagged) /\ Len(tagged) = Len(spelled)
    BY <1>9, MadeList
  <2>2. \A tag : IsList(Tagged(tag))
    BY <1>9, MadeList
  <2>3. \A i \in 1..Len(spelled) : tagged[i] = Tagged(spelled[i])
    BY <1>9
  <2> HIDE DEF Tagged, tagged
  <2>4. \A i \in 1..Len(tagged) : IsList(tagged[i])
    BY <2>1, <2>2, <2>3
  <2> QED
    BY <2>1, <2>4, FlattenedLists
<1> HIDE DEF stored, tagged
<1>12. IsList(urls)
  BY <1>1, <1>10, <1>11, ShortLists
<1>13. ASSUME ValidMirror(m), m.kind = "object-store", Given(m.url)
       PROVE  <<m.url, PackageKey(q)>> \in Elements(urls)
  <2>1. urls = FlattenSeq(stored)
    BY <1>1, <1>13
  <2>2. PICK i \in 1..Len(bases) : bases[i] = m.url
    BY <1>6, <1>13 DEF Elements
  <2>3. <<m.url, PackageKey(q)>> \in Elements(StoredAt(bases[i], keys))
    BY <1>5, <2>2, KeysStored
  <2> QED
    BY <1>10, <2>1, <2>3
<1> QED
  BY <1>12, <1>13

(* The mirrors in the order of their priorities: the same mirrors.         *)
LEMMA MirrorsInOrder ==
  ASSUME NEW list, AreMirrors(list)
  PROVE  LET t == SortedBy(list, LAMBDA a, b : a.priority < b.priority)
         IN  IsList(t) /\ Elements(t) = Elements(list)
<1> DEFINE n == Len(list)
           less == {pair \in (1..n) \X (1..n) :
                       list[pair[1]].priority < list[pair[2]].priority}
           t == Arranged(list, 1..n, Stably(n, less))
<1>1. SortedBy(list, LAMBDA a, b : a.priority < b.priority) = t
  BY DEF SortedBy, Positions
<1>2. IsList(list) /\ n \in Nat
  BY ListIsSeq DEF AreMirrors
<1>3. \A i \in 1..n : list[i].priority \in Int
  BY DEF AreMirrors, IsMirror
<1>4. WeakOrder(1..n, less)
  <2> DEFINE f == [i \in 1..n |-> list[i].priority]
  <2>1. \A i \in 1..n : f[i] \in Int
    BY <1>3
  <2>2. \A i, j \in 1..n : <<i, j>> \in less <=> f[i] < f[j]
    OBVIOUS
  <2> HIDE DEF f, less
  <2> QED
    BY <1>2, <2>1, <2>2, NumbersCompare
<1> HIDE DEF less
<1>5. PICK g : Reorders(t, list, g)
  BY <1>2, <1>4, SortedLists
<1> HIDE DEF t
<1>6. IsList(t) /\ Elements(t) = Elements(list)
  BY <1>2, <1>5, ReorderedElements
<1> QED
  BY <1>1, <1>6

-----------------------------------------------------------------------------
(* Every mirror's URLs are searched, those of each store by its coordinate *)
(* key.                                                                    *)
StoresAreIn(list, mirrors, q) ==
    \A i \in 1..Len(mirrors) :
        mirrors[i].kind = "object-store" /\ Given(mirrors[i].url) =>
            At("mirror", <<mirrors[i].url, PackageKey(q)>>) \in Elements(list)
LEMMA SearchOfMirrors ==
  ASSUME NEW q, NEW list, AreMirrors(list),
         \A i \in 1..Len(list) : ValidMirror(list[i])
  PROVE  /\ Places(MirrorPlaces(q, list), {"mirror"})
         /\ StoresAreIn(MirrorPlaces(q, list), list, q)
<1> DEFINE t == SortedBy(list, LAMBDA a, b : a.priority < b.priority)
           c == CoordinateOf(q)
           Urls(m) == AllAt("mirror", MirrorArtifactUrls(m, c))
           urls == [i \in DOMAIN t |-> Urls(t[i])]
           found == MirrorPlaces(q, list)
<1>1. found = FlattenSeq(urls)
  BY DEF MirrorPlaces, CoordinateOf
<1> HIDE DEF found
<1>2. IsList(t) /\ Elements(t) = Elements(list)
  BY MirrorsInOrder
<1> HIDE DEF t
<1>3. DOMAIN t = 1..Len(t) /\ Len(t) \in Nat
  BY <1>2, ListIsSeq
<1>4. \A m \in Elements(list) : IsMirror(m) /\ ValidMirror(m)
  BY DEF AreMirrors, Elements
<1>5. ASSUME NEW m \in Elements(list)
      PROVE  /\ Places(Urls(m), {"mirror"})
             /\ m.kind = "object-store" /\ Given(m.url) =>
                   At("mirror", <<m.url, PackageKey(q)>>) \in Elements(Urls(m))
  BY <1>4, UrlsOfMirror, PlacesEach
<1>6. \A i \in 1..Len(t) : t[i] \in Elements(list)
  BY <1>2 DEF Elements
<1>7. /\ IsList(urls) /\ Len(urls) = Len(t)
      /\ \A i \in 1..Len(t) : urls[i] = Urls(t[i])
  BY <1>3, MadeList
<1> HIDE DEF urls, Urls
<1>8. \A i \in 1..Len(urls) : IsList(urls[i])
  BY <1>5, <1>6, <1>7 DEF Places
<1>9. /\ IsList(found)
      /\ \A x : x \in Elements(found)
                  <=> \E i \in 1..Len(urls) : x \in Elements(urls[i])
  BY <1>1, <1>7, <1>8, FlattenedLists
<1>10. Places(found, {"mirror"})
  BY <1>5, <1>6, <1>7, <1>9 DEF Places
<1>11. ASSUME NEW m \in Elements(list), NEW x \in Elements(Urls(m))
       PROVE  x \in Elements(found)
  <2>1. PICK i \in 1..Len(t) : t[i] = m
    BY <1>2 DEF Elements
  <2> QED
    BY <1>7, <1>9, <1>11, <2>1
<1>12. ASSUME NEW i \in 1..Len(list), list[i].kind = "object-store",
              Given(list[i].url)
       PROVE  At("mirror", <<list[i].url, PackageKey(q)>>) \in Elements(found)
  <2>1. list[i] \in Elements(list)
    BY DEF Elements
  <2> QED
    BY <1>5, <1>11, <1>12, <2>1
<1> QED
  BY <1>10, <1>12 DEF found, StoresAreIn

(* The whole search: every place of the inventory, once; those on GitHub   *)
(* before the CDN and the mirrors; and each store's coordinate key.        *)
GithubIsEarlier(list, q) ==
    \A i \in 1..Len(list) : list[i].kind \in {"r2", "mirror"} =>
        \A l \in Elements(ArtifactLocators(q)) : l.kind \in Github =>
            \E j \in 1..(i - 1) : list[j] = l
Searches(list) ==
    /\ IsList(list) /\ SearchedOnce(list)
    /\ Elements(ArtifactLocators(query)) \subseteq Elements(list)
    /\ GithubIsEarlier(list, query)
    /\ query.repo # Absent =>
          StoresAreIn(list, ResolvedMirrorsOf(query), query)
LEMMA SearchOfQuery ==
  ASSUME IsQuery(query),
         query.repo # Absent =>
            /\ AreMirrors(ResolvedMirrorsOf(query))
            /\ \A i \in 1..Len(ResolvedMirrorsOf(query)) :
                  ValidMirror(ResolvedMirrorsOf(query)[i])
  PROVE  Searches(Search)
<1> DEFINE reg == OfKinds(ArtifactLocators(query), {"registry"})
           rec == RecoveryLocators(query)
           mir == Provided(query.repo # Absent,
                           MirrorPlaces(query, ResolvedMirrorsOf(query)))
           both == reg \o rec
           all == both \o mir
           K == {"registry", "r2", "release", "packages", "archive"}
           N == K \cup {"mirror"}
           inventory == Elements(ArtifactLocators(query))
<1>1. /\ Places(reg, {"registry"}) /\ SearchedOnce(reg)
      /\ Elements(reg) = {l \in inventory : l.kind \in {"registry"}}
  BY InventoryOfQuery, PlacesOfKinds DEF Places
<1>2. Recovers(rec, query)
  BY RecoveryOfQuery
<1>3. /\ Places(mir, {"mirror"})
      /\ query.repo # Absent =>
            StoresAreIn(mir, ResolvedMirrorsOf(query), query)
  <2>1. CASE query.repo # Absent
    BY <2>1, SearchOfMirrors DEF Provided
  <2>2. CASE query.repo = Absent
    BY <2>2, ShortLists DEF Provided, Places
  <2> QED
    BY <2>1, <2>2
<1>4. SearchedOnce(mir)
  BY <1>3 DEF Places, SearchedOnce, Elements
<1>5. Search = all
  BY DEF Search
<1> HIDE DEF reg, rec, mir
<1>6. /\ Places(both, K) /\ SearchedOnce(both)
      /\ Elements(both) = Elements(reg) \cup Elements(rec)
  <2> DEFINE L == {"registry"}
             M == NotTheRegistry
  <2>1. Apart(L, M, K)
    BY DEF Apart, NotTheRegistry
  <2>2. Places(reg, L) /\ Places(rec, M) /\ SearchedOnce(rec)
    BY <1>1, <1>2 DEF Recovers
  <2> HIDE DEF L, M, K
  <2> QED
    BY <1>1, <2>1, <2>2, PlacesTogether
<1>7. /\ Places(all, N) /\ SearchedOnce(all)
      /\ Elements(all) = Elements(both) \cup Elements(mir)
  <2> DEFINE M == {"mirror"}
  <2>1. Apart(K, M, N)
    BY DEF Apart
  <2> HIDE DEF M, K, N, both
  <2> QED
    BY <1>3, <1>4, <1>6, <2>1, PlacesTogether DEF M
<1>8. inventory \subseteq Elements(all)
  <2>1. \A l \in inventory : l.kind = "registry" \/ l.kind \in NotTheRegistry
    BY InventoryOfQuery DEF Places, LocatorKinds, NotTheRegistry
  <2> QED
    BY <1>1, <1>2, <1>6, <1>7, <2>1 DEF Recovers
<1>9. GithubIsEarlier(all, query)
  <2> DEFINE r == Len(reg)
             n == Len(rec)
             m == Len(mir)
  <2> SUFFICES ASSUME NEW i \in 1..Len(all),
                      all[i].kind \in {"r2", "mirror"},
                      NEW l \in inventory, l.kind \in Github
               PROVE  \E j \in 1..(i - 1) : all[j] = l
    BY DEF GithubIsEarlier
  <2>1. /\ IsList(reg) /\ IsList(rec) /\ IsList(mir) /\ IsList(both)
        /\ r \in Nat /\ n \in Nat /\ m \in Nat
    BY <1>1, <1>2, <1>3, <1>6, ListIsSeq DEF Places, Recovers
  <2>2. /\ Len(both) = r + n
        /\ \A p \in 1..(r + n) : both[p] = IF p <= r THEN reg[p]
                                          ELSE rec[p - r]
    BY <2>1, Concatenated
  <2>3. /\ Len(all) = Len(both) + m
        /\ \A p \in 1..(Len(both) + m) :
              all[p] = IF p <= Len(both) THEN both[p]
                       ELSE mir[p - Len(both)]
    BY <2>1, Concatenated
  <2> HIDE DEF both, all, r, n, m, inventory
  <2>4. PICK k \in 1..n : rec[k] = l
    <3>1. l \in Elements(rec)
      BY <1>2 DEF Recovers, NotTheRegistry, Github, inventory
    <3> QED
      BY <3>1 DEF Elements, n
  <2>5. /\ k + r \in 1..(r + n) /\ k + r \in 1..Len(all)
        /\ all[k + r] = l
    <3>1. /\ k + r \in 1..(r + n) /\ ~(k + r <= r) /\ (k + r) - r = k
          /\ k + r \in 1..(Len(both) + m) /\ k + r <= Len(both)
      BY <2>1, <2>2
    <3> QED
      BY <2>2, <2>3, <2>4, <3>1
  <2>6. CASE i > r + n
    <3>1. k + r \in 1..(i - 1)
      BY <2>1, <2>5, <2>6
    <3> QED
      BY <2>5, <3>1
  <2>7. CASE i <= r
    <3>1. i \in 1..r /\ all[i] = reg[i]
      BY <2>1, <2>2, <2>3, <2>7
    <3>2. reg[i].kind = "registry"
      BY <1>1, <3>1 DEF Places, Elements, r
    <3> QED
      BY <3>1, <3>2
  <2>8. CASE r < i /\ i <= r + n
    <3>1. i - r \in 1..n /\ all[i] = rec[i - r] /\ i \in Nat
      BY <2>1, <2>2, <2>3, <2>8
    <3>2. rec[i - r].kind \in NotTheRegistry
      BY <1>2, <3>1 DEF Recovers, Places, Elements, n
    <3>3. rec[i - r].kind = "r2"
      BY <3>1, <3>2 DEF NotTheRegistry
    <3>4. RecoveryPriority[rec[k].kind] < RecoveryPriority[rec[i - r].kind]
      BY <2>4, <3>3 DEF Github, RecoveryPriority
    <3>5. ~(i - r < k)
      BY <1>2, <2>4, <3>1, <3>4 DEF Recovers, n
    <3>6. i - r # k
      BY <2>4, <3>3 DEF Github
    <3>7. k + r \in 1..(i - 1)
      BY <2>1, <2>5, <3>1, <3>5, <3>6
    <3> QED
      BY <2>5, <3>7
  <2>9. i \in Nat
    BY <2>1, <2>2, <2>3
  <2> QED
    BY <2>1, <2>6, <2>7, <2>8, <2>9
<1> HIDE DEF all
<1>10. query.repo # Absent => StoresAreIn(all, ResolvedMirrorsOf(query), query)
  BY <1>3, <1>7 DEF StoresAreIn
<1> QED
  BY <1>5, <1>7, <1>8, <1>9, <1>10 DEF Searches, Places

-----------------------------------------------------------------------------
(* What a client knows of a version: as much as the publisher, or without  *)
(* the digest, or only the names.                                          *)
SameNames(q, r) ==
    /\ q.org = r.org /\ q.name = r.name /\ q.version = r.version
    /\ q.tag = r.tag /\ q.registry = r.registry /\ q.base = r.base
Knows(q, r) ==
    /\ IsQuery(q) /\ SameNames(q, r)
    /\ \/ q = r
       \/ q.sha = Absent /\ q.repo = r.repo /\ q.section = r.section
       \/ q.sha = Absent /\ q.repo = Absent /\ q.section = Absent
LEMMA WhatIsKnown ==
  ASSUME NEW r, IsQuery(r), NEW q \in Knowledge(r)
  PROVE  Knows(q, r)
<1> DEFINE F == {"org", "name", "version", "tag", "sha", "repo", "section",
                 "registry", "base"}
           Same(u) == [org |-> u.org, name |-> u.name, version |-> u.version,
                       tag |-> u.tag, sha |-> u.sha, repo |-> u.repo,
                       section |-> u.section, registry |-> u.registry,
                       base |-> u.base]
           a == [r EXCEPT !.sha = Absent]
           b == [r EXCEPT !.sha = Absent, !.repo = Absent, !.section = Absent]
<1>1. /\ r = Same(r) /\ IsList(r.org) /\ r.org # <<>> /\ IsList(r.name)
      /\ IsList(r.version)
  BY DEF IsQuery
<1>2. DOMAIN r = F
  <2>1. DOMAIN Same(r) = F
    OBVIOUS
  <2> QED
    BY <1>1, <2>1
<1>3. ASSUME NEW u, DOMAIN u = F, u = [f \in DOMAIN u |-> u[f]]
      PROVE  u = Same(u)
  <2>1. DOMAIN Same(u) = F
    OBVIOUS
  <2>2. \A f \in F : Same(u)[f] = u[f]
    OBVIOUS
  <2>3. Same(u) = [f \in DOMAIN Same(u) |-> Same(u)[f]]
    OBVIOUS
  <2> HIDE DEF Same, F
  <2> QED
    BY <1>3, <2>1, <2>2, <2>3
<1>4. /\ DOMAIN a = F /\ a.sha = Absent
      /\ a.org = r.org /\ a.name = r.name /\ a.version = r.version
      /\ a.tag = r.tag /\ a.registry = r.registry /\ a.base = r.base
      /\ a.repo = r.repo /\ a.section = r.section
      /\ a = [f \in DOMAIN a |-> a[f]]
  BY <1>2
<1>5. /\ DOMAIN b = F /\ b.sha = Absent
      /\ b.org = r.org /\ b.name = r.name /\ b.version = r.version
      /\ b.tag = r.tag /\ b.registry = r.registry /\ b.base = r.base
      /\ b.repo = Absent /\ b.section = Absent
      /\ b = [f \in DOMAIN b |-> b[f]]
  BY <1>2
<1>6. q = r \/ q = a \/ q = b
  BY DEF Knowledge
<1> HIDE DEF a, b, F
<1>7. a = Same(a) /\ b = Same(b)
  BY <1>3, <1>4, <1>5
<1>8. CASE q = r
  BY <1>8 DEF Knows, SameNames
<1>9. CASE q = a
  <2>1. IsQuery(a)
    BY <1>1, <1>4, <1>7 DEF IsQuery
  <2> HIDE DEF Same
  <2> QED
    BY <1>4, <1>9, <2>1 DEF Knows, SameNames
<1>10. CASE q = b
  <2>1. IsQuery(b)
    BY <1>1, <1>5, <1>7 DEF IsQuery
  <2> HIDE DEF Same
  <2> QED
    BY <1>5, <1>10, <2>1 DEF Knows, SameNames
<1> QED
  BY <1>6, <1>8, <1>9, <1>10

(* The places of each kind: what is under the kind in artifact_locators.   *)
LEMMA PlacesByKind ==
  ASSUME NEW q, IsQuery(q), NEW l
  PROVE  LET all == Elements(ArtifactLocators(q))
         IN  /\ l \in all /\ l.kind = "release"
                   <=> l \in Elements(ReleasePlaces(q))
             /\ l \in all /\ l.kind = "packages"
                   <=> l \in Elements(PackagesPlaces(q))
             /\ l \in all /\ l.kind = "archive"
                   <=> l \in Elements(ArchivePlaces(q))
             /\ l \in all /\ l.kind = "r2" <=> l \in Elements(R2Places(q))
BY InventoryOfQuery, PartsOfInventory DEF Places

(* The coordinate key is on the CDN, and whatever is under GHCR comes with *)
(* the manifest.                                                           *)
CdnPlace(q) ==
    At("r2", <<R2PublicBase(SectionOf(q).base, q.base, Absent), PackageKey(q)>>)
ManifestPlace(q) ==
    At("packages",
       GhcrManifest(GithubIdentityFor(q.org, q.name, q.repo), q.tag))
LEMMA AlwaysThere ==
  ASSUME NEW q, IsQuery(q)
  PROVE  /\ CdnPlace(q) \in Elements(R2Places(q))
         /\ Enabled(SectionOf(q).packages, q.repo)
               => ManifestPlace(q) \in Elements(PackagesPlaces(q))
         /\ ~Enabled(SectionOf(q).packages, q.repo)
               => Elements(PackagesPlaces(q)) = {}
<1>1. CdnPlace(q) \in Elements(R2Places(q))
  <2> DEFINE base == R2PublicBase(SectionOf(q).base, q.base, Absent)
             keys == R2ObjectKeys(q)
             stored == StoredAt(base, keys)
  <2>1. IsList(keys) /\ PackageKey(q) \in Elements(keys)
    BY KeysOfQuery
  <2> HIDE DEF base, keys
  <2>2. IsList(stored) /\ <<base, PackageKey(q)>> \in Elements(stored)
    BY <2>1, KeysStored
  <2> HIDE DEF stored
  <2>3. At("r2", <<base, PackageKey(q)>>) \in Elements(AllAt("r2", stored))
    BY <2>2, PlacesEach
  <2> QED
    BY <2>3 DEF R2Places, CdnPlace, base, keys, stored
<1> DEFINE identity == GithubIdentityFor(q.org, q.name, q.repo)
           blob == At("packages", GhcrBlob(identity, q.sha))
           rest == Provided(q.sha # Absent, <<blob>>)
           one == <<ManifestPlace(q)>>
<1>2. PackagesPlaces(q)
        = Provided(Enabled(SectionOf(q).packages, q.repo), one \o rest)
  BY DEF PackagesPlaces, ManifestPlace
<1>3. /\ IsList(one) /\ Elements(one) = {ManifestPlace(q)}
  BY ShortLists
<1>4. IsList(rest)
  BY ShortLists DEF Provided
<1> HIDE DEF one, rest
<1>5. ManifestPlace(q) \in Elements(one \o rest)
  BY <1>3, <1>4, ElementsOfBoth
<1> QED
  BY <1>1, <1>2, <1>5, ShortLists DEF Provided

-----------------------------------------------------------------------------
(* Where everything stands that is never written again: what is published, *)
(* and what the client knows.                                              *)
Scene ==
    /\ release \in Releases /\ declared \in Mirrors
    /\ ResolvedMirrorsOf(release) # Malformed
    /\ query \in Knowledge(release)

(* In such a scene the search is as it should be. *)
LEMMA SceneIsSearched ==
  ASSUME Scene
  PROVE  /\ IsQuery(release) /\ Knows(query, release)
         /\ AreMirrors(ResolvedMirrorsOf(release))
         /\ query.repo # Absent =>
               ResolvedMirrorsOf(query) = ResolvedMirrorsOf(release)
         /\ Searches(Search)
<1>1. IsQuery(release) /\ AreMirrors(declared)
  BY RetrievalAssumption DEF Scene, AreMirrors
<1>2. Knows(query, release)
  BY <1>1, WhatIsKnown DEF Scene
<1>3. /\ AreMirrors(ResolvedMirrorsOf(release))
      /\ \A i \in 1..Len(ResolvedMirrorsOf(release)) :
            ValidMirror(ResolvedMirrorsOf(release)[i])
  BY <1>1, ResolvedAreMirrors DEF Scene, ResolvedMirrorsOf
<1>4. query.repo # Absent =>
         ResolvedMirrorsOf(query) = ResolvedMirrorsOf(release)
  <2> SUFFICES ASSUME query.repo # Absent
               PROVE  query.repo = release.repo
                      /\ query.section = release.section
    BY DEF ResolvedMirrorsOf, SectionOf
  <2> QED
    BY <1>2 DEF Knows
<1>5. Searches(Search)
  BY <1>2, <1>3, <1>4, SearchOfQuery DEF Knows
<1> QED
  BY <1>1, <1>2, <1>3, <1>4, <1>5

(* The places the publisher fills, of each kind. *)
LEMMA PublishersPlaces ==
  ASSUME Scene, NEW kind, NEW l \in PlacesOf(kind)
  PROVE  /\ l.kind = kind
         /\ kind # "mirror" => l \in Elements(ArtifactLocators(release))
<1> DEFINE places == OfKinds(ArtifactLocators(release), {kind})
<1>1. IsQuery(release)
  BY SceneIsSearched
<1>2. /\ IsList(places)
      /\ Elements(places) = {x \in Elements(ArtifactLocators(release)) :
                                x.kind \in {kind}}
  BY <1>1, InventoryOfQuery, PlacesOfKinds DEF Places
<1>3. CASE kind = "mirror"
  BY <1>3 DEF PlacesOf, MirrorCopies, At
<1>4. CASE kind # "mirror"
  <2>1. PlacesOf(kind) = IF kind = "release" /\ places # <<>>
                         THEN {Head(places)} ELSE ToSet(places)
    BY <1>4 DEF PlacesOf
  <2> HIDE DEF places
  <2>2. DOMAIN places = 1..Len(places) /\ Len(places) \in Nat
    BY <1>2, ListIsSeq
  <2>3. ToSet(places) = Elements(places)
    BY <2>2 DEF ToSet, Elements
  <2>4. places # <<>> => Head(places) \in Elements(places)
    <3> SUFFICES ASSUME places # <<>>
                 PROVE  Head(places) \in Elements(places)
      OBVIOUS
    <3>1. places \in Seq(Elements(places))
      BY <1>2, ListIsSeq
    <3> QED
      BY <3>1
  <2>5. l \in Elements(places)
    BY <2>1, <2>3, <2>4
  <2> QED
    BY <1>2, <2>5
<1> QED
  BY <1>3, <1>4

(* What the client may miss for want of knowledge. *)
Unknown(l) ==
    \/ l.kind = "registry" /\ query.sha = Absent
    \/ /\ query.repo = Absent
       /\ l.kind # "r2" \/ SectionOf(release).base # Absent

(* Of what a publisher fills, unless the client cannot know of it, some    *)
(* place is searched.                                                      *)
LEMMA SomePlaceInCommon ==
  ASSUME Scene, NEW kind \in Kinds, NEW l \in PlacesOf(kind), ~Unknown(l)
  PROVE  \E x \in PlacesOf(kind) : x \in Elements(Search)
<1> DEFINE places == OfKinds(ArtifactLocators(release), {kind})
           all == Elements(ArtifactLocators(release))
           known == Elements(ArtifactLocators(query))
<1>1. /\ IsQuery(release) /\ Knows(query, release) /\ Searches(Search)
      /\ AreMirrors(ResolvedMirrorsOf(release))
      /\ query.repo # Absent =>
            ResolvedMirrorsOf(query) = ResolvedMirrorsOf(release)
  BY SceneIsSearched
<1>2. l.kind = kind /\ (kind # "mirror" => l \in all)
  BY PublishersPlaces
<1>3. known \subseteq Elements(Search)
  BY <1>1 DEF Searches
<1>4. IsQuery(query) /\ SameNames(query, release)
  BY <1>1 DEF Knows
<1>5. ASSUME kind \notin {"mirror", "release"},
             NEW x \in all, x.kind = kind
      PROVE  x \in PlacesOf(kind)
  <2>1. PlacesOf(kind) = ToSet(places)
    BY <1>5 DEF PlacesOf
  <2>2. /\ IsList(places)
        /\ Elements(places) = {y \in all : y.kind \in {kind}}
    BY <1>1, InventoryOfQuery, PlacesOfKinds DEF Places
  <2> HIDE DEF places
  <2>3. DOMAIN places = 1..Len(places)
    BY <2>2, ListIsSeq
  <2>4. ToSet(places) = Elements(places)
    BY <2>3 DEF ToSet, Elements
  <2> QED
    BY <1>5, <2>1, <2>2, <2>4
<1>6. CASE query = release /\ kind # "mirror"
  BY <1>2, <1>3, <1>6
<1>7. CASE kind = "r2"
  <2>1. PackageKey(query) = PackageKey(release)
    BY <1>4 DEF SameNames, PackageKey, FileName
  <2>2. SectionOf(query).base = SectionOf(release).base
    <3>1. CASE query.section = release.section
      BY <3>1 DEF SectionOf
    <3>2. CASE query.section = Absent /\ query.repo = Absent
      <4>1. SectionOf(release).base = Absent
        BY <1>2, <1>7, <3>2 DEF Unknown
      <4>2. SectionOf(query).base = Absent
        BY <3>2 DEF SectionOf, EmptySection
      <4> QED
        BY <4>1, <4>2
    <3> QED
      BY <1>1, <3>1, <3>2 DEF Knows
  <2>3. CdnPlace(query) = CdnPlace(release)
    BY <1>4, <2>1, <2>2 DEF CdnPlace, SameNames
  <2>4. CdnPlace(release) \in all /\ CdnPlace(release).kind = "r2"
    BY <1>1, AlwaysThere, PlacesByKind
  <2>5. CdnPlace(query) \in known
    BY <1>4, AlwaysThere, PlacesByKind
  <2> QED
    BY <1>3, <1>5, <1>7, <2>3, <2>4, <2>5
<1>8. CASE kind = "registry"
  <2>1. query = release
    BY <1>1, <1>2, <1>8 DEF Knows, Unknown
  <2> QED
    BY <1>6, <1>8, <2>1
<1>9. ASSUME kind \notin {"r2", "registry"}
      PROVE  query.repo # Absent /\ query.repo = release.repo
             /\ SectionOf(query) = SectionOf(release)
  BY <1>1, <1>2, <1>9 DEF Unknown, Knows, SectionOf
<1>10. CASE kind = "release"
  <2>1. ReleasePlaces(query) = ReleasePlaces(release)
    BY <1>4, <1>9, <1>10 DEF ReleasePlaces, SameNames
  <2>2. l \in known
    BY <1>1, <1>2, <1>4, <1>10, <2>1, PlacesByKind
  <2> QED
    BY <1>3, <2>2
<1>11. CASE kind = "archive"
  <2>1. ArchivePlaces(query) = ArchivePlaces(release)
    BY <1>4, <1>9, <1>11 DEF ArchivePlaces, SameNames
  <2>2. l \in known
    BY <1>1, <1>2, <1>4, <1>11, <2>1, PlacesByKind
  <2> QED
    BY <1>3, <2>2
<1>12. CASE kind = "packages"
  <2>1. ManifestPlace(query) = ManifestPlace(release)
    BY <1>4, <1>9, <1>12 DEF ManifestPlace, SameNames
  <2>2. l \in Elements(PackagesPlaces(release))
    BY <1>1, <1>2, <1>12, PlacesByKind
  <2>3. Enabled(SectionOf(release).packages, release.repo)
    BY <1>1, <2>2, AlwaysThere
  <2>4. /\ ManifestPlace(release) \in Elements(PackagesPlaces(release))
        /\ ManifestPlace(query) \in Elements(PackagesPlaces(query))
    BY <1>1, <1>4, <1>9, <1>12, <2>3, AlwaysThere
  <2>5. /\ ManifestPlace(release) \in all
        /\ ManifestPlace(release).kind = "packages"
        /\ ManifestPlace(query) \in known
    BY <1>1, <1>4, <2>4, PlacesByKind
  <2> QED
    BY <1>3, <1>5, <1>12, <2>1, <2>5
<1>13. CASE kind = "mirror"
  <2> DEFINE mirrors == ResolvedMirrorsOf(release)
             keys == R2ObjectKeys(release)
  <2>1. PlacesOf(kind)
          = {At("mirror", <<mirrors[i].url, keys[k]>>) :
                i \in {j \in DOMAIN mirrors : mirrors[j].kind = "object-store"
                                              /\ Given(mirrors[j].url)},
                k \in DOMAIN keys}
    BY <1>13 DEF PlacesOf, MirrorCopies, ResolvedMirrorsOf
  <2>2. PICK i \in DOMAIN mirrors : mirrors[i].kind = "object-store"
                                    /\ Given(mirrors[i].url)
    BY <2>1
  <2>3. DOMAIN mirrors = 1..Len(mirrors)
    BY <1>1, ListIsSeq DEF AreMirrors
  <2>4. PICK k \in DOMAIN keys : keys[k] = PackageKey(release)
    <3>1. IsList(keys) /\ PackageKey(release) \in Elements(keys)
      BY KeysOfQuery
    <3>2. DOMAIN keys = 1..Len(keys)
      BY <3>1, ListIsSeq
    <3> QED
      BY <3>1, <3>2 DEF Elements
  <2> DEFINE x == At("mirror", <<mirrors[i].url, PackageKey(release)>>)
  <2>5. x \in PlacesOf(kind)
    BY <2>1, <2>2, <2>4
  <2>6. PackageKey(query) = PackageKey(release)
    BY <1>4 DEF SameNames, PackageKey, FileName
  <2>7. query.repo # Absent /\ ResolvedMirrorsOf(query) = mirrors
    BY <1>1, <1>9, <1>13
  <2>8. x \in Elements(Search)
    BY <1>1, <2>2, <2>3, <2>6, <2>7 DEF Searches, StoresAreIn
  <2> QED
    BY <2>5, <2>8
<1> QED
  BY <1>7, <1>8, <1>10, <1>11, <1>12, <1>13 DEF Kinds

-----------------------------------------------------------------------------
(* What has been tried is the beginning of the search, and what is planned *)
(* the rest of it.                                                         *)
PlanIsTheSearch ==
    /\ retrieval \in {"publishing", "trying", "installed", "failed"}
    /\ retrieval = "publishing" => tried = <<>> /\ ready = {}
    /\ retrieval # "publishing" =>
          /\ IsList(tried) /\ Len(tried) <= Len(Search)
          /\ \A i \in 1..Len(tried) : tried[i] = Search[i]
    /\ retrieval \in {"trying", "failed"} =>
          /\ IsList(plan) /\ Len(tried) + Len(plan) = Len(Search)
          /\ \A i \in 1..Len(plan) : plan[i] = Search[Len(tried) + i]
    /\ retrieval = "failed" => Len(plan) = 0

(* The publisher fills a kind of places altogether; what is ready was held *)
(* before, and nothing is taken away.                                      *)
CopiesAreWhole ==
    /\ ready \subseteq held
    /\ \A l \in held :
          /\ l.kind \in Kinds /\ l \in PlacesOf(l.kind)
          /\ PlacesOf(l.kind) \subseteq held
    /\ \A l \in ready : PlacesOf(l.kind) \subseteq ready

(* What was ready and did not do was down. *)
TriedInVain ==
    retrieval \in {"trying", "failed"} =>
        \A i \in 1..Len(tried) : tried[i] \in ready => tried[i].kind \in down

RetrievalIInv == Scene /\ PlanIsTheSearch /\ CopiesAreWhole /\ TriedInVain

-----------------------------------------------------------------------------
(* What is never written again makes the same search and the same places. *)
LEMMA SceneStands ==
  ASSUME UNCHANGED <<release, declared, query>>
  PROVE  /\ Scene => Scene'
         /\ Search' = Search
         /\ \A kind : PlacesOf(kind)' = PlacesOf(kind)
<1>1. Scene => Scene'
  BY DEF Scene, ResolvedMirrorsOf
<1>2. ResolvedMirrorsOf(query)' = ResolvedMirrorsOf(query)
  BY DEF ResolvedMirrorsOf
<1>3. Search' = Search
  BY <1>2 DEF Search
<1>4. MirrorCopies' = MirrorCopies
  BY DEF MirrorCopies, ResolvedMirrorsOf
<1>5. \A kind : PlacesOf(kind)' = PlacesOf(kind)
  BY <1>4 DEF PlacesOf
<1> QED
  BY <1>1, <1>3, <1>5

(* A list with one more at its end. *)
LEMMA LongerList ==
  ASSUME NEW s, IsList(s), NEW x
  PROVE  /\ IsList(Append(s, x)) /\ Len(Append(s, x)) = Len(s) + 1
         /\ Append(s, x)[Len(s) + 1] = x
         /\ \A i \in 1..Len(s) : Append(s, x)[i] = s[i]
<1> DEFINE T == Elements(s) \cup {x}
           u == Append(s, x)
           n == Len(s)
<1>1. s \in Seq(T) /\ x \in T /\ n \in Nat
  BY ListIsSeq
<1> HIDE DEF T
<1>2. /\ u \in Seq(T) /\ Len(u) = n + 1 /\ u[n + 1] = x
      /\ \A i \in 1..n : u[i] = s[i]
  BY <1>1
<1> HIDE DEF u
<1>3. IsList(u)
  BY <1>2, SequenceLists
<1> QED
  BY <1>2, <1>3 DEF u

(* A list without its first element.                                       *)
LEMMA ShorterList ==
  ASSUME NEW s, IsList(s)
  PROVE  /\ Len(s) \in Nat /\ (s = <<>> <=> Len(s) = 0)
         /\ s # <<>> =>
               /\ Head(s) = s[1]
               /\ IsList(Tail(s)) /\ Len(Tail(s)) = Len(s) - 1
               /\ \A i \in 1..(Len(s) - 1) : Tail(s)[i] = s[i + 1]
<1> DEFINE T == Elements(s)
           u == Tail(s)
           n == Len(s)
<1>1. s \in Seq(T) /\ n \in Nat /\ s = [i \in 1..n |-> s[i]]
  BY ListIsSeq DEF IsList
<1> HIDE DEF T
<1>2. s = <<>> <=> n = 0
  BY <1>1
<1>3. ASSUME s # <<>>
      PROVE  /\ Head(s) = s[1] /\ u \in Seq(T) /\ Len(u) = n - 1
             /\ \A i \in 1..(n - 1) : u[i] = s[i + 1]
  BY <1>1, <1>3
<1> HIDE DEF u
<1>4. s # <<>> => IsList(u)
  BY <1>3, SequenceLists
<1> QED
  BY <1>1, <1>2, <1>3, <1>4 DEF u

(* Where the search begins the invariant holds. *)
LEMMA RetrievalBegins == RetrievalInit => RetrievalIInv
<1> SUFFICES ASSUME RetrievalInit
             PROVE  RetrievalIInv
  OBVIOUS
<1>1. Scene
  BY DEF RetrievalInit, Scene, ResolvedMirrorsOf
<1>2. PlanIsTheSearch /\ CopiesAreWhole /\ TriedInVain
  BY DEF RetrievalInit, PlanIsTheSearch, CopiesAreWhole, TriedInVain
<1> QED
  BY <1>1, <1>2 DEF RetrievalIInv

(* Every step keeps it. *)
LEMMA RetrievalGoesOn ==
  RetrievalIInv /\ [RetrievalNext]_retrievalVars => RetrievalIInv'
<1> SUFFICES ASSUME RetrievalIInv, [RetrievalNext]_retrievalVars
             PROVE  RetrievalIInv'
  OBVIOUS
<1>1. /\ Scene /\ PlanIsTheSearch /\ CopiesAreWhole /\ TriedInVain
  BY DEF RetrievalIInv
<1>2. UNCHANGED <<release, declared, query>>
  BY DEF RetrievalNext, retrievalVars, Upload, GoDown, Begin, Try, GiveUp
<1>3. Scene' /\ Search' = Search /\ \A kind : PlacesOf(kind)' = PlacesOf(kind)
  BY <1>1, <1>2, SceneStands
<1>4. IsList(Search) /\ Len(Search) \in Nat
  <2>1. Searches(Search)
    BY <1>1, SceneIsSearched
  <2> QED
    BY <2>1, ListIsSeq DEF Searches
<1> SUFFICES PlanIsTheSearch' /\ CopiesAreWhole' /\ TriedInVain'
  BY <1>3 DEF RetrievalIInv
<1>5. ASSUME NEW kind \in Kinds, Upload(kind)
      PROVE  PlanIsTheSearch' /\ CopiesAreWhole' /\ TriedInVain'
  <2>1. PlanIsTheSearch'
    BY <1>1, <1>3, <1>5 DEF Upload, PlanIsTheSearch
  <2>2. TriedInVain'
    BY <1>1, <1>5 DEF Upload, TriedInVain
  <2>3. CopiesAreWhole'
    <3>1. /\ held' = held \cup PlacesOf(kind) /\ ready' = ready
      BY <1>5 DEF Upload
    <3>2. \A l \in PlacesOf(kind) : l.kind = kind
      BY <1>1, PublishersPlaces
    <3>3. ASSUME NEW l \in held'
          PROVE  /\ l.kind \in Kinds /\ l \in PlacesOf(l.kind)
                 /\ PlacesOf(l.kind) \subseteq held'
      <4>1. CASE l \in held
        BY <1>1, <3>1, <4>1 DEF CopiesAreWhole
      <4>2. CASE l \in PlacesOf(kind)
        BY <3>1, <3>2, <4>2
      <4> QED
        BY <3>1, <4>1, <4>2
    <3> QED
      BY <1>1, <1>3, <3>1, <3>3 DEF CopiesAreWhole
  <2> QED
    BY <2>1, <2>2, <2>3
<1>6. ASSUME NEW kind \in Kinds, GoDown(kind)
      PROVE  PlanIsTheSearch' /\ CopiesAreWhole' /\ TriedInVain'
  <2>1. PlanIsTheSearch'
    BY <1>1, <1>3, <1>6 DEF GoDown, PlanIsTheSearch
  <2>2. TriedInVain'
    BY <1>1, <1>6 DEF GoDown, TriedInVain
  <2>3. CopiesAreWhole'
    BY <1>1, <1>3, <1>6 DEF GoDown, CopiesAreWhole
  <2> QED
    BY <2>1, <2>2, <2>3
<1>7. CASE Begin
  <2>1. /\ retrieval = "publishing" /\ plan' = Search /\ ready' = held
        /\ retrieval' = "trying" /\ held' = held /\ tried' = tried
        /\ tried = <<>>
    BY <1>1, <1>7 DEF Begin, PlanIsTheSearch
  <2>2. IsList(tried') /\ Len(tried') = 0
    BY <2>1, ShortLists
  <2>3. PlanIsTheSearch'
    BY <1>3, <1>4, <2>1, <2>2 DEF PlanIsTheSearch
  <2>4. TriedInVain'
    BY <2>1, <2>2 DEF TriedInVain
  <2>5. CopiesAreWhole'
    BY <1>1, <1>3, <2>1 DEF CopiesAreWhole
  <2> QED
    BY <2>3, <2>4, <2>5
<1>8. CASE Try
  <2> DEFINE n == Len(tried)
  <2>1. /\ retrieval = "trying" /\ plan # <<>>
        /\ tried' = Append(tried, Head(plan))
        /\ UNCHANGED <<held, ready, down>>
    BY <1>8 DEF Try
  <2>2. /\ IsList(tried) /\ IsList(plan) /\ n + Len(plan) = Len(Search)
        /\ \A i \in 1..n : tried[i] = Search[i]
        /\ \A i \in 1..Len(plan) : plan[i] = Search[n + i]
    BY <1>1, <2>1 DEF PlanIsTheSearch
  <2>3. /\ n \in Nat /\ Len(plan) \in Nat /\ Len(plan) # 0
        /\ Head(plan) = plan[1]
        /\ IsList(Tail(plan)) /\ Len(Tail(plan)) = Len(plan) - 1
        /\ \A i \in 1..(Len(plan) - 1) : Tail(plan)[i] = plan[i + 1]
    BY <2>1, <2>2, ShorterList
  <2>4. /\ IsList(tried') /\ Len(tried') = n + 1
        /\ tried'[n + 1] = plan[1]
        /\ \A i \in 1..n : tried'[i] = tried[i]
    BY <2>1, <2>2, <2>3, LongerList
  <2> HIDE DEF n
  <2>5. /\ n + 1 <= Len(Search) /\ plan[1] = Search[n + 1]
        /\ \A i \in 1..(n + 1) : i \in 1..n \/ i = n + 1
    BY <1>4, <2>2, <2>3
  <2>6. \A i \in 1..Len(tried') : tried'[i] = Search[i]
    BY <2>2, <2>4, <2>5
  <2>7. CopiesAreWhole'
    BY <1>1, <1>3, <2>1 DEF CopiesAreWhole
  <2>8. CASE Head(plan) \in held /\ Head(plan).kind \notin down
    <3>1. retrieval' = "installed"
      BY <1>8, <2>8 DEF Try
    <3>2. PlanIsTheSearch'
      BY <1>3, <2>4, <2>5, <2>6, <3>1 DEF PlanIsTheSearch
    <3>3. TriedInVain'
      BY <3>1 DEF TriedInVain
    <3> QED
      BY <2>7, <3>2, <3>3
  <2>9. CASE ~(Head(plan) \in held /\ Head(plan).kind \notin down)
    <3>1. plan' = Tail(plan) /\ retrieval' = "trying"
      BY <1>8, <2>1, <2>9 DEF Try
    <3>2. /\ IsList(plan') /\ Len(plan') = Len(plan) - 1
          /\ \A i \in 1..(Len(plan) - 1) : plan'[i] = plan[i + 1]
      BY <2>3, <3>1
    <3>3. \A i \in 1..Len(plan') : plan'[i] = Search[Len(tried') + i]
      <4> SUFFICES ASSUME NEW i \in 1..Len(plan')
                   PROVE  plan'[i] = Search[Len(tried') + i]
        OBVIOUS
      <4>1. /\ i \in 1..(Len(plan) - 1) /\ i + 1 \in 1..Len(plan)
            /\ n + (i + 1) = Len(tried') + i
        BY <2>3, <2>4, <3>2
      <4> QED
        BY <2>2, <3>2, <4>1
    <3>4. Len(tried') + Len(plan') = Len(Search)
      <4>1. /\ Len(tried') = n + 1 /\ n + Len(plan) = Len(Search)
            /\ Len(plan') = Len(plan) - 1 /\ n \in Nat /\ Len(plan) \in Nat
        BY <2>2, <2>3, <2>4, <3>2
      <4> QED
        BY <4>1
    <3>5. PlanIsTheSearch'
      BY <1>3, <2>4, <2>5, <2>6, <3>1, <3>2, <3>3, <3>4 DEF PlanIsTheSearch
    <3>6. TriedInVain'
      <4> SUFFICES ASSUME NEW i \in 1..Len(tried'), tried'[i] \in ready
                   PROVE  tried'[i].kind \in down
        BY <2>1 DEF TriedInVain
      <4>1. CASE i \in 1..n
        BY <1>1, <2>1, <2>4, <4>1 DEF TriedInVain, n
      <4>2. CASE i = n + 1
        <5>1. tried'[i] = Head(plan)
          BY <2>3, <2>4, <4>2
        <5>2. Head(plan) \in held
          BY <1>1, <5>1 DEF CopiesAreWhole
        <5> QED
          BY <2>9, <5>1, <5>2
      <4> QED
        BY <2>4, <2>5, <4>1, <4>2
    <3> QED
      BY <2>7, <3>5, <3>6
  <2> QED
    BY <2>8, <2>9
<1>9. CASE GiveUp
  <2>1. /\ retrieval = "trying" /\ plan = <<>> /\ retrieval' = "failed"
        /\ UNCHANGED <<held, ready, down, plan, tried>>
    BY <1>9 DEF GiveUp
  <2>2. Len(plan) = 0
    BY <2>1, ShortLists
  <2>3. PlanIsTheSearch'
    BY <1>1, <1>3, <2>1, <2>2 DEF PlanIsTheSearch
  <2>4. TriedInVain'
    BY <1>1, <2>1 DEF TriedInVain
  <2>5. CopiesAreWhole'
    BY <1>1, <1>3, <2>1 DEF CopiesAreWhole
  <2> QED
    BY <2>3, <2>4, <2>5
<1>10. CASE UNCHANGED retrievalVars
  <2>1. PlanIsTheSearch'
    BY <1>1, <1>3, <1>10 DEF retrievalVars, PlanIsTheSearch
  <2>2. TriedInVain'
    BY <1>1, <1>10 DEF retrievalVars, TriedInVain
  <2>3. CopiesAreWhole'
    BY <1>1, <1>3, <1>10 DEF retrievalVars, CopiesAreWhole
  <2> QED
    BY <2>1, <2>2, <2>3
<1> QED
  BY <1>5, <1>6, <1>7, <1>8, <1>9, <1>10 DEF RetrievalNext

(* What the invariant says of a search. *)
LEMMA InvariantIsThorough == RetrievalIInv => SearchIsThorough
<1> SUFFICES ASSUME RetrievalIInv
             PROVE  SearchIsThorough
  OBVIOUS
<1>1. Scene /\ PlanIsTheSearch /\ CopiesAreWhole /\ TriedInVain
  BY DEF RetrievalIInv
<1>2. Searches(Search)
  BY <1>1, SceneIsSearched
<1>3. IsList(Search) /\ Len(Search) \in Nat
  BY <1>2, ListIsSeq DEF Searches
<1>4. /\ IsList(tried) /\ Len(tried) <= Len(Search)
      /\ \A i \in 1..Len(tried) : tried[i] = Search[i]
  <2>1. CASE retrieval = "publishing"
    BY <1>1, <1>3, <2>1, ShortLists DEF PlanIsTheSearch
  <2>2. CASE retrieval # "publishing"
    BY <1>1, <2>2 DEF PlanIsTheSearch
  <2> QED
    BY <2>1, <2>2
<1>5. DOMAIN tried = 1..Len(tried) /\ Len(tried) \in Nat
  BY <1>4, ListIsSeq
<1>6. DOMAIN ArtifactLocators(query) = 1..Len(ArtifactLocators(query))
  <2>1. IsQuery(query)
    BY <1>1, SceneIsSearched DEF Knows
  <2> QED
    BY <2>1, InventoryOfQuery, ListIsSeq DEF Places
<1>7. Inventory = Elements(ArtifactLocators(query))
  BY <1>6 DEF Inventory, ToSet, Elements
<1>8. \A i \in 1..Len(tried) : i \in 1..Len(Search)
  BY <1>3, <1>4, <1>5
<1>9. GithubBeforeCdn
  <2> SUFFICES ASSUME NEW i \in 1..Len(tried),
                      tried[i].kind \in {"r2", "mirror"},
                      NEW l \in Inventory, l.kind \in Github
               PROVE  \E j \in 1..(i - 1) : tried[j] = l
    BY <1>5 DEF GithubBeforeCdn
  <2>1. PICK j \in 1..(i - 1) : Search[j] = l
    BY <1>2, <1>4, <1>7, <1>8 DEF Searches, GithubIsEarlier
  <2>2. j \in 1..Len(tried)
    BY <1>5
  <2> QED
    BY <1>4, <2>1, <2>2
<1>10. ASSUME retrieval = "failed"
       PROVE  Len(tried) = Len(Search)
  <2>1. Len(plan) = 0 /\ Len(tried) + Len(plan) = Len(Search)
    BY <1>1, <1>10 DEF PlanIsTheSearch
  <2> QED
    BY <1>5, <2>1
<1>11. InventoryIsExhausted
  <2>1. ASSUME NEW i \in DOMAIN tried, NEW j \in DOMAIN tried,
               tried[i] = tried[j], tried[i].kind # "mirror"
        PROVE  i = j
    BY <1>2, <1>4, <1>5, <1>8, <2>1 DEF Searches, SearchedOnce
  <2>2. ASSUME retrieval = "failed"
        PROVE  Inventory \subseteq ToSet(tried)
    <3>1. ToSet(tried) = Elements(Search)
      BY <1>4, <1>5, <1>10, <2>2 DEF ToSet, Elements
    <3> QED
      BY <1>2, <1>7, <3>1 DEF Searches
  <2> QED
    BY <2>1, <2>2 DEF InventoryIsExhausted
<1>12. FailsOnlyWithoutCopies
  <2> SUFFICES ASSUME retrieval = "failed", NEW l \in ready, ~Unknown(l)
               PROVE  l.kind \in down
    BY DEF FailsOnlyWithoutCopies, Unknown
  <2>1. /\ l.kind \in Kinds /\ l \in PlacesOf(l.kind)
        /\ PlacesOf(l.kind) \subseteq ready
    BY <1>1 DEF CopiesAreWhole
  <2>2. PICK x \in PlacesOf(l.kind) : x \in Elements(Search)
    BY <1>1, <2>1, SomePlaceInCommon
  <2>3. x.kind = l.kind
    BY <1>1, PublishersPlaces
  <2>4. PICK i \in 1..Len(Search) : Search[i] = x
    BY <2>2 DEF Elements
  <2>5. i \in 1..Len(tried) /\ tried[i] = x
    BY <1>4, <1>10, <2>4
  <2>6. x.kind \in down
    BY <1>1, <2>1, <2>5 DEF TriedInVain
  <2> QED
    BY <2>3, <2>6
<1> QED
  BY <1>9, <1>11, <1>12 DEF SearchIsThorough

(* Whatever is published where, whatever goes down and when, and whatever  *)
(* the client knows, it asks GitHub for everything before the CDN and the  *)
(* mirrors, no place twice, and gives up only when it has asked everywhere *)
(* and nothing it can know of holds a copy that is up                      *)
(* (artifact_recovery_locators, with artifact_urls of mirror.rs).          *)
THEOREM SearchesAreThorough == RetrievalSpec => []SearchIsThorough
<1>1. RetrievalSpec => []RetrievalIInv
  BY RetrievalBegins, RetrievalGoesOn, PTL DEF RetrievalSpec
<1> QED
  BY <1>1, InvariantIsThorough, PTL
=============================================================================
