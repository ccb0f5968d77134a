--------------------------- MODULE OciDistribution ---------------------------
(***************************************************************************)
(* Packages in an OCI registry.  Publishers push the layers of a package,  *)
(* then its manifest, and move a tag to it; a record of the package is     *)
(* kept and pulled later, from the text of its reference, whatever the tag *)
(* names by then.  Publishers, registry and puller are external.           *)
(*                                                                         *)
(* Packages as OCI artifacts: references, descriptors, layers and the      *)
(* record that ties a package to one manifest (src/rust/oci.rs).           *)
(*                                                                         *)
(* A text is a sequence of pieces, among them the separators "/", ":",     *)
(* "@".  The pieces of hosts, ports, repositories, tags and digests are in *)
(* the sets of that name.  A descriptor is [media, digest, size, notes],   *)
(* a layer [kind, descriptor, platform].                                   *)
(***************************************************************************)
EXTENDS Absence, Arrangements, SequencesExt

CONSTANTS
    Hosts, Ports, Components, Tags, Digests,  \* pieces that are valid
    Layout                                    \* the order of digests

(* A registry is a host, or a host and a port; a repository is components  *)
(* with slashes between them.                                              *)
ValidRegistry(text) ==
    \/ Len(text) = 1 /\ text[1] \in Hosts
    \/ /\ Len(text) = 3 /\ text[1] \in Hosts
       /\ text[2] = ":" /\ text[3] \in Ports
ValidRepository(text) ==
    /\ Len(text) % 2 = 1
    /\ \A i \in DOMAIN text :
          IF i % 2 = 1 THEN text[i] \in Components ELSE text[i] = "/"

ValidReference(r) ==
    /\ ValidRegistry(r.registry)
    /\ ValidRepository(r.repository)
    /\ r.tag # Absent => Len(r.tag) = 1 /\ r.tag[1] \in Tags
    /\ r.digest # Absent => r.digest \in Digests
    /\ r.tag # Absent \/ r.digest # Absent

Display(r) ==
    r.registry \o <<"/">> \o r.repository
    \o (IF r.tag = Absent THEN <<>> ELSE <<":">> \o r.tag)
    \o (IF r.digest = Absent THEN <<>> ELSE <<"@", r.digest>>)

(* The text is split at the last "@", the first "/" and the last ":" after *)
(* it.  What is left on either side is validated.                          *)
PlacesOf(text, piece) == {i \in DOMAIN text : text[i] = piece}
Least(S) == CHOOSE i \in S : \A j \in S : i <= j
Greatest(S) == CHOOSE i \in S : \A j \in S : i >= j
Upto(text, i) == SubSeq(text, 1, i - 1)
After(text, i) == SubSeq(text, i + 1, Len(text))

(* Mutant: the tag begins after the first ":". *)
ParseNameFirst(name, digest) ==
    LET slash == Least(PlacesOf(name, "/"))
        colons == PlacesOf(name, ":")
        tagged == colons # {}
        reference ==
            [registry |-> Upto(name, slash),
             repository |-> IF tagged
                            THEN SubSeq(name, slash + 1, Least(colons) - 1)
                            ELSE After(name, slash),
             tag |-> IF tagged THEN After(name, Least(colons)) ELSE Absent,
             digest |-> digest]
    IN  IF PlacesOf(name, "/") = {} \/ ~ValidReference(reference)
        THEN Refused ELSE reference

ParseName(name, digest) ==
    LET slash == Least(PlacesOf(name, "/"))
        rest == After(name, slash)
        colons == PlacesOf(rest, ":")
        tagged == colons # {}
        reference ==
            [registry |-> Upto(name, slash),
             repository |-> IF tagged THEN Upto(rest, Greatest(colons))
                            ELSE rest,
             tag |-> IF tagged THEN After(rest, Greatest(colons)) ELSE Absent,
             digest |-> digest]
    IN  IF PlacesOf(name, "/") = {} \/ ~ValidReference(reference)
        THEN Refused ELSE reference

Parse(text) ==
    LET ats == PlacesOf(text, "@")
        rest == After(text, Greatest(ats))
    IN  IF ats = {} THEN ParseName(text, Absent)
        ELSE IF Cardinality(ats) > 1 \/ Len(rest) # 1 THEN Refused
        ELSE IF rest[1] \notin Digests THEN Refused
        ELSE ParseName(Upto(text, Greatest(ats)), rest[1])

-----------------------------------------------------------------------------
(* Identities, platforms and descriptors; whether their fields are slugs,  *)
(* tokens and sound annotations is in the field valid.                     *)
ValidIdentity(package) == package.valid
ValidPlatform(platform) == platform.valid

Kinds == <<"tar.gz", "zip", "manifest", "lock", "binary", "spdx", "cyclonedx",
           "provenance">>
MediaType(kind) == <<"layer", kind>>
ImageManifest == <<"oci", "manifest">>
PackageConfig == <<"zed", "config">>
IsPrimaryPackage(kind) == kind \in {"tar.gz", "zip", "binary"}

ValidAnnotations(notes) == notes = "sound"
ValidDescriptor(d) ==
    /\ d.media # <<"malformed">>
    /\ d.digest \in Digests
    /\ d.size > 0
    /\ ValidAnnotations(d.notes)

ValidLayer(layer) ==
    /\ ValidDescriptor(layer.descriptor)
    /\ layer.descriptor.media = MediaType(layer.kind)
    /\ layer.platform # Absent =>
          IsPrimaryPackage(layer.kind) /\ ValidPlatform(layer.platform)

(* Mutant: only the digests of layers must differ. *)
ValidLayersByDigest(layers) ==
    /\ \A i \in DOMAIN layers : ValidLayer(layers[i])
    /\ \A i, j \in DOMAIN layers : i # j =>
          layers[i].descriptor.digest # layers[j].descriptor.digest
    /\ \E i \in DOMAIN layers : IsPrimaryPackage(layers[i].kind)

(* No digest twice, and no kind twice for one platform. *)
ValidLayers(layers) ==
    /\ \A i \in DOMAIN layers : ValidLayer(layers[i])
    /\ \A i, j \in DOMAIN layers : i # j =>
          /\ layers[i].descriptor.digest # layers[j].descriptor.digest
          /\ \/ layers[i].kind # layers[j].kind
             \/ layers[i].platform # layers[j].platform
    /\ \E i \in DOMAIN layers : IsPrimaryPackage(layers[i].kind)

ValidAdapter(record) ==
    /\ ValidIdentity(record.package)
    /\ ValidReference(record.reference)
    /\ record.reference.digest = record.manifest.digest
    /\ ValidDescriptor(record.manifest)
    /\ record.manifest.media = ImageManifest
    /\ ValidDescriptor(record.config)
    /\ record.config.media = PackageConfig
    /\ record.subject # Absent => ValidDescriptor(record.subject)
    /\ ValidAnnotations(record.annotations)
    /\ ValidLayers(record.layers)

(* Layers by kind, platform (none first) and digest.  The keys of objects  *)
(* are sorted as well, and a record has no others.                         *)
LayerKey(layer) ==
    <<CHOOSE k \in DOMAIN Kinds : Kinds[k] = layer.kind,
      IF layer.platform = Absent THEN 0 ELSE layer.platform.order,
      CHOOSE n \in DOMAIN Layout : Layout[n] = layer.descriptor.digest>>
LayerBefore(one, two) ==
    \E i \in 1..3 :
        /\ LayerKey(one)[i] < LayerKey(two)[i]
        /\ \A j \in 1..(i - 1) : LayerKey(one)[j] = LayerKey(two)[j]
(* Mutant: layers by kind alone. *)
AdapterBytesByKind(record) ==
    IF ~ValidAdapter(record) THEN Refused
    ELSE [record EXCEPT !.layers =
             SortedBy(@, LAMBDA one, two : LayerKey(one)[1] < LayerKey(two)[1])]

AdapterBytes(record) ==
    IF ~ValidAdapter(record) THEN Refused
    ELSE [record EXCEPT !.layers = SortedBy(@, LayerBefore)]

-----------------------------------------------------------------------------
CONSTANTS
    Records        \* records that publishers may write

VARIABLES
    manifests,     \* the manifests in the registry: digest -> their layers
    tags,          \* what each tag names: a digest or Absent
    kept,          \* the canonical bytes of accepted records
    pull           \* [text, record] of the pull under way, [found] after

ociVars == <<manifests, tags, kept, pull>>

OciInit ==
    /\ manifests = {}
    /\ tags = [t \in Tags |-> Absent]
    /\ kept = {} /\ pull = Absent
NoOci == manifests = Absent /\ tags = Absent /\ kept = Absent /\ pull = Absent

LayerSet(record) == {record.layers[i] : i \in DOMAIN record.layers}

(* The manifest that a publisher built has the digest of its content.      *)
Push(record) ==
    /\ manifests' = manifests \union
          {[digest |-> record.manifest.digest, layers |-> LayerSet(record)]}
    /\ manifests' # manifests
    /\ UNCHANGED <<tags, kept, pull>>

MoveTag(tag) ==
    /\ \E m \in manifests : tags' = [tags EXCEPT ![tag] = m.digest]
    /\ tags' # tags
    /\ UNCHANGED <<manifests, kept, pull>>

(* A record is accepted by its canonical bytes; what it names was pushed.  *)
Keep(record) ==
    /\ \E m \in manifests : m.digest = record.manifest.digest
    /\ Cardinality(kept) < 2
    /\ AdapterBytes(record) # Refused
    /\ kept' = kept \union {AdapterBytes(record)}
    /\ UNCHANGED <<manifests, tags, pull>>

(* A reference is written down as text, and read again. *)
Begin(record) ==
    /\ pull' = [text |-> Display(record.reference), record |-> record,
                found |-> Absent]
    /\ UNCHANGED <<manifests, tags, kept>>

(* A digest is followed, a tag only without one. *)
Pull ==
    LET reference == Parse(pull.text)
        digest == IF reference = Refused THEN Refused
                  ELSE IF reference.digest # Absent THEN reference.digest
                  ELSE tags[reference.tag[1]]
    IN  /\ pull # Absent /\ pull.found = Absent
        /\ pull' = [pull EXCEPT !.found =
                       IF \E m \in manifests : m.digest = digest
                       THEN CHOOSE m \in manifests : m.digest = digest
                       ELSE Refused]
        /\ UNCHANGED <<manifests, tags, kept>>

OciNext ==
    \/ \E record \in Records : Push(record) \/ Keep(record)
    \/ \E tag \in Tags : MoveTag(tag)
    \/ \E record \in kept : Begin(record)
    \/ Pull

OciSpec == OciInit /\ [][OciNext]_ociVars

-----------------------------------------------------------------------------
(* What is pulled for a record is what the record names: its manifest with *)
(* its layers, wherever the tag has moved since, and whatever port, path   *)
(* and tag the text of the reference has to be split around (oci.rs,       *)
(* OciReference::parse and OciAdapterRecord::validate).                    *)
PullsWhatIsRecorded ==
    (pull # Absent /\ pull.found # Absent) =>
        /\ pull.found # Refused
        /\ pull.found.layers = LayerSet(pull.record)

(* A puller that asks for a kind of layer for its platform finds one at    *)
(* most (OciAdapterRecord::validate).                                      *)
OneLayerPerPlatform ==
    (kept # Absent) =>
        \A record \in kept : \A one, two \in LayerSet(record) :
            (one.kind = two.kind /\ one.platform = two.platform) => one = two

(* A record leads to one artifact, and in it to one layer.                 *)
RecordsLeadToOneLayer == PullsWhatIsRecorded /\ OneLayerPerPlatform

(* Two records with the same layers, whatever the order in which their     *)
(* publishers list them, have the same bytes                               *)
(* (OciAdapterRecord::canonical_json_bytes).                               *)
RecordsOfOneArtifactAgree ==
    (kept # Absent) =>
        \A r, s \in kept :
            (/\ LayerSet(r) = LayerSet(s)
             /\ [r EXCEPT !.layers = <<>>] = [s EXCEPT !.layers = <<>>])
            => r = s

=============================================================================
