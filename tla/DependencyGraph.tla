--------------------------- MODULE DependencyGraph ---------------------------
(***************************************************************************)
(* Dependency graph documents (src/rust/dependency_graph.rs): producers    *)
(* assemble documents list by list (every field is public), finalize them  *)
(* and hand canonical bytes over a channel on which anything may happen; a *)
(* strict verifier and lenient readers receive them.                       *)
(*                                                                         *)
(* An item of a list is its comparison key, the fields in the order in     *)
(* which the derived Ord compares them, and its feature list (the target   *)
(* of a declared dependency, compared after them, is in the key).  A key   *)
(* begins with the identity (a node's id, a snapshot's registry_id), an    *)
(* edge's with its two endpoints.  Blank stands for a string or digest     *)
(* that validation refuses.  `scalars` stands for the fields outside the   *)
(* lists, the schema and the declared package included.                    *)
(***************************************************************************)
EXTENDS Arrangements, SequencesExt

CONSTANTS
    Producers,
    Starts,         \* documents a producer may start from
    Offered,        \* items a producer may add, by list
    Filters,        \* projections a producer may apply
    MaxLength,      \* bound: items in a list
    MaxAccepted     \* bound: messages accepted

Blank == 0

ListNames == {"dependencies", "roots", "nodes", "edges", "enabled_features",
              "registry_snapshots"}

Item == [key : Seq(Nat), features : Seq(Nat)]

(* DependencyGraphProjection; `limited` for a target or a maximal depth,   *)
(* `filters` for its features and kinds.                                   *)
Projection == [limited : BOOLEAN, filters : Seq(Nat)]

(* A digest stands for its preimage, an absent one for none. *)
NoDigest == <<>>
NoProjection == [limited |-> FALSE, filters |-> <<Blank>>]
Nothing == [form |-> "nothing"]

IsDigest(digest) == DOMAIN digest \in {{}, {1}}

(* A value of type DependencyGraphDocument.  A declared document has no    *)
(* roots, nodes and edges, a resolved one no dependencies.                 *)
IsDocument(doc) ==
    /\ doc = [view |-> doc.view, scalars |-> doc.scalars,
              completeness |-> doc.completeness,
              parent_graph_digest |-> doc.parent_graph_digest,
              projection |-> doc.projection, lists |-> doc.lists,
              graph_digest |-> doc.graph_digest]
    /\ doc.view \in {"declared", "resolved"}
    /\ doc.scalars \in Nat
    /\ doc.completeness \in {"complete", "projected"}
    /\ IsDigest(doc.parent_graph_digest) /\ IsDigest(doc.graph_digest)
    /\ doc.projection \in Projection
    /\ doc.lists \in [ListNames -> Seq(Item)]
    /\ \A name \in ListNames :
          (name = "dependencies") # (doc.view = "declared")
              => doc.lists[name] = <<>>

ASSUME DocumentsAssumption ==
    /\ MaxLength \in Nat /\ MaxAccepted \in Nat
    /\ \A doc \in Starts : IsDocument(doc)
    /\ Offered \in [ListNames -> SUBSET Item]
    /\ Filters \subseteq Projection

(* Bytes are the document that serde parses from them and their spelling:  *)
(* the canonical one of this very document, another one (whitespace, an    *)
(* unknown member, a null), or garbage, which parses as none.              *)
VARIABLES
    draft,      \* each producer's document
    wire,       \* the bytes in transit, Nothing before the first
    accepted    \* the bytes the strict verifier has accepted

vars == <<draft, wire, accepted>>

-----------------------------------------------------------------------------
(* Normalization. *)

(* The derived order on vectors: element by element, then by length. *)
Before(s, t) ==
    \/ \E n \in 1..Len(s) :
          /\ n <= Len(t) /\ s[n] < t[n]
          /\ \A m \in 1..(n - 1) : s[m] = t[m]
    \/ /\ Len(s) < Len(t)
       /\ \A m \in 1..Len(s) : s[m] = t[m]

ItemBefore(x, y) ==
    Before(x.key, y.key) \/ (x.key = y.key /\ Before(x.features, y.features))

NumberOrder(S) == {pair \in S \X S : pair[1] < pair[2]}
ItemOrder(S) == {pair \in S \X S : ItemBefore(pair[1], pair[2])}

SortDedupNumbers(s) == InOrderOf(ToSet(s), NumberOrder(ToSet(s)))

SortDedup(list) == InOrderOf(ToSet(list), ItemOrder(ToSet(list)))

(* sort, which keeps repetitions. *)
ByItem(list) ==
    {pair \in (DOMAIN list) \X (DOMAIN list) :
        \/ ItemBefore(list[pair[1]], list[pair[2]])
        \/ list[pair[1]] = list[pair[2]] /\ pair[1] < pair[2]}

Sorted(list) == Arranged(list, DOMAIN list, ByItem(list))

WithSortedFeatures(list) ==
    [i \in DOMAIN list |->
        [list[i] EXCEPT !.features = SortDedupNumbers(@)]]

(* Mutant: a list is sorted before the features of its items. *)
NormalizedListFeaturesLast(name, list) ==
    WithSortedFeatures(IF name = "nodes" THEN Sorted(list)
                                         ELSE SortDedup(list))

(* Features first, so that items which differ only in their order are one. *)
(* Nodes are sorted and no more: a repeated node is an error, not noise.   *)
NormalizedList(name, list) ==
    IF name = "nodes" THEN Sorted(WithSortedFeatures(list))
                      ELSE SortDedup(WithSortedFeatures(list))

(* normalize_in_place *)
Normalized(doc) ==
    [doc EXCEPT
        !.lists = [name \in ListNames |-> NormalizedList(name, @[name])],
        !.projection.filters = SortDedupNumbers(@)]

-----------------------------------------------------------------------------
(* Validation and digests. *)

WellFormed(item) == Blank \notin ToSet(item.key) \cup ToSet(item.features)

(* BTreeSet::insert of the identity of each item. *)
IdentitiesAreDistinct(list) ==
    \A i, j \in DOMAIN list : list[i].key[1] = list[j].key[1] => i = j

ProjectionIsSound(doc) ==
    IF doc.completeness = "complete"
    THEN doc.parent_graph_digest = NoDigest /\ doc.projection = NoProjection
    ELSE /\ doc.parent_graph_digest # NoDigest
         /\ doc.projection # NoProjection
         /\ doc.projection.limited \/ doc.projection.filters # <<>>

(* validate_structure.  Enabled features are not looked at. *)
StructureIsSound(doc) ==
    LET ids == {doc.lists["nodes"][i].key[1] : i \in DOMAIN doc.lists["nodes"]}
    IN  /\ doc.scalars # Blank
        /\ \A name \in ListNames \ {"enabled_features"} :
              \A i \in DOMAIN doc.lists[name] : WellFormed(doc.lists[name][i])
        /\ doc.view = "resolved" =>
              /\ \A name \in {"roots", "nodes", "registry_snapshots"} :
                    doc.lists[name] # <<>>
              /\ IdentitiesAreDistinct(doc.lists["nodes"])
              /\ IdentitiesAreDistinct(doc.lists["registry_snapshots"])
              /\ \A root \in ToSet(doc.lists["roots"]) : root.key[1] \in ids
              /\ \A edge \in ToSet(doc.lists["edges"]) :
                    edge.key[1] \in ids /\ edge.key[2] \in ids
              /\ ProjectionIsSound(doc)

(* canonical_payload_bytes: the digest member is left out. *)
Payload(doc) == [Normalized(doc) EXCEPT !.graph_digest = NoDigest]

(* compute_graph_digest; a digest has one preimage. *)
Digest(doc) == <<Payload(doc)>>

Finalized(doc) ==
    [Payload(doc) EXCEPT !.graph_digest = Digest(Payload(doc))]

(* validate *)
Problem(doc) ==
    IF ~StructureIsSound(doc) THEN "structure"
    ELSE IF doc.graph_digest = NoDigest THEN "ok"
    ELSE IF ~StructureIsSound(Payload(doc)) THEN "structure"
    ELSE IF doc.graph_digest # Digest(doc) THEN "mismatch"
    ELSE "ok"

(* verify_digest *)
DigestProblem(doc) ==
    IF doc.graph_digest = NoDigest THEN "missing_digest" ELSE Problem(doc)

(* Mutant: only the structure is validated before encoding. *)
EncodingProblemOfStructure(doc) ==
    IF StructureIsSound(Normalized(doc)) THEN "ok" ELSE "structure"

(* canonical_document_bytes: the error, or the bytes. *)
EncodingProblem(doc) == Problem(Normalized(doc))

Encoding(doc) == [form |-> "canonical", document |-> Normalized(doc)]

(* Mutant: parsed leniently, the digest is enough. *)
StrictProblemLenient(bytes) ==
    IF bytes.form = "garbage" THEN "json" ELSE DigestProblem(bytes.document)

(* parse_verified_canonical *)
StrictProblem(bytes) ==
    IF bytes.form = "garbage" THEN "json"
    ELSE IF DigestProblem(bytes.document) # "ok"
         THEN DigestProblem(bytes.document)
    ELSE IF EncodingProblem(bytes.document) # "ok"
         THEN EncodingProblem(bytes.document)
    ELSE IF bytes # Encoding(bytes.document) THEN "not_canonical"
    ELSE "ok"

-----------------------------------------------------------------------------
Init ==
    /\ draft \in [Producers -> Starts]
    /\ wire = Nothing
    /\ accepted = {}

(* A producer drops its document and starts another. *)
Start(p, doc) ==
    /\ draft' = [draft EXCEPT ![p] = doc]
    /\ UNCHANGED <<wire, accepted>>

(* A producer adds to its document, which may have been finalized. *)
Add(p, name, item) ==
    /\ (name = "dependencies") = (draft[p].view = "declared")
    /\ Len(draft[p].lists[name]) < MaxLength
    /\ draft' = [draft EXCEPT ![p].lists[name] = Append(@, item)]
    /\ UNCHANGED <<wire, accepted>>

(* A producer turns a document into a projection of it: no edges remain. *)
Project(p, filter) ==
    /\ draft[p].view = "resolved" /\ draft[p].completeness = "complete"
    /\ draft[p].graph_digest # NoDigest
    /\ draft' = [draft EXCEPT ![p] = [draft[p] EXCEPT
           !.completeness = "projected",
           !.parent_graph_digest = draft[p].graph_digest,
           !.projection = filter,
           !.lists["edges"] = <<>>]]
    /\ UNCHANGED <<wire, accepted>>

(* finalize.  It takes the document: a producer whose document is refused  *)
(* is left with the copy it kept.                                          *)
Finalize(p) ==
    /\ StructureIsSound(Payload(draft[p]))
    /\ draft' = [draft EXCEPT ![p] = Finalized(@)]
    /\ UNCHANGED <<wire, accepted>>

Send(p) ==
    /\ EncodingProblem(draft[p]) = "ok"
    /\ wire' = Encoding(draft[p])
    /\ UNCHANGED <<draft, accepted>>

(* On the way bytes are respelled, damaged, or re-encoded from a document  *)
(* whose lists are turned round or whose digest is dropped.                *)
Readable == wire # Nothing /\ wire.form # "garbage"

Respell(form) ==
    /\ Readable
    /\ wire' = [wire EXCEPT !.form = form]
    /\ UNCHANGED <<draft, accepted>>

TurnRound(name) ==
    /\ Readable
    /\ wire' = [wire EXCEPT !.document.lists[name] = Reverse(@)]
    /\ UNCHANGED <<draft, accepted>>

DropDigest ==
    /\ Readable
    /\ wire' = [wire EXCEPT !.document.graph_digest = NoDigest]
    /\ UNCHANGED <<draft, accepted>>

(* The strict verifier. *)
Verify ==
    /\ wire # Nothing /\ Cardinality(accepted) < MaxAccepted
    /\ StrictProblem(wire) = "ok"
    /\ accepted' = accepted \cup {wire}
    /\ UNCHANGED <<draft, wire>>

(* A lenient reader parses the bytes, checks the digest and goes on with   *)
(* the document.                                                           *)
Load(p) ==
    /\ Readable
    /\ DigestProblem(wire.document) = "ok"
    /\ draft' = [draft EXCEPT ![p] = wire.document]
    /\ UNCHANGED <<wire, accepted>>

Next ==
    \/ \E p \in Producers :
          \/ \E doc \in Starts : Start(p, doc)
          \/ \E name \in ListNames : \E item \in Offered[name] :
                Add(p, name, item)
          \/ \E filter \in Filters : Project(p, filter)
          \/ Finalize(p) \/ Send(p) \/ Load(p)
    \/ \E form \in {"canonical", "other", "garbage"} : Respell(form)
    \/ \E name \in ListNames : TurnRound(name)
    \/ DropDigest
    \/ Verify

Spec == Init /\ [][Next]_vars

-----------------------------------------------------------------------------
(* What a document says, however its lists are ordered and repeated. *)
Meaning(doc) ==
    [view |-> doc.view, scalars |-> doc.scalars,
     completeness |-> doc.completeness,
     parent_graph_digest |-> doc.parent_graph_digest,
     limited |-> doc.projection.limited,
     filters |-> ToSet(doc.projection.filters),
     lists |-> [name \in ListNames |->
        {<<item.key, ToSet(item.features)>> :
            item \in ToSet(doc.lists[name])}]]

(* The documents that someone holds. *)
Held ==
    {draft[p] : p \in Producers} \cup {bytes.document : bytes \in accepted}
    \cup IF Readable THEN {wire.document} ELSE {}

(* Any two documents have one digest exactly when they say the same,       *)
(* whoever assembled them, in whatever order and with what repetitions; a  *)
(* projection and its parent never do: normalize_in_place sorts features   *)
(* before the items they belong to (compute_graph_digest).                 *)
DigestNamesMeaning ==
    \A d, e \in {doc \in Held : StructureIsSound(Payload(doc))} :
        Digest(d) = Digest(e) <=> Meaning(d) = Meaning(e)

(* A document that carries a digest and can be encoded is accepted by the  *)
(* strict verifier at the other end and says there what it said here, and  *)
(* finalizing it once more changes nothing: normalization is idempotent    *)
(* (canonical_document_bytes, parse_verified_canonical, finalize).         *)
SentIsAccepted ==
    \A p \in Producers :
        draft[p].graph_digest # NoDigest /\ EncodingProblem(draft[p]) = "ok"
        => LET bytes == Encoding(draft[p])
           IN  /\ StrictProblem(bytes) = "ok"
               /\ Meaning(bytes.document) = Meaning(draft[p])
               /\ Digest(bytes.document) = bytes.document.graph_digest

(* A graph has one accepted encoding: bytes that differ in anything, a     *)
(* member the model does not know included, name different graphs          *)
(* (parse_verified_canonical compares the bytes).                          *)
OneEncodingPerGraph ==
    \A b \in accepted, c \in accepted \cup {wire} :
        /\ c # Nothing /\ StrictProblem(c) = "ok"
        /\ \/ b.document.graph_digest = c.document.graph_digest
           \/ Meaning(b.document) = Meaning(c.document)
        => b = c

(* The encoding that is sent is accepted, and no other is.                 *)
OneAcceptedEncoding == SentIsAccepted /\ OneEncodingPerGraph
=============================================================================
