-------------------------- MODULE RegistryDocuments --------------------------
(***************************************************************************)
(* The signed documents of registry protocol v1                            *)
(* (src/rust/registry_protocol_v1.rs): the discovery document, which names *)
(* the online keys and is signed by root keys kept elsewhere, and the      *)
(* checkpoint, which an online key signs.                                  *)
(*                                                                         *)
(* A digest stands for the bytes it is of: the bytes of a document are the *)
(* record that the canonical JSON spells, and a record whose optional      *)
(* member is left out has NoDigest there.  Timestamps are instants.        *)
(***************************************************************************)
EXTENDS Absence, Integers, Sequences, FiniteSets, SequencesExt

CONSTANTS
    RootIds,        \* root key identifiers
    KeyIds,         \* online key identifiers
    Registries,     \* registry identifiers
    NoDigest        \* an absent predecessor digest

KeyStates == {"active", "retired"}

SigningKey == [key_id : KeyIds, state : KeyStates]

DistinctKeys(seq) ==
    \A i, j \in DOMAIN seq : seq[i].key_id = seq[j].key_id => i = j

----------------------------------------------------------------------------
(* Discovery documents.  A record has the fields version, generated_at,    *)
(* expires_at, previous_discovery_sha256, registry_id, signing_keys and    *)
(* root_signatures; `sound` stands for every check of the other fields.    *)

(* The key list is taken as it comes. *)
ValidPayloadAnyKeys(discovery) ==
    /\ discovery.version # 0
    /\ discovery.generated_at < discovery.expires_at
    /\ discovery.version = 1 <=> discovery.previous_discovery_sha256 = NoDigest
    /\ discovery.sound
    /\ \E i \in DOMAIN discovery.signing_keys :
          discovery.signing_keys[i].state = "active"

ValidPayload(discovery) ==
    /\ discovery.version # 0
    /\ discovery.generated_at < discovery.expires_at
    /\ discovery.version = 1 <=> discovery.previous_discovery_sha256 = NoDigest
    /\ discovery.sound
    /\ DistinctKeys(discovery.signing_keys)
    /\ \E i \in DOMAIN discovery.signing_keys :
          discovery.signing_keys[i].state = "active"

(* RegistryDiscoveryV1::validate.  Whether the signatures are good is not  *)
(* its question: it has no root keys.                                      *)
ValidDiscovery(discovery) ==
    /\ ValidPayload(discovery)
    /\ discovery.root_signatures # <<>>
    /\ DistinctKeys(discovery.root_signatures)

(* The arrays are taken in the order they have. *)
NormalizedAsIs(discovery) == discovery

(* normalize_in_place, of a document with distinct identifiers: a sorted   *)
(* array is told by its elements.                                          *)
Normalized(discovery) ==
    [discovery EXCEPT !.signing_keys = ToSet(@), !.root_signatures = ToSet(@)]

(* The signatures collected so far are part of the payload. *)
SigningPayloadWithSignatures(discovery) ==
    IF ValidPayload(discovery) THEN Normalized(discovery) ELSE Refused

(* The keys are left out with the signatures. *)
SigningPayloadWithoutKeys(discovery) ==
    IF ValidPayload(discovery)
    THEN [discovery EXCEPT !.root_signatures = {}, !.signing_keys = {}]
    ELSE Refused

(* What the root keys sign: everything but their signatures. *)
SigningPayload(discovery) ==
    IF ValidPayload(discovery)
    THEN Normalized([discovery EXCEPT !.root_signatures = <<>>])
    ELSE Refused

(* canonical_json_bytes of the signed document: the next version's         *)
(* predecessor link.                                                       *)
DiscoveryBytes(discovery) ==
    IF ValidDiscovery(discovery) THEN Normalized(discovery) ELSE Refused

----------------------------------------------------------------------------
(* Checkpoints.  A record has the fields registry_id, sequence,            *)
(* generated_at, expires_at, index_root_sha256,                            *)
(* previous_checkpoint_sha256, signing_key_id and signature.               *)

ValidCheckpoint(checkpoint) ==
    /\ checkpoint.sequence # 0
    /\ checkpoint.generated_at < checkpoint.expires_at
    /\ checkpoint.sequence = 1
          <=> checkpoint.previous_checkpoint_sha256 = NoDigest

CheckpointFields ==
    {"registry_id", "sequence", "generated_at", "expires_at",
     "index_root_sha256", "previous_checkpoint_sha256", "signing_key_id"}

(* The payload does not cover the registry. *)
CheckpointPayloadNoRegistry(checkpoint) ==
    IF ValidCheckpoint(checkpoint)
    THEN [field \in CheckpointFields \ {"registry_id"} |-> checkpoint[field]]
    ELSE Refused

(* What the online key signs: a record of these fields. *)
CheckpointPayload(checkpoint) ==
    IF ValidCheckpoint(checkpoint)
    THEN [field \in CheckpointFields |-> checkpoint[field]]
    ELSE Refused

----------------------------------------------------------------------------
(* Any listed key will do. *)
AuthorizesAnyState(discovery, checkpoint) ==
    /\ ValidDiscovery(discovery)
    /\ ValidCheckpoint(checkpoint)
    /\ discovery.registry_id = checkpoint.registry_id
    /\ \E i \in DOMAIN discovery.signing_keys :
          discovery.signing_keys[i].key_id = checkpoint.signing_key_id

(* authorize_current_checkpoint_metadata *)
Authorizes(discovery, checkpoint) ==
    /\ ValidDiscovery(discovery)
    /\ ValidCheckpoint(checkpoint)
    /\ discovery.registry_id = checkpoint.registry_id
    /\ \E i \in DOMAIN discovery.signing_keys :
          /\ discovery.signing_keys[i].state = "active"
          /\ discovery.signing_keys[i].key_id = checkpoint.signing_key_id

=============================================================================
