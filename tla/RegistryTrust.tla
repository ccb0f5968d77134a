---------------------------- MODULE RegistryTrust ----------------------------
(***************************************************************************)
(* A registry, its root keys and its readers, who exchange the documents   *)
(* of RegistryDocuments (src/rust/registry_protocol_v1.rs) through stores  *)
(* that may answer late, reorder arrays or damage what they hold.          *)
(*                                                                         *)
(* The publisher drafts a discovery document; each root key signs the      *)
(* payload of the draft it is shown; the signatures come back in any order *)
(* and perhaps after the draft was revised.  An online key signs           *)
(* checkpoints.  A signer that has not heard of a rotation goes on signing *)
(* with a retired key, and a neighbour registry uses the same online keys. *)
(* A reader starts from the root keys it was enrolled with.                *)
(*                                                                         *)
(* The code of src/ defines the documents and every check on them.  Who    *)
(* calls it is outside: the actions follow the clients, publishers and     *)
(* ceremonies that docs/registry-protocol-v1.md lays down for it.          *)
(***************************************************************************)
EXTENDS RegistryDocuments

CONSTANTS
    Home, Elsewhere,    \* the registry and its neighbour
    Readers,
    IndexRoots,
    Threshold,          \* root signatures a reader wants
    Drafts,             \* what a publisher may draft
    Expiries,           \* when a checkpoint may expire
    MaxTime, MaxVersion, MaxSequence, MaxApprovals, MaxStrays   \* bounds

Instants == 0..MaxTime

(* What there is before the first document and the first checkpoint. *)
NoDiscovery == [version |-> 0]
NoCheckpoint == [sequence |-> 0, index_root_sha256 |-> "none"]

ASSUME TrustAssumption ==
    /\ {Home, Elsewhere} \subseteq Registries /\ Home # Elsewhere
    /\ IsFiniteSet(RootIds)
    /\ Drafts \subseteq [signing_keys : Seq(SigningKey), expires_at : Instants,
                       sound : BOOLEAN]
    /\ Expiries \subseteq Instants
    /\ Threshold \in Nat \ {0}
    /\ {MaxTime, MaxVersion, MaxSequence, MaxApprovals, MaxStrays} \subseteq Nat

VARIABLES
    now,
    draft,      \* the discovery document in preparation
    approvals,  \* the root signatures made so far, each with the meaning of
                \* the draft its root was shown
    released,   \* the discovery documents published, in order
    history,    \* the checkpoints published, in order
    strays,     \* checkpoints signed with a key that was retired
    trusted,    \* the discovery document each reader goes by
    view,       \* the checkpoint each reader goes by
    taken_at    \* when it accepted that checkpoint

publisherVars == <<draft, approvals, released>>
signerVars == <<history, strays>>
readerVars == <<trusted, view, taken_at>>
vars == <<now, publisherVars, signerVars, readerVars>>

----------------------------------------------------------------------------
(* Discovery documents *)

Retires(discovery, key) ==
    [key_id |-> key, state |-> "retired"] \in ToSet(discovery.signing_keys)

Activates(discovery, key) ==
    [key_id |-> key, state |-> "active"] \in ToSet(discovery.signing_keys)

(* What a document says, whatever the order of its arrays and whoever has  *)
(* signed it.                                                              *)
Meaning(discovery) ==
    [discovery EXCEPT !.root_signatures = <<>>, !.signing_keys = ToSet(@)]

(* The client's threshold.  It counts the good signatures and leaves it to *)
(* validate that they are of different roots.                              *)
Verified(discovery) ==
    /\ ValidDiscovery(discovery)
    /\ Threshold <= Cardinality({i \in DOMAIN discovery.root_signatures :
          discovery.root_signatures[i].covers = SigningPayload(discovery)})

Reordered(discovery) ==
    {discovery,
     [discovery EXCEPT !.signing_keys = Reverse(@)],
     [discovery EXCEPT !.root_signatures = Reverse(@)]}

(* Copies of a document: with arrays in another order, with a signature    *)
(* lost or repeated, or with another value in a field.                     *)
DiscoveryCopies(discovery) ==
    LET signatures == discovery.root_signatures IN
    Reordered(discovery)
    \cup {[discovery EXCEPT !.root_signatures = RemoveAt(@, i)] :
             i \in DOMAIN signatures}
    \cup {[discovery EXCEPT !.root_signatures = Append(@, signatures[i])] :
             i \in DOMAIN signatures}
    \cup {[discovery EXCEPT !.signing_keys = other.signing_keys] :
             other \in Drafts}
    \cup {[discovery EXCEPT !.expires_at = time] : time \in Instants}
    \cup {[discovery EXCEPT !.version = n] : n \in 1..MaxVersion}

(* The next document in the chain from the one a reader goes by. *)
Follows(discovery, reader) ==
    trusted[reader] # NoDiscovery =>
       /\ discovery.version = trusted[reader].version + 1
       /\ discovery.previous_discovery_sha256 = DiscoveryBytes(trusted[reader])

----------------------------------------------------------------------------
(* Checkpoints *)

Signed(registry, sequence, previous, root, issued, expires, key) ==
    LET body == [registry_id |-> registry,
                 sequence |-> sequence,
                 generated_at |-> issued,
                 expires_at |-> expires,
                 index_root_sha256 |-> root,
                 previous_checkpoint_sha256 |-> previous,
                 signing_key_id |-> key]
    IN  [field \in CheckpointFields \cup {"signature"} |->
            IF field = "signature"
            THEN [by |-> key, covers |-> CheckpointPayload(body)]
            ELSE body[field]]

(* The neighbour's checkpoints: the same keys, another history. *)
Neighbours ==
    {Signed(Elsewhere, 1, NoDigest, root, 0, MaxTime + 1, key) :
        root \in IndexRoots, key \in KeyIds}

CheckpointCopies(checkpoint) ==
    {checkpoint}
    \cup {[checkpoint EXCEPT !.registry_id = id] : id \in Registries}
    \cup {[checkpoint EXCEPT !.sequence = n] : n \in 1..MaxSequence}
    \cup {[checkpoint EXCEPT !.expires_at = time] : time \in Instants}
    \cup {[checkpoint EXCEPT !.index_root_sha256 = root] : root \in IndexRoots}
    \cup {[checkpoint EXCEPT !.signing_key_id = key] : key \in KeyIds}

CheckpointsAround ==
    UNION {CheckpointCopies(checkpoint) :
              checkpoint \in ToSet(history) \cup strays \cup Neighbours}

GoodSignature(checkpoint) ==
    checkpoint.signature = [by |-> checkpoint.signing_key_id,
                            covers |-> CheckpointPayload(checkpoint)]

(* A reader keeps the highest checkpoint it has accepted, and checks the   *)
(* predecessor link when it has the predecessor.                           *)
Advances(checkpoint, reader) ==
    /\ checkpoint.sequence > view[reader].sequence
    /\ (/\ view[reader] # NoCheckpoint
        /\ checkpoint.sequence = view[reader].sequence + 1)
          => checkpoint.previous_checkpoint_sha256 = view[reader]

----------------------------------------------------------------------------
Init ==
    /\ now = 0
    /\ draft = NoDiscovery
    /\ approvals = {}
    /\ released = <<>>
    /\ history = <<>>
    /\ strays = {}
    /\ trusted = [reader \in Readers |-> NoDiscovery]
    /\ view = [reader \in Readers |-> NoCheckpoint]
    /\ taken_at = [reader \in Readers |-> 0]

(* The publisher writes the next version, or revises it. *)
Compose(text) ==
    /\ Len(released) < MaxVersion
    /\ draft' = [version |-> Len(released) + 1,
                 generated_at |-> now,
                 expires_at |-> text.expires_at,
                 previous_discovery_sha256 |->
                    IF released = <<>> THEN NoDigest
                    ELSE DiscoveryBytes(Last(released)),
                 registry_id |-> Home,
                 sound |-> text.sound,
                 signing_keys |-> text.signing_keys,
                 root_signatures |-> <<>>]
    /\ UNCHANGED <<now, approvals, released, signerVars, readerVars>>

(* A root signs the payload of the draft as it is. *)
Approve(root) ==
    /\ draft # NoDiscovery
    /\ SigningPayload(draft) # Refused
    /\ Cardinality(approvals) < MaxApprovals
    /\ approvals' = approvals \cup
          {[key_id |-> root, covers |-> SigningPayload(draft),
            meaning |-> Meaning(draft)]}
    /\ UNCHANGED <<now, draft, released, signerVars, readerVars>>

(* A signature arrives and is put in the draft: perhaps twice, perhaps     *)
(* when the draft is no longer the one it was made for.                    *)
Attach(approval) ==
    /\ draft # NoDiscovery
    /\ Len(draft.root_signatures) < Cardinality(RootIds)
    /\ draft' = [draft EXCEPT !.root_signatures =
          Append(@, [key_id |-> approval.key_id, covers |-> approval.covers])]
    /\ UNCHANGED <<now, approvals, released, signerVars, readerVars>>

(* The publisher verifies the document as its readers will. *)
Release ==
    /\ draft # NoDiscovery
    /\ Verified(draft)
    /\ released' = Append(released, draft)
    /\ draft' = NoDiscovery
    /\ UNCHANGED <<now, approvals, signerVars, readerVars>>

(* The online signer: the head of the chain names its key.  It signs only  *)
(* what validates, as signing_payload_bytes refuses anything else.         *)
Commit(root, expires, key) ==
    LET checkpoint ==
           Signed(Home, Len(history) + 1,
                  IF history = <<>> THEN NoDigest ELSE Last(history),
                  root, now, expires, key)
    IN  /\ released # <<>>
        /\ Activates(Last(released), key) /\ ~Retires(Last(released), key)
        /\ Len(history) < MaxSequence
        /\ ValidCheckpoint(checkpoint)
        /\ history' = Append(history, checkpoint)
        /\ UNCHANGED <<now, publisherVars, strays, readerVars>>

(* A signer that lags: it goes on from some checkpoint with a key that a   *)
(* released document retires.                                              *)
CommitLate(root, expires, key) ==
    /\ Cardinality(strays) < MaxStrays
    /\ \E n \in DOMAIN released : Retires(released[n], key)
    /\ \E n \in 0..Len(history) :
          LET checkpoint ==
                 Signed(Home, n + 1, IF n = 0 THEN NoDigest ELSE history[n],
                        root, now, expires, key)
          IN  /\ ValidCheckpoint(checkpoint)
              /\ strays' = strays \cup {checkpoint}
    /\ UNCHANGED <<now, publisherVars, history, readerVars>>

AcceptDiscovery(reader, discovery) ==
    /\ Verified(discovery)
    /\ discovery.registry_id = Home
    /\ now < discovery.expires_at
    /\ Follows(discovery, reader)
    /\ trusted' = [trusted EXCEPT ![reader] = discovery]
    /\ UNCHANGED <<now, publisherVars, signerVars, view, taken_at>>

AcceptCheckpoint(reader, checkpoint) ==
    /\ trusted[reader] # NoDiscovery
    /\ now < trusted[reader].expires_at
    /\ Authorizes(trusted[reader], checkpoint)
    /\ GoodSignature(checkpoint)
    /\ now < checkpoint.expires_at
    /\ Advances(checkpoint, reader)
    /\ view' = [view EXCEPT ![reader] = checkpoint]
    /\ taken_at' = [taken_at EXCEPT ![reader] = now]
    /\ UNCHANGED <<now, publisherVars, signerVars, trusted>>

Tick ==
    /\ now < MaxTime
    /\ now' = now + 1
    /\ UNCHANGED <<publisherVars, signerVars, readerVars>>

Next ==
    \/ \E text \in Drafts : Compose(text)
    \/ \E root \in RootIds : Approve(root)
    \/ \E approval \in approvals : Attach(approval)
    \/ Release
    \/ \E root \in IndexRoots, expires \in Expiries, key \in KeyIds :
          Commit(root, expires, key) \/ CommitLate(root, expires, key)
    \/ \E reader \in Readers, n \in DOMAIN released :
          \E discovery \in DiscoveryCopies(released[n]) :
             AcceptDiscovery(reader, discovery)
    \/ \E reader \in Readers, checkpoint \in CheckpointsAround :
          AcceptCheckpoint(reader, checkpoint)
    \/ Tick

Spec == Init /\ [][Next]_vars

----------------------------------------------------------------------------
(* Properties *)

(* Types.  A document a reader goes by has no root twice (validate). *)
TypeOK ==
    /\ now \in Instants
    /\ Len(released) <= MaxVersion
    /\ \A n \in DOMAIN released : released[n].version = n
    /\ Len(history) <= MaxSequence
    /\ \A n \in DOMAIN history : history[n].sequence = n
    /\ Cardinality(strays) <= MaxStrays
    /\ \A reader \in Readers :
          /\ taken_at[reader] \in Instants
          /\ trusted[reader] # NoDiscovery =>
                /\ trusted[reader].signing_keys \in Seq(SigningKey)
                /\ DistinctKeys(trusted[reader].root_signatures)
          /\ view[reader] # NoCheckpoint => trusted[reader] # NoDiscovery

(* The document a reader goes by says what a threshold of different roots  *)
(* saw and signed, although signatures are collected over several          *)
(* revisions of a draft and copies are damaged on the way                  *)
(* (signing_payload_bytes, validate).                                      *)
ThresholdHolds ==
    \A reader \in Readers : trusted[reader] # NoDiscovery =>
       LET signers == {approval \in approvals :
                          approval.meaning = Meaning(trusted[reader])}
       IN  Threshold <= Cardinality({approval.key_id : approval \in signers})

(* A root signs before the others' signatures are there and they arrive in *)
(* any order: once enough of those made for this draft are in it, it       *)
(* verifies, in whatever order a store gives its arrays                    *)
(* (signing_payload_bytes, normalize_in_place).                            *)
CeremonySuffices ==
    draft # NoDiscovery /\ ValidDiscovery(draft) =>
       LET good == {approval \in approvals :
              /\ approval.meaning = Meaning(draft)
              /\ [key_id |-> approval.key_id, covers |-> approval.covers]
                    \in ToSet(draft.root_signatures)}
       IN  Threshold <= Cardinality({approval.key_id : approval \in good})
              => \A copy \in Reordered(draft) : Verified(copy)

(* Whichever copies a reader and the publisher have, the reader can follow *)
(* the chain to the next released document: the predecessor link does not  *)
(* depend on the order of arrays (canonical_json_bytes).                   *)
ChainCanBeFollowed ==
    \A reader \in Readers :
       LET version == trusted[reader].version
       IN  version # 0 /\ version < Len(released) =>
              \A copy \in Reordered(released[version + 1]) :
                 Verified(copy) /\ Follows(copy, reader)

(* A reader that goes by a document that retires a key takes up nothing    *)
(* signed with it, whoever still signs (authorize_current_checkpoint_      *)
(* metadata, and the uniqueness of key identifiers).                       *)
RetiredKeysAreDead ==
    [][\A reader \in Readers : view'[reader] # view[reader] =>
          ~Retires(trusted[reader], view'[reader].signing_key_id)]_vars

(* A checkpoint that is not in the publisher's history is taken up only    *)
(* while some released document that has its key active is unexpired: a    *)
(* rotation ends a lagging signer's influence at a known time.             *)
LaggingSignerWindow ==
    \A reader \in Readers :
       view[reader] # NoCheckpoint /\ view[reader] \notin ToSet(history) =>
          \E n \in DOMAIN released :
             /\ Activates(released[n], view[reader].signing_key_id)
             /\ ~Retires(released[n], view[reader].signing_key_id)
             /\ taken_at[reader] < released[n].expires_at

(* Without a lagging signer, readers move along the publisher's history:   *)
(* no checkpoint of a neighbour that uses the same keys and no damaged     *)
(* copy takes one off it, back or ahead.                                   *)
History == INSTANCE RegistryHistory WITH
    roots <- [n \in DOMAIN history |-> history[n].index_root_sha256],
    place <- [reader \in Readers |->
        [sequence |-> view[reader].sequence,
         index_root |-> view[reader].index_root_sha256]]

ImplementsRegistryHistory == History!Spec

=============================================================================
