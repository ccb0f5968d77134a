------------------------- MODULE RegistryTrustProofs -------------------------
(***************************************************************************)
(* Properties of RegistryTrust for every number of roots, keys and readers *)
(* and every bound: the document a reader goes by was signed by a          *)
(* threshold of different roots who saw what it says, no retired key       *)
(* signs for a reader that knows, and, with no lagging signer, readers     *)
(* move along the publisher's history; then, from where every document     *)
(* comes, what signing in any order, following the chain and a lagging     *)
(* signer can lead to.  Last, of RegistryPublication for every set of      *)
(* packages, requests and parts of records: what is published reaches the  *)
(* reader as it was held.                                                  *)
(***************************************************************************)
EXTENDS RegistryTrust, RegistryPublication, FiniteSetTheorems,
        FunctionTheorems, SequenceTheorems, TLAPS

(* The signatures that exist. *)
Made == {[key_id |-> approval.key_id, covers |-> approval.covers] :
            approval \in approvals}

(* A discovery document of any kind: its signatures exist, whatever they   *)
(* cover.                                                                  *)
Document(discovery) ==
    /\ {"version", "signing_keys", "root_signatures"} \subseteq DOMAIN discovery
    /\ discovery.signing_keys \in Seq(SigningKey)
    /\ discovery.root_signatures \in Seq(Made)

(* An approval's bytes tell what its root was shown. *)
ApprovalInv ==
    /\ IsFiniteSet(approvals)
    /\ \A approval \in approvals :
          approval.meaning = [approval.covers EXCEPT !.root_signatures = <<>>]

DraftInv ==
    draft # NoDiscovery =>
       /\ Document(draft)
       /\ draft.version = Len(released) + 1
       /\ Len(released) < MaxVersion

ReleasedInv ==
    /\ Len(released) <= MaxVersion
    /\ \A n \in DOMAIN released :
          Document(released[n]) /\ released[n].version = n

TrustedInv ==
    \A reader \in Readers : trusted[reader] # NoDiscovery =>
       /\ Document(trusted[reader])
       /\ Verified(trusted[reader])
       /\ trusted[reader].registry_id = Home

(* A checkpoint as a signer makes it. *)
Genuine(checkpoint) ==
    /\ ValidCheckpoint(checkpoint)
    /\ "signature" \in DOMAIN checkpoint
    /\ checkpoint.signature.covers = CheckpointPayload(checkpoint)

SignerInv ==
    /\ Len(history) <= MaxSequence
    /\ \A n \in DOMAIN history :
          /\ Genuine(history[n])
          /\ history[n].sequence = n
          /\ history[n].registry_id = Home
    /\ IsFiniteSet(strays) /\ Cardinality(strays) <= MaxStrays
    /\ \A checkpoint \in strays : Genuine(checkpoint)

(* A reader has a view only if it goes by a discovery document. *)
ViewInv ==
    \A reader \in Readers :
       view[reader] # NoCheckpoint => trusted[reader] # NoDiscovery

(* Sequences are sequences and functions are functions. *)
ShapeInv ==
    /\ now \in Instants
    /\ released \in Seq(ToSet(released))
    /\ history \in Seq(ToSet(history))
    /\ trusted = [reader \in Readers |-> trusted[reader]]
    /\ view = [reader \in Readers |-> view[reader]]
    /\ taken_at \in [Readers -> Instants]

IInv == /\ ShapeInv /\ ApprovalInv /\ DraftInv /\ ReleasedInv /\ TrustedInv
        /\ SignerInv /\ ViewInv

----------------------------------------------------------------------------
(* Appending to a sequence. *)
LEMMA Appended ==
    ASSUME NEW s, NEW e, s \in Seq(ToSet(s))
    PROVE  /\ Append(s, e) \in Seq(ToSet(Append(s, e)))
           /\ Len(s) \in Nat
           /\ DOMAIN s = 1..Len(s)
           /\ Len(Append(s, e)) = Len(s) + 1
           /\ DOMAIN Append(s, e) = 1..(Len(s) + 1)
           /\ Append(s, e)[Len(s) + 1] = e
           /\ \A i \in 1..Len(s) : Append(s, e)[i] = s[i]
  <1> DEFINE t == Append(s, e)
             S == ToSet(s) \cup {e}
  <1>1. s \in Seq(S) /\ t \in Seq(S)
    BY SeqMonotonic, SMT
  <1>2. /\ Len(s) \in Nat /\ DOMAIN s = 1..Len(s)
        /\ Len(t) = Len(s) + 1 /\ DOMAIN t = 1..(Len(s) + 1)
        /\ t[Len(s) + 1] = e /\ \A i \in 1..Len(s) : t[i] = s[i]
    BY <1>1
  <1>3. t \in Seq(ToSet(t))
    BY <1>1, <1>2, \A i \in DOMAIN t : t[i] \in ToSet(t), SeqEqual DEF ToSet
  <1> QED  BY <1>2, <1>3

(* More signatures leave a document a document. *)
LEMMA DocumentsStay ==
    ASSUME approvals \subseteq approvals', NEW d, Document(d)
    PROVE  Document(d)'
  <1>1. Made \subseteq Made'
    BY DEF Made
  <1>2. d.root_signatures \in Seq(Made')
    BY <1>1, SeqMonotonic DEF Document
  <1> QED  BY <1>2 DEF Document

(* A copy of a document is a document. *)
LEMMA CopyIsDocument ==
    ASSUME NEW d, Document(d), NEW copy \in DiscoveryCopies(d),
           TrustAssumption
    PROVE  Document(copy)
  <1> DEFINE signatures == d.root_signatures
  <1>1. signatures \in Seq(Made) /\ d.signing_keys \in Seq(SigningKey)
    BY DEF Document
  <1>2. \A S : \A s \in Seq(S) : Reverse(s) \in Seq(S)
    BY DEF Reverse
  <1>3. \A i \in DOMAIN signatures : RemoveAt(signatures, i) \in Seq(Made)
    <2> TAKE i \in DOMAIN signatures
    <2>1. i \in 1..Len(signatures) /\ Len(signatures) \in Nat
      BY <1>1
    <2>2. SubSeq(signatures, 1, i - 1) \in Seq(Made)
      BY <1>1, <2>1, SubSeqProperties
    <2>3. SubSeq(signatures, i + 1, Len(signatures)) \in Seq(Made)
      BY <1>1, <2>1, SubSeqProperties
    <2> QED  BY <2>2, <2>3 DEF RemoveAt
  <1>4. \A i \in DOMAIN signatures :
           Append(signatures, signatures[i]) \in Seq(Made)
    BY <1>1
  <1>5. \A other \in Drafts : other.signing_keys \in Seq(SigningKey)
    BY DEF TrustAssumption
  <1>6. CASE copy \in Reordered(d)
    BY <1>1, <1>2, <1>6 DEF Reordered, Document
  <1>7. CASE \E i \in DOMAIN signatures :
               copy = [d EXCEPT !.root_signatures = RemoveAt(@, i)]
    BY <1>1, <1>3, <1>7 DEF Document
  <1>8. CASE \E i \in DOMAIN signatures :
               copy = [d EXCEPT !.root_signatures = Append(@, signatures[i])]
    BY <1>1, <1>4, <1>8 DEF Document
  <1>9. CASE \E other \in Drafts :
               copy = [d EXCEPT !.signing_keys = other.signing_keys]
    BY <1>1, <1>5, <1>9 DEF Document
  <1>10. CASE \/ \E time \in Instants : copy = [d EXCEPT !.expires_at = time]
              \/ \E n \in 1..MaxVersion : copy = [d EXCEPT !.version = n]
    BY <1>1, <1>10 DEF Document
  <1> QED  BY <1>6, <1>7, <1>8, <1>9, <1>10 DEF DiscoveryCopies

(* The bytes a root signs determine what the document says. *)
LEMMA PayloadTellsMeaning ==
    ASSUME NEW d, ValidPayload(d)
    PROVE  Meaning(d) = [SigningPayload(d) EXCEPT !.root_signatures = <<>>]
  BY DEF Meaning, SigningPayload, Normalized

(* What validates is a document, with a key of its own for each root.      *)
LEMMA VerifiedFacts ==
    ASSUME NEW d, Verified(d)
    PROVE  /\ ValidPayload(d)
           /\ d # NoDiscovery
           /\ DistinctKeys(d.root_signatures)
           /\ DistinctKeys(d.signing_keys)
  BY DEF Verified, ValidDiscovery, ValidPayload, NoDiscovery

(* The fields of a checkpoint, as it is signed.                            *)
LEMMA SignedFields ==
    ASSUME NEW registry, NEW sequence, NEW previous, NEW root, NEW issued,
           NEW expires, NEW key,
           NEW c, c = Signed(registry, sequence, previous, root, issued,
                             expires, key)
    PROVE  /\ "signature" \in DOMAIN c
           /\ c.signature.covers = CheckpointPayload(c)
           /\ c.registry_id = registry
           /\ c.sequence = sequence
           /\ c.index_root_sha256 = root
           /\ c.signing_key_id = key
  <1> DEFINE body == [registry_id |-> registry,
                      sequence |-> sequence,
                      generated_at |-> issued,
                      expires_at |-> expires,
                      index_root_sha256 |-> root,
                      previous_checkpoint_sha256 |-> previous,
                      signing_key_id |-> key]
  <1>1. \A field \in CheckpointFields : c[field] = body[field]
    BY DEF Signed, CheckpointFields
  <1>2. c.signature = [by |-> key, covers |-> CheckpointPayload(body)]
    BY DEF Signed, CheckpointFields
  <1>3. CheckpointPayload(c) = CheckpointPayload(body)
    BY <1>1 DEF CheckpointPayload, ValidCheckpoint, CheckpointFields
  <1>4. "signature" \in DOMAIN c
    BY DEF Signed
  <1> HIDE DEF body
  <1>5. c.signature.covers = CheckpointPayload(c)
    BY <1>2, <1>3
  <1> QED  BY <1>1, <1>4, <1>5 DEF body, CheckpointFields

(* A copy with a good signature says what its original says.               *)
LEMMA GoodCopy ==
    ASSUME NEW b, Genuine(b), NEW c \in CheckpointCopies(b),
           ValidCheckpoint(c), GoodSignature(c)
    PROVE  /\ c.registry_id = b.registry_id
           /\ c.sequence = b.sequence
           /\ c.index_root_sha256 = b.index_root_sha256
           /\ c.signing_key_id = b.signing_key_id
  <1>1. c.signature = b.signature
    BY DEF CheckpointCopies, Genuine
  <1>2. CheckpointPayload(c) = CheckpointPayload(b)
    BY <1>1 DEF GoodSignature, Genuine
  <1>3. [field \in CheckpointFields |-> c[field]]
           = [field \in CheckpointFields |-> b[field]]
    BY <1>2 DEF CheckpointPayload, Genuine
  <1>4. \A field \in CheckpointFields : c[field] = b[field]
    BY <1>3
  <1> QED  BY <1>4 DEF CheckpointFields

----------------------------------------------------------------------------
LEMMA InitIInv ==
    ASSUME TrustAssumption, Init
    PROVE  IInv
  <1>1. IsFiniteSet({}) /\ Cardinality({}) = 0
    BY FS_EmptySet
  <1>2. ToSet(<<>>) = {} /\ <<>> \in Seq({}) /\ DOMAIN <<>> = {}
    BY DEF ToSet
  <1> QED
    BY <1>1, <1>2 DEF Init, TrustAssumption, IInv, ShapeInv, ApprovalInv,
       DraftInv, ReleasedInv, TrustedInv, SignerInv, ViewInv, Instants

LEMMA ComposeStep ==
    ASSUME TrustAssumption, IInv, NEW text \in Drafts, Compose(text)
    PROVE  IInv'
  <1> USE DEF IInv
  <1>1. draft'.signing_keys \in Seq(SigningKey)
    BY DEF TrustAssumption, Compose
  <1>2. DraftInv'
    BY <1>1 DEF Compose, DraftInv, Document, Made
  <1>3. ReleasedInv' /\ TrustedInv'
    BY DEF Compose, ReleasedInv, TrustedInv, Document, Made, readerVars,
       Verified
  <1>4. ShapeInv' /\ ApprovalInv'
    BY DEF Compose, ShapeInv, ApprovalInv, signerVars, readerVars
  <1>5. SignerInv' /\ ViewInv'
    BY DEF Compose, SignerInv, ViewInv, signerVars, readerVars
  <1> QED  BY <1>2, <1>3, <1>4, <1>5

LEMMA ApproveStep ==
    ASSUME TrustAssumption, IInv, NEW root \in RootIds, Approve(root)
    PROVE  IInv'
  <1> USE DEF IInv
  <1> DEFINE new == [key_id |-> root, covers |-> SigningPayload(draft),
                     meaning |-> Meaning(draft)]
  <1>1. approvals' = approvals \cup {new}
    BY DEF Approve
  <1>2. ValidPayload(draft)
    BY DEF Approve, SigningPayload
  <1>3. new.meaning = [new.covers EXCEPT !.root_signatures = <<>>]
    BY <1>2, PayloadTellsMeaning
  <1>4. ApprovalInv'
    BY <1>1, <1>3, FS_AddElement DEF ApprovalInv
  <1>5. \A d : Document(d) => Document(d)'
    BY <1>1, DocumentsStay
  <1>6. DraftInv' /\ ReleasedInv'
    BY <1>5 DEF Approve, DraftInv, ReleasedInv, Document
  <1>7. TrustedInv'
    BY <1>5 DEF Approve, TrustedInv, readerVars, Document
  <1>8. ShapeInv' /\ SignerInv' /\ ViewInv'
    BY DEF Approve, ShapeInv, SignerInv, ViewInv, signerVars, readerVars
  <1> QED  BY <1>4, <1>6, <1>7, <1>8

LEMMA AttachStep ==
    ASSUME TrustAssumption, IInv, NEW approval \in approvals, Attach(approval)
    PROVE  IInv'
  <1> USE DEF IInv
  <1> DEFINE signature ==
                [key_id |-> approval.key_id, covers |-> approval.covers]
  <1>1. draft' = [draft EXCEPT !.root_signatures =
                     Append(draft.root_signatures, signature)]
    BY DEF Attach
  <1>2. /\ Document(draft) /\ draft.version = Len(released) + 1
        /\ Len(released) < MaxVersion
    BY DEF Attach, DraftInv
  <1>3. signature \in Made
    BY DEF Made
  <1>4. Append(draft.root_signatures, signature) \in Seq(Made)
    BY <1>2, <1>3 DEF Document
  <1>5. /\ DOMAIN draft' = DOMAIN draft
        /\ draft'.version = draft.version
        /\ draft'.signing_keys = draft.signing_keys
        /\ draft'.root_signatures = Append(draft.root_signatures, signature)
    BY <1>1, <1>2 DEF Document
  <1>6. Made' = Made
    BY DEF Attach, Made
  <1>7. DraftInv'
    BY <1>2, <1>4, <1>5, <1>6 DEF DraftInv, Document, Attach
  <1>8. ReleasedInv' /\ TrustedInv'
    BY DEF Attach, ReleasedInv, TrustedInv, Document, Made, readerVars,
       Verified
  <1>9. /\ ShapeInv' /\ ApprovalInv' /\ SignerInv' /\ ViewInv'
    BY DEF Attach, ShapeInv, ApprovalInv, SignerInv, ViewInv, signerVars,
       readerVars
  <1> QED  BY <1>7, <1>8, <1>9

LEMMA ReleaseStep ==
    ASSUME TrustAssumption, IInv, Release
    PROVE  IInv'
  <1> USE DEF IInv
  <1>1. Document(draft) /\ draft.version = Len(released) + 1
    BY DEF Release, DraftInv
  <1>2. released \in Seq(ToSet(released))
    BY DEF ShapeInv
  <1>3. /\ released' \in Seq(ToSet(released'))
        /\ Len(released) \in Nat
        /\ DOMAIN released = 1..Len(released)
        /\ Len(released') = Len(released) + 1
        /\ DOMAIN released' = 1..(Len(released) + 1)
        /\ released'[Len(released) + 1] = draft
        /\ \A i \in 1..Len(released) : released'[i] = released[i]
    BY <1>2, Appended DEF Release
  <1>4. \A n \in DOMAIN released' :
           Document(released'[n]) /\ released'[n].version = n
    BY <1>1, <1>3 DEF ReleasedInv
  <1>5. \A d : Document(d) => Document(d)'
    BY DocumentsStay DEF Release
  <1>6. ReleasedInv'
    BY <1>3, <1>4, <1>5 DEF Release, ReleasedInv, DraftInv, TrustAssumption
  <1>7. DraftInv' /\ ShapeInv' /\ ApprovalInv'
    BY <1>3 DEF Release, DraftInv, ShapeInv, ApprovalInv, signerVars,
       readerVars
  <1>8. TrustedInv' /\ SignerInv' /\ ViewInv'
    BY DEF Release, TrustedInv, SignerInv, ViewInv, Document, Made,
       signerVars, readerVars, Verified
  <1> QED  BY <1>6, <1>7, <1>8

LEMMA CommitStep ==
    ASSUME TrustAssumption, IInv,
           NEW root \in IndexRoots, NEW expires \in Expiries,
           NEW key \in KeyIds, Commit(root, expires, key)
    PROVE  /\ IInv'
           /\ Len(history) \in Nat
           /\ DOMAIN history' = 1..(Len(history) + 1)
           /\ \A n \in 1..Len(history) : history'[n] = history[n]
           /\ history'[Len(history) + 1].index_root_sha256 = root
  <1> USE DEF IInv
  <1> DEFINE checkpoint ==
           Signed(Home, Len(history) + 1,
                  IF history = <<>> THEN NoDigest ELSE Last(history),
                  root, now, expires, key)
  <1>1. /\ ValidCheckpoint(checkpoint) /\ Len(history) < MaxSequence
        /\ history' = Append(history, checkpoint)
    BY DEF Commit
  <1>2. /\ Genuine(checkpoint)
        /\ checkpoint.sequence = Len(history) + 1
        /\ checkpoint.registry_id = Home
        /\ checkpoint.index_root_sha256 = root
    BY <1>1, SignedFields DEF Genuine
  <1> HIDE DEF checkpoint
  <1>3. /\ history' \in Seq(ToSet(history'))
        /\ Len(history) \in Nat
        /\ DOMAIN history = 1..Len(history)
        /\ Len(history') = Len(history) + 1
        /\ DOMAIN history' = 1..(Len(history) + 1)
        /\ history'[Len(history) + 1] = checkpoint
        /\ \A i \in 1..Len(history) : history'[i] = history[i]
    BY <1>1, Appended DEF ShapeInv
  <1>4. SignerInv'
    BY <1>1, <1>2, <1>3 DEF Commit, SignerInv, TrustAssumption, Genuine
  <1>5. ShapeInv' /\ ApprovalInv'
    BY <1>3 DEF Commit, ShapeInv, ApprovalInv, publisherVars, readerVars
  <1>6. DraftInv' /\ ReleasedInv' /\ TrustedInv' /\ ViewInv'
    BY DEF Commit, DraftInv, ReleasedInv, TrustedInv, ViewInv, Document,
       Made, Verified, publisherVars, readerVars
  <1> QED  BY <1>2, <1>3, <1>4, <1>5, <1>6

LEMMA CommitLateStep ==
    ASSUME TrustAssumption, IInv,
           NEW root \in IndexRoots, NEW expires \in Expiries,
           NEW key \in KeyIds, CommitLate(root, expires, key)
    PROVE  IInv'
  <1> USE DEF IInv
  <1>1. PICK n \in 0..Len(history) :
           LET checkpoint ==
                  Signed(Home, n + 1, IF n = 0 THEN NoDigest ELSE history[n],
                         root, now, expires, key)
           IN  /\ ValidCheckpoint(checkpoint)
               /\ strays' = strays \cup {checkpoint}
    BY DEF CommitLate
  <1> DEFINE checkpoint ==
           Signed(Home, n + 1, IF n = 0 THEN NoDigest ELSE history[n],
                  root, now, expires, key)
  <1>2. ValidCheckpoint(checkpoint) /\ strays' = strays \cup {checkpoint}
    BY <1>1
  <1>3. Genuine(checkpoint)
    BY <1>2, SignedFields DEF Genuine
  <1> HIDE DEF checkpoint
  <1>4. IsFiniteSet(strays) /\ Cardinality(strays) \in Nat
    BY FS_CardinalityType DEF SignerInv
  <1>5. /\ IsFiniteSet(strays')
        /\ Cardinality(strays') = IF checkpoint \in strays
              THEN Cardinality(strays) ELSE Cardinality(strays) + 1
    BY <1>2, <1>4, FS_AddElement
  <1>6. Cardinality(strays') <= MaxStrays
    BY <1>4, <1>5 DEF CommitLate, TrustAssumption
  <1>7. SignerInv'
    BY <1>2, <1>3, <1>5, <1>6 DEF CommitLate, SignerInv, Genuine
  <1>8. ShapeInv' /\ ApprovalInv'
    BY DEF CommitLate, ShapeInv, ApprovalInv, publisherVars, readerVars
  <1>9. DraftInv' /\ ReleasedInv' /\ TrustedInv' /\ ViewInv'
    BY DEF CommitLate, DraftInv, ReleasedInv, TrustedInv, ViewInv, Document,
       Made, Verified, publisherVars, readerVars
  <1> QED  BY <1>7, <1>8, <1>9

LEMMA AcceptDiscoveryStep ==
    ASSUME TrustAssumption, IInv, NEW reader \in Readers,
           NEW n \in DOMAIN released,
           NEW discovery \in DiscoveryCopies(released[n]),
           AcceptDiscovery(reader, discovery)
    PROVE  IInv'
  <1> USE DEF IInv
  <1>1. Document(discovery)
    BY CopyIsDocument DEF ReleasedInv
  <1>2. /\ Verified(discovery) /\ discovery.registry_id = Home
        /\ discovery # NoDiscovery
        /\ trusted' = [trusted EXCEPT ![reader] = discovery]
    BY VerifiedFacts DEF AcceptDiscovery
  <1>3. /\ trusted' = [r \in Readers |-> trusted'[r]]
        /\ \A r \in Readers :
              trusted'[r] = IF r = reader THEN discovery ELSE trusted[r]
    BY <1>2 DEF ShapeInv
  <1>4. Made' = Made
    BY DEF AcceptDiscovery, publisherVars, Made
  <1>5. TrustedInv'
    BY <1>1, <1>2, <1>3, <1>4 DEF TrustedInv, Document, Verified
  <1>6. ViewInv'
    BY <1>2, <1>3 DEF ViewInv, AcceptDiscovery
  <1>7. ShapeInv' /\ ApprovalInv' /\ SignerInv'
    BY <1>3 DEF AcceptDiscovery, ShapeInv, ApprovalInv, SignerInv,
       publisherVars, signerVars
  <1>8. DraftInv' /\ ReleasedInv'
    BY DEF AcceptDiscovery, DraftInv, ReleasedInv, Document, Made,
       publisherVars
  <1> QED  BY <1>5, <1>6, <1>7, <1>8

LEMMA AcceptCheckpointStep ==
    ASSUME TrustAssumption, IInv, NEW reader \in Readers, NEW checkpoint,
           AcceptCheckpoint(reader, checkpoint)
    PROVE  IInv'
  <1> USE DEF IInv
  <1>1. /\ view' = [r \in Readers |-> view'[r]]
        /\ \A r \in Readers : r # reader => view'[r] = view[r]
        /\ taken_at' \in [Readers -> Instants]
    BY DEF AcceptCheckpoint, ShapeInv
  <1>2. ViewInv'
    BY <1>1 DEF ViewInv, AcceptCheckpoint
  <1>3. ShapeInv' /\ ApprovalInv' /\ SignerInv'
    BY <1>1 DEF AcceptCheckpoint, ShapeInv, ApprovalInv, SignerInv,
       publisherVars, signerVars
  <1>4. DraftInv' /\ ReleasedInv' /\ TrustedInv'
    BY DEF AcceptCheckpoint, DraftInv, ReleasedInv, TrustedInv, Document,
       Made, Verified, publisherVars
  <1> QED  BY <1>2, <1>3, <1>4

LEMMA TickStep ==
    ASSUME TrustAssumption, IInv, Tick
    PROVE  IInv'
  <1> USE DEF IInv
  <1>1. ShapeInv' /\ ApprovalInv' /\ SignerInv' /\ ViewInv'
    BY DEF Tick, ShapeInv, ApprovalInv, SignerInv, ViewInv, Instants,
       TrustAssumption, publisherVars, signerVars, readerVars
  <1>2. DraftInv' /\ ReleasedInv' /\ TrustedInv'
    BY DEF Tick, DraftInv, ReleasedInv, TrustedInv, Document, Made, Verified,
       publisherVars, readerVars
  <1> QED  BY <1>1, <1>2

(* The steps, by kind. *)
LEMMA NextIInv ==
    ASSUME TrustAssumption, IInv, [Next]_vars
    PROVE  IInv'
  <1>1. CASE \E text \in Drafts : Compose(text)
    BY <1>1, ComposeStep
  <1>2. CASE \E root \in RootIds : Approve(root)
    BY <1>2, ApproveStep
  <1>3. CASE \E approval \in approvals : Attach(approval)
    BY <1>3, AttachStep
  <1>4. CASE Release
    BY <1>4, ReleaseStep
  <1>5. CASE \E root \in IndexRoots, expires \in Expiries, key \in KeyIds :
               Commit(root, expires, key) \/ CommitLate(root, expires, key)
    BY <1>5, CommitStep, CommitLateStep
  <1>6. CASE \E reader \in Readers, n \in DOMAIN released :
               \E discovery \in DiscoveryCopies(released[n]) :
                  AcceptDiscovery(reader, discovery)
    BY <1>6, AcceptDiscoveryStep
  <1>7. CASE \E reader \in Readers, checkpoint \in CheckpointsAround :
               AcceptCheckpoint(reader, checkpoint)
    BY <1>7, AcceptCheckpointStep
  <1>8. CASE Tick
    BY <1>8, TickStep
  <1>9. CASE UNCHANGED vars
    BY <1>9 DEF vars, publisherVars, signerVars, readerVars, IInv, ShapeInv,
       ApprovalInv, DraftInv, ReleasedInv, TrustedInv, SignerInv, ViewInv,
       Document, Made, Verified
  <1> QED
    BY <1>1, <1>2, <1>3, <1>4, <1>5, <1>6, <1>7, <1>8, <1>9 DEF Next

(* The invariant holds. *)
THEOREM Invariant == ASSUME TrustAssumption PROVE Spec => []IInv
  <1>1. Init => IInv
    BY InitIInv
  <1>2. IInv /\ [Next]_vars => IInv'
    BY NextIInv
  <1> QED  BY <1>1, <1>2, PTL DEF Spec

----------------------------------------------------------------------------
(* Types: every published version and sequence is its place in its chain,  *)
(* and no reader goes by a document with a root twice.                     *)
THEOREM TypesCorrect == ASSUME TrustAssumption PROVE Spec => []TypeOK
  <1>1. ASSUME IInv PROVE TypeOK
    <2>1. ASSUME NEW reader \in Readers, trusted[reader] # NoDiscovery
          PROVE  /\ trusted[reader].signing_keys \in Seq(SigningKey)
                 /\ DistinctKeys(trusted[reader].root_signatures)
      BY <1>1, <2>1, VerifiedFacts DEF IInv, TrustedInv, Document
    <2> QED
      BY <1>1, <2>1 DEF IInv, ShapeInv, ReleasedInv, SignerInv, ViewInv,
         TypeOK
  <1> QED  BY <1>1, Invariant, PTL

(* The document a reader goes by says what a threshold of different roots  *)
(* saw and signed.  The good signatures are at different positions; since  *)
(* validate wants different key identifiers, they are of different roots;  *)
(* each exists, and its bytes tell what its root was shown.                *)
THEOREM ThresholdOfRoots ==
    ASSUME TrustAssumption PROVE Spec => []ThresholdHolds
  <1>1. ASSUME IInv, NEW reader \in Readers, trusted[reader] # NoDiscovery
        PROVE  LET signers == {approval \in approvals :
                          approval.meaning = Meaning(trusted[reader])}
               IN  Threshold
                     <= Cardinality({approval.key_id : approval \in signers})
    <2> DEFINE d == trusted[reader]
               signatures == d.root_signatures
               Good == {i \in DOMAIN signatures :
                          signatures[i].covers = SigningPayload(d)}
               signers == {approval \in approvals :
                             approval.meaning = Meaning(d)}
               Roots == {approval.key_id : approval \in signers}
               f == [i \in Good |-> signatures[i].key_id]
    <2>1. Document(d) /\ Verified(d)
      BY <1>1 DEF IInv, TrustedInv
    <2>2. /\ ValidPayload(d) /\ DistinctKeys(signatures)
          /\ Threshold <= Cardinality(Good)
      BY <2>1, VerifiedFacts DEF Verified
    <2>3. ASSUME NEW i \in Good PROVE f[i] \in Roots
      <3>1. signatures[i] \in Made
        BY <2>1 DEF Document
      <3>2. PICK approval \in approvals :
               signatures[i] = [key_id |-> approval.key_id,
                                covers |-> approval.covers]
        BY <3>1 DEF Made
      <3>3. approval.covers = SigningPayload(d)
        BY <3>2
      <3>4. approval.meaning
               = [SigningPayload(d) EXCEPT !.root_signatures = <<>>]
        BY <1>1, <3>3 DEF IInv, ApprovalInv
      <3>5. approval \in signers
        BY <2>2, <3>4, PayloadTellsMeaning
      <3> QED  BY <3>2, <3>5
    <2>4. \A i, j \in Good : f[i] = f[j] => i = j
      BY <2>2 DEF DistinctKeys
    <2>5. f \in Injection(Good, Roots)
      BY <2>3, <2>4, Fun_IsInj
    <2>6. IsFiniteSet(signers)
      BY <1>1, FS_Subset DEF IInv, ApprovalInv
    <2>7. IsFiniteSet(Roots)
      <3> DEFINE g == [approval \in signers |-> approval.key_id]
      <3>1. g \in Surjection(signers, Roots)
        BY Fun_IsSurj
      <3> QED  BY <2>6, <3>1, FS_Surjection
    <2>8. Cardinality(Good) <= Cardinality(Roots) /\ IsFiniteSet(Good)
      BY <2>5, <2>7, FS_Injection
    <2>9. Cardinality(Good) \in Nat /\ Cardinality(Roots) \in Nat
      BY <2>7, <2>8, FS_CardinalityType
    <2> HIDE DEF Good, Roots
    <2> QED  BY <2>2, <2>8, <2>9 DEF TrustAssumption, Roots
  <1>2. IInv => ThresholdHolds
    BY <1>1 DEF ThresholdHolds
  <1> QED  BY <1>2, Invariant, PTL

(* A reader takes up nothing signed with a key that it knows to be         *)
(* retired: its document lists each key once, and wants an active one.     *)
THEOREM RetiredKeys == ASSUME TrustAssumption PROVE Spec => RetiredKeysAreDead
  <1> DEFINE Dead == \A reader \in Readers : view'[reader] # view[reader] =>
                ~Retires(trusted[reader], view'[reader].signing_key_id)
  <1>1. ASSUME IInv, NEW reader \in Readers, NEW checkpoint,
               AcceptCheckpoint(reader, checkpoint)
        PROVE  Dead
    <2>1. PICK i \in DOMAIN trusted[reader].signing_keys :
             /\ trusted[reader].signing_keys[i].state = "active"
             /\ trusted[reader].signing_keys[i].key_id
                   = checkpoint.signing_key_id
      BY <1>1 DEF AcceptCheckpoint, Authorizes
    <2>2. DistinctKeys(trusted[reader].signing_keys)
      BY <1>1, VerifiedFacts DEF IInv, TrustedInv, AcceptCheckpoint
    <2>3. ~Retires(trusted[reader], checkpoint.signing_key_id)
      <3> SUFFICES ASSUME NEW j \in DOMAIN trusted[reader].signing_keys,
                          trusted[reader].signing_keys[j] =
                             [key_id |-> checkpoint.signing_key_id,
                              state |-> "retired"]
                   PROVE  FALSE
        BY DEF Retires, ToSet
      <3>1. i = j
        BY <2>1, <2>2 DEF DistinctKeys
      <3> QED  BY <2>1, <3>1
    <2>4. /\ view'[reader] = checkpoint
          /\ \A r \in Readers : r # reader => view'[r] = view[r]
      BY <1>1 DEF AcceptCheckpoint, IInv, ShapeInv
    <2> QED  BY <2>3, <2>4
  <1>2. ASSUME IInv, [Next]_vars PROVE Dead \/ UNCHANGED vars
    <2>1. CASE UNCHANGED view
      BY <2>1
    <2>2. CASE \E reader \in Readers, checkpoint \in CheckpointsAround :
                 AcceptCheckpoint(reader, checkpoint)
      BY <1>1, <1>2, <2>2
    <2> QED
      BY <1>2, <2>1, <2>2 DEF Next, vars, readerVars, Compose, Approve,
         Attach, Release, Commit, CommitLate, AcceptDiscovery, Tick
  <1>3. IInv /\ [Next]_vars => [Dead]_vars
    BY <1>2
  <1> QED  BY <1>3, Invariant, PTL DEF Spec, RetiredKeysAreDead

----------------------------------------------------------------------------
(* With no lagging signer, the registry keeps the promise of               *)
(* RegistryHistory: a reader can only take up what the publisher committed.*)

Roots == [n \in DOMAIN history |-> history[n].index_root_sha256]
Place == [reader \in Readers |->
             [sequence |-> view[reader].sequence,
              index_root |-> view[reader].index_root_sha256]]

(* What a reader takes up is the checkpoint of the history with its        *)
(* sequence: a copy of the neighbour's would have to be relabelled, and    *)
(* the signature covers the registry.                                      *)
LEMMA TakenFromHistory ==
    ASSUME TrustAssumption, MaxStrays = 0, IInv,
           NEW reader \in Readers, NEW checkpoint \in CheckpointsAround,
           AcceptCheckpoint(reader, checkpoint)
    PROVE  /\ checkpoint.sequence \in DOMAIN history
           /\ checkpoint.index_root_sha256
                 = history[checkpoint.sequence].index_root_sha256
  <1>1. strays = {}
    <2>1. IsFiniteSet(strays) /\ Cardinality(strays) <= 0
      BY DEF IInv, SignerInv
    <2>2. Cardinality(strays) = 0
      BY <2>1, FS_CardinalityType
    <2> QED  BY <2>1, <2>2, FS_EmptySet
  <1>2. /\ ValidCheckpoint(checkpoint) /\ GoodSignature(checkpoint)
        /\ checkpoint.registry_id = Home
    BY DEF AcceptCheckpoint, Authorizes, IInv, TrustedInv
  <1>3. PICK original \in ToSet(history) \cup Neighbours :
           checkpoint \in CheckpointCopies(original)
    BY <1>1 DEF CheckpointsAround
  <1>4. CASE original \in Neighbours
    <2>1. PICK root \in IndexRoots, key \in KeyIds :
             original = Signed(Elsewhere, 1, NoDigest, root, 0, MaxTime + 1,
                               key)
      BY <1>4 DEF Neighbours
    <2>2. /\ "signature" \in DOMAIN original
          /\ original.signature.covers = CheckpointPayload(original)
          /\ original.registry_id = Elsewhere
      BY <2>1, SignedFields
    <2>3. ValidCheckpoint(original)
      BY <2>1 DEF Signed, ValidCheckpoint, CheckpointFields, TrustAssumption
    <2>4. checkpoint.registry_id = Elsewhere
      BY <1>2, <1>3, <2>2, <2>3, GoodCopy DEF Genuine
    <2> QED  BY <1>2, <2>4 DEF TrustAssumption
  <1>5. CASE original \in ToSet(history)
    <2>1. PICK n \in DOMAIN history : original = history[n]
      BY <1>5 DEF ToSet
    <2>2. Genuine(original) /\ original.sequence = n
      BY <2>1 DEF IInv, SignerInv
    <2>3. /\ checkpoint.sequence = n
          /\ checkpoint.index_root_sha256 = original.index_root_sha256
      BY <1>2, <1>3, <2>2, GoodCopy
    <2> QED  BY <2>1, <2>3
  <1> QED  BY <1>3, <1>4, <1>5

(* Readers' sequences are numbers. *)
PlaceInv == \A reader \in Readers : view[reader].sequence \in Nat

LEMMA AcceptAdvances ==
    ASSUME TrustAssumption, MaxStrays = 0, IInv, PlaceInv,
           NEW reader \in Readers, NEW checkpoint \in CheckpointsAround,
           AcceptCheckpoint(reader, checkpoint)
    PROVE  PlaceInv' /\ History!Advance(reader)
  <1> DEFINE n == checkpoint.sequence
  <1>1. /\ n \in DOMAIN history
        /\ checkpoint.index_root_sha256 = history[n].index_root_sha256
    BY TakenFromHistory
  <1>2. DOMAIN history = 1..Len(history) /\ Len(history) \in Nat
    BY Appended DEF IInv, ShapeInv
  <1>3. Len(Roots) = Len(history) /\ Roots[n] = history[n].index_root_sha256
    BY <1>1, <1>2 DEF Roots
  <1>4. /\ n > view[reader].sequence
        /\ view'[reader] = checkpoint
        /\ \A r \in Readers : r # reader => view'[r] = view[r]
        /\ history' = history
    BY DEF AcceptCheckpoint, Advances, IInv, ShapeInv, signerVars
  <1>5. PlaceInv'
    BY <1>1, <1>2, <1>4 DEF PlaceInv
  <1>6. n \in Place[reader].sequence + 1 .. Len(Roots)
    BY <1>1, <1>2, <1>3, <1>4 DEF Place, PlaceInv
  <1>7. Place' = [Place EXCEPT ![reader] =
                    [sequence |-> n, index_root |-> Roots[n]]]
    BY <1>1, <1>3, <1>4 DEF Place
  <1>8. Roots' = Roots
    BY <1>4 DEF Roots
  <1> QED
    BY <1>5, <1>6, <1>7, <1>8 DEF History!Advance, History!At, Roots, Place

LEMMA CommitCommits ==
    ASSUME TrustAssumption, IInv,
           NEW root \in IndexRoots, NEW expires \in Expiries,
           NEW key \in KeyIds, Commit(root, expires, key)
    PROVE  History!Commit(root)
  <1>1. /\ Len(history) \in Nat
        /\ DOMAIN history = 1..Len(history)
        /\ DOMAIN history' = 1..(Len(history) + 1)
        /\ \A n \in 1..Len(history) : history'[n] = history[n]
        /\ history'[Len(history) + 1].index_root_sha256 = root
    BY CommitStep, Appended DEF IInv, ShapeInv
  <1> DEFINE Committed == {history[n].index_root_sha256 : n \in DOMAIN history}
                       \cup {root}
  <1>2. Roots \in Seq(Committed) /\ Len(Roots) = Len(history)
    BY <1>1 DEF Roots
  <1>3. Roots' = [n \in 1..(Len(history) + 1) |->
                     IF n = Len(history) + 1 THEN root ELSE Roots[n]]
    BY <1>1 DEF Roots
  <1>4. Roots' \in Seq(Committed) /\ Len(Roots') = Len(Roots) + 1
    BY <1>1, <1>2, <1>3
  <1> HIDE DEF Committed
  <1>5. root \in Committed
    BY DEF Committed
  <1>6. /\ Append(Roots, root) \in Seq(Committed)
        /\ Len(Append(Roots, root)) = Len(Roots) + 1
        /\ \A n \in 1..(Len(history) + 1) :
              Append(Roots, root)[n] = Roots'[n]
    BY <1>1, <1>2, <1>3, <1>5
  <1>7. Roots' = Append(Roots, root)
    BY <1>1, <1>2, <1>4, <1>6, SeqEqual
  <1>8. Place' = Place
    BY DEF Commit, Place, readerVars
  <1> QED  BY <1>7, <1>8 DEF History!Commit, Roots, Place

(* The refinement. *)
THEOREM KeepsThePromise ==
    ASSUME TrustAssumption, MaxStrays = 0
    PROVE  Spec => ImplementsRegistryHistory
  <1>1. Init => PlaceInv /\ History!Init
    BY DEF Init, PlaceInv, NoCheckpoint, History!Init, History!Nowhere
  <1>2. ASSUME IInv, PlaceInv, [Next]_vars
        PROVE  PlaceInv' /\ [History!Next]_<<Roots, Place>>
    <2>1. CASE UNCHANGED <<history, view>>
      BY <1>2, <2>1 DEF PlaceInv, Roots, Place
    <2>2. CASE \E root \in IndexRoots, expires \in Expiries, key \in KeyIds :
                 Commit(root, expires, key)
      <3>1. PICK root \in IndexRoots : History!Commit(root)
        BY <1>2, <2>2, CommitCommits
      <3>2. UNCHANGED view
        BY <2>2 DEF Commit, readerVars
      <3> QED  BY <1>2, <3>1, <3>2 DEF PlaceInv, History!Next
    <2>3. CASE \E reader \in Readers, checkpoint \in CheckpointsAround :
                 AcceptCheckpoint(reader, checkpoint)
      BY <1>2, <2>3, AcceptAdvances DEF History!Next
    <2> QED
      BY <1>2, <2>1, <2>2, <2>3 DEF Next, vars, signerVars, readerVars,
         Compose, Approve, Attach, Release, CommitLate, AcceptDiscovery, Tick
  <1> QED
    BY <1>1, <1>2, Invariant, PTL
    DEF Spec, ImplementsRegistryHistory, History!Spec, Roots, Place

----------------------------------------------------------------------------
(* Where documents come from.  A document is a record of these fields.     *)
DiscoveryFields ==
    {"version", "generated_at", "expires_at", "previous_discovery_sha256",
     "registry_id", "sound", "signing_keys", "root_signatures"}
PlainFields == DiscoveryFields \ {"signing_keys", "root_signatures"}

Whole(d) == d = [field \in DiscoveryFields |-> d[field]]

(* Two documents that say the same, and two that also have the same        *)
(* signatures.                                                             *)
Alike(d, e) ==
    /\ \A field \in PlainFields : d[field] = e[field]
    /\ ToSet(d.signing_keys) = ToSet(e.signing_keys)
    /\ DistinctKeys(d.signing_keys) <=> DistinctKeys(e.signing_keys)

SameSigned(d, e) ==
    /\ Alike(d, e)
    /\ ToSet(d.root_signatures) = ToSet(e.root_signatures)

Good(d) == {i \in DOMAIN d.root_signatures :
               d.root_signatures[i].covers = SigningPayload(d)}

(* What an approval covers is made of what its root was shown.             *)
KnownApprovals ==
    \A approval \in approvals :
       /\ approval.key_id \in RootIds
       /\ approval.covers = [approval.meaning EXCEPT !.root_signatures = {}]

Predecessor(n) ==
    IF n = 0 THEN NoDigest ELSE DiscoveryBytes(released[n])

ChainedDraft ==
    draft # NoDiscovery =>
       /\ Whole(draft)
       /\ draft.previous_discovery_sha256 = Predecessor(Len(released))

ChainedReleases ==
    \A n \in DOMAIN released :
       /\ Whole(released[n])
       /\ Verified(released[n])
       /\ released[n].previous_discovery_sha256 = Predecessor(n - 1)

(* A reader goes by a copy of some released document. *)
CopiesTrusted ==
    \A reader \in Readers : trusted[reader] # NoDiscovery =>
       \E n \in DOMAIN released :
          trusted[reader] \in DiscoveryCopies(released[n])

OriginInv ==
    KnownApprovals /\ ChainedDraft /\ ChainedReleases /\ CopiesTrusted

----------------------------------------------------------------------------
(* Sequences the other way round. *)
LEMMA Reversed ==
    ASSUME NEW S, NEW s \in Seq(S)
    PROVE  /\ Reverse(s) \in Seq(S)
           /\ Len(Reverse(s)) = Len(s)
           /\ DOMAIN s = 1..Len(s) /\ Len(s) \in Nat
           /\ DOMAIN Reverse(s) = 1..Len(s)
           /\ \A i \in 1..Len(s) : /\ Len(s) - i + 1 \in 1..Len(s)
                                   /\ Reverse(s)[i] = s[Len(s) - i + 1]
                                   /\ Reverse(s)[Len(s) - i + 1] = s[i]
           /\ ToSet(Reverse(s)) = ToSet(s)
  <1>1. DOMAIN s = 1..Len(s) /\ Len(s) \in Nat
    OBVIOUS
  <1>2. /\ Reverse(s) \in Seq(S)
        /\ Len(Reverse(s)) = Len(s)
        /\ DOMAIN Reverse(s) = 1..Len(s)
        /\ \A i \in 1..Len(s) : Reverse(s)[i] = s[Len(s) - i + 1]
    BY DEF Reverse
  <1>3. \A i \in 1..Len(s) : /\ Len(s) - i + 1 \in 1..Len(s)
                             /\ Len(s) - (Len(s) - i + 1) + 1 = i
    BY <1>1
  <1>4. \A i \in 1..Len(s) : Reverse(s)[Len(s) - i + 1] = s[i]
    BY <1>2, <1>3
  <1>5. ToSet(Reverse(s)) = ToSet(s)
    <2> DEFINE n == Len(s)
               t == Reverse(s)
    <2>1. ToSet(t) = {t[i] : i \in 1..n} /\ ToSet(s) = {s[i] : i \in 1..n}
      BY <1>1, <1>2 DEF ToSet
    <2>2. \A i \in 1..n : \E j \in 1..n : t[i] = s[j]
      BY <1>2, <1>3
    <2>3. \A i \in 1..n : \E j \in 1..n : s[i] = t[j]
      BY <1>3, <1>4
    <2> HIDE DEF n, t
    <2> QED  BY <2>1, <2>2, <2>3 DEF t
  <1> QED  BY <1>1, <1>2, <1>3, <1>4, <1>5

LEMMA ReversedKeys ==
    ASSUME NEW S, NEW s \in Seq(S)
    PROVE  DistinctKeys(s) <=> DistinctKeys(Reverse(s))
  <1> DEFINE n == Len(s)
             t == Reverse(s)
  <1>1. /\ n \in Nat /\ DOMAIN s = 1..n /\ DOMAIN t = 1..n
        /\ \A i \in 1..n : /\ n - i + 1 \in 1..n
                           /\ t[i] = s[n - i + 1] /\ t[n - i + 1] = s[i]
    BY Reversed
  <1> HIDE DEF n, t
  <1>2. \A i, j \in 1..n : n - i + 1 = n - j + 1 => i = j
    BY <1>1
  <1>3. ASSUME DistinctKeys(s) PROVE DistinctKeys(t)
    BY <1>1, <1>2, <1>3 DEF DistinctKeys
  <1>4. ASSUME DistinctKeys(t) PROVE DistinctKeys(s)
    BY <1>1, <1>2, <1>4 DEF DistinctKeys
  <1> QED  BY <1>3, <1>4 DEF t

LEMMA RemovedLength ==
    ASSUME NEW S, NEW s \in Seq(S), NEW i \in 1..Len(s)
    PROVE  Len(RemoveAt(s, i)) = Len(s) - 1
  <1> DEFINE n == Len(s)
             front == SubSeq(s, 1, i - 1)
             back == SubSeq(s, i + 1, n)
  <1>1. n \in Nat /\ i \in Int /\ 1 <= i /\ i <= n
    OBVIOUS
  <1>2. \A j \in 1..n : s[j] \in S
    OBVIOUS
  <1> HIDE DEF n
  <1>3. front \in Seq(S) /\ Len(front) = i - 1
    <2>1. \A j \in 1 .. i - 1 : s[j] \in S
      BY <1>1, <1>2
    <2>2. /\ front \in Seq(S)
          /\ Len(front) = IF 1 <= i - 1 THEN i - 1 - 1 + 1 ELSE 0
      BY <1>1, <2>1, SubSeqProperties
    <2> HIDE DEF front
    <2> QED  BY <1>1, <2>2
  <1>4. back \in Seq(S) /\ Len(back) = n - i
    <2>1. \A j \in i + 1 .. n : s[j] \in S
      BY <1>1, <1>2
    <2>2. /\ back \in Seq(S)
          /\ Len(back) = IF i + 1 <= n THEN n - (i + 1) + 1 ELSE 0
      BY <1>1, <2>1, SubSeqProperties
    <2> HIDE DEF back
    <2> QED  BY <1>1, <2>2
  <1>5. RemoveAt(s, i) = front \o back
    BY DEF RemoveAt, n
  <1> HIDE DEF front, back
  <1>6. Len(front \o back) = Len(front) + Len(back)
    BY <1>3, <1>4, ConcatProperties
  <1> QED  BY <1>1, <1>3, <1>4, <1>5, <1>6 DEF n

(* As many signatures cover something, whatever their order. *)
Covering(s, bytes) == {i \in DOMAIN s : s[i].covers = bytes}

LEMMA ReversedCount ==
    ASSUME NEW S, NEW s \in Seq(S), NEW c
    PROVE  Cardinality(Covering(s, c)) = Cardinality(Covering(Reverse(s), c))
  <1> DEFINE n == Len(s)
             t == Reverse(s)
             A == {i \in DOMAIN s : s[i].covers = c}
             B == {i \in DOMAIN t : t[i].covers = c}
             f == [i \in A |-> n - i + 1]
  <1>1. /\ n \in Nat /\ DOMAIN s = 1..n /\ DOMAIN t = 1..n
        /\ \A i \in 1..n : /\ n - i + 1 \in 1..n
                           /\ t[i] = s[n - i + 1] /\ t[n - i + 1] = s[i]
    BY Reversed
  <1> HIDE DEF n, t
  <1>2. \A i \in 1..n : \A j \in 1..n :
           /\ n - i + 1 = n - j + 1 => i = j
           /\ n - (n - i + 1) + 1 = i
    BY <1>1
  <1>3. \A i \in A : n - i + 1 \in B
    BY <1>1
  <1>4. \A j \in B : n - j + 1 \in A /\ n - (n - j + 1) + 1 = j
    BY <1>1, <1>2
  <1>5. \A i, j \in A : n - i + 1 = n - j + 1 => i = j
    BY <1>1, <1>2
  <1>6. A \subseteq 1..n
    BY <1>1
  <1> HIDE DEF A, B
  <1>7. f \in Bijection(A, B)
    BY <1>3, <1>4, <1>5, Fun_IsBij
  <1>8. ExistsBijection(A, B)
    BY <1>7 DEF ExistsBijection
  <1>9. IsFiniteSet(1..n)
    BY <1>1, FS_Interval
  <1>10. IsFiniteSet(A)
    BY <1>6, <1>9, FS_Subset
  <1> QED  BY <1>8, <1>10, FS_Bijection DEF A, B, t, Covering

----------------------------------------------------------------------------
(* Documents that say the same. *)
LEMMA SamePayload ==
    ASSUME NEW d, NEW e, Whole(d), Whole(e), Alike(d, e)
    PROVE  /\ ValidPayload(d) <=> ValidPayload(e)
           /\ SigningPayload(d) = SigningPayload(e)
           /\ Meaning(d) = Meaning(e)
  <1>1. \A x : /\ Whole(x) => x = [field \in DiscoveryFields |-> x[field]]
               /\ Normalized([x EXCEPT !.root_signatures = <<>>])
                     = [[x EXCEPT !.root_signatures = <<>>] EXCEPT
                          !.signing_keys = ToSet(@),
                          !.root_signatures = ToSet(@)]
    BY DEF Whole, Normalized
  <1>2. /\ \A field \in PlainFields : d[field] = e[field]
        /\ ToSet(d.signing_keys) = ToSet(e.signing_keys)
    BY DEF Alike
  <1>3. Meaning(d) = Meaning(e)
    BY <1>2 DEF Meaning, Whole, PlainFields
  <1>4. Normalized([d EXCEPT !.root_signatures = <<>>])
           = Normalized([e EXCEPT !.root_signatures = <<>>])
    BY <1>2 DEF Normalized, Whole, PlainFields
  <1>5. (\E i \in DOMAIN d.signing_keys : d.signing_keys[i].state = "active")
           <=> \E i \in DOMAIN e.signing_keys :
                  e.signing_keys[i].state = "active"
    BY <1>2 DEF ToSet
  <1>6. ValidPayload(d) <=> ValidPayload(e)
    BY <1>2, <1>5 DEF ValidPayload, PlainFields, DiscoveryFields, Alike
  <1> QED  BY <1>3, <1>4, <1>6 DEF SigningPayload

LEMMA SameBytes ==
    ASSUME NEW d, NEW e, Whole(d), Whole(e), SameSigned(d, e)
    PROVE  Normalized(d) = Normalized(e)
  <1>1. /\ \A field \in PlainFields : d[field] = e[field]
        /\ ToSet(d.signing_keys) = ToSet(e.signing_keys)
        /\ ToSet(d.root_signatures) = ToSet(e.root_signatures)
    BY DEF SameSigned, Alike
  <1> QED  BY <1>1 DEF Normalized, Whole, PlainFields

(* The bytes that are signed tell what is said. *)
LEMMA PayloadTellsAll ==
    ASSUME NEW d, NEW e, Whole(d), Whole(e), ValidPayload(d), ValidPayload(e),
           SigningPayload(d) = SigningPayload(e)
    PROVE  Alike(d, e)
  <1>1. \A x : ValidPayload(x) /\ Whole(x) =>
           /\ \A field \in PlainFields : SigningPayload(x)[field] = x[field]
           /\ SigningPayload(x).signing_keys = ToSet(x.signing_keys)
    BY DEF SigningPayload, Normalized, Whole, PlainFields, DiscoveryFields
  <1>2. DistinctKeys(d.signing_keys) /\ DistinctKeys(e.signing_keys)
    BY DEF ValidPayload
  <1> QED  BY <1>1, <1>2 DEF Alike

LEMMA PayloadOfMeaning ==
    ASSUME NEW d, Whole(d), ValidPayload(d)
    PROVE  SigningPayload(d) = [Meaning(d) EXCEPT !.root_signatures = {}]
  <1>1. ToSet(<<>>) = {}
    BY DEF ToSet
  <1> QED
    BY <1>1 DEF SigningPayload, Normalized, Meaning, Whole, DiscoveryFields

(* What a copy can differ in. *)
LEMMA KindsOfCopies ==
    ASSUME NEW d, Whole(d), Document(d), NEW copy \in DiscoveryCopies(d),
           TrustAssumption
    PROVE  /\ Whole(copy)
           /\ \/ copy \in Reordered(d)
              \/ Alike(copy, d) /\ Len(copy.root_signatures)
                                     = Len(d.root_signatures) - 1
              \/ Alike(copy, d) /\ ~DistinctKeys(copy.root_signatures)
              \/ copy.root_signatures = d.root_signatures
  <1> DEFINE signatures == d.root_signatures
  <1>1. signatures \in Seq(Made) /\ d.signing_keys \in Seq(SigningKey)
    BY DEF Document
  <1>2. CASE copy \in Reordered(d)
    BY <1>2 DEF Reordered, Whole
  <1>3. CASE \E i \in DOMAIN signatures :
               copy = [d EXCEPT !.root_signatures = RemoveAt(@, i)]
    <2>1. PICK i \in DOMAIN signatures :
             copy = [d EXCEPT !.root_signatures = RemoveAt(signatures, i)]
      BY <1>3
    <2>2. /\ Whole(copy) /\ copy.root_signatures = RemoveAt(signatures, i)
          /\ Alike(copy, d)
      BY <2>1 DEF Whole, Alike, PlainFields, DiscoveryFields
    <2>3. i \in 1..Len(signatures) /\ Len(signatures) \in Nat
      BY <1>1
    <2>4. Len(RemoveAt(signatures, i)) = Len(signatures) - 1
      BY <1>1, <2>3, RemovedLength
    <2> QED  BY <2>2, <2>4
  <1>4. CASE \E i \in DOMAIN signatures :
               copy = [d EXCEPT !.root_signatures = Append(@, signatures[i])]
    <2>1. PICK i \in DOMAIN signatures :
             copy = [d EXCEPT !.root_signatures =
                        Append(signatures, signatures[i])]
      BY <1>4
    <2> DEFINE t == Append(signatures, signatures[i])
               n == Len(signatures)
    <2>2. Whole(copy) /\ copy.root_signatures = t /\ Alike(copy, d)
      BY <2>1 DEF Whole, Alike, PlainFields, DiscoveryFields
    <2>3. /\ i \in 1..n /\ n \in Nat /\ n + 1 \in DOMAIN t /\ i \in DOMAIN t
          /\ t[n + 1] = signatures[i] /\ t[i] = signatures[i] /\ i # n + 1
      <3>1. n \in Nat /\ i \in 1..n /\ signatures[i] \in Made
        BY <1>1
      <3>2. /\ t \in Seq(Made) /\ Len(t) = n + 1 /\ t[n + 1] = signatures[i]
            /\ \A j \in 1..n : t[j] = signatures[j]
        BY <1>1, <3>1, AppendProperties
      <3> HIDE DEF t, n, signatures
      <3>3. DOMAIN t = 1..(n + 1) /\ n + 1 \in 1..(n + 1) /\ i \in 1..(n + 1)
        BY <3>1, <3>2
      <3> QED
        BY <3>1, <3>2, <3>3
    <2> HIDE DEF t, n
    <2>4. ~DistinctKeys(t)
      BY <2>3 DEF DistinctKeys
    <2> QED  BY <2>2, <2>4
  <1>5. CASE \/ \E other \in Drafts :
                  copy = [d EXCEPT !.signing_keys = other.signing_keys]
             \/ \E time \in Instants : copy = [d EXCEPT !.expires_at = time]
             \/ \E n \in 1..MaxVersion : copy = [d EXCEPT !.version = n]
    BY <1>5 DEF Whole, DiscoveryFields
  <1> QED  BY <1>2, <1>3, <1>4, <1>5 DEF DiscoveryCopies

(* A document and its reordered copies have the same bytes and verify      *)
(* alike.                                                                  *)
LEMMA ReorderedAlike ==
    ASSUME NEW d, Whole(d), Document(d), NEW copy \in Reordered(d)
    PROVE  /\ Whole(copy) /\ SameSigned(copy, d)
           /\ Cardinality(Good(copy)) = Cardinality(Good(d))
           /\ Verified(d) => Verified(copy)
           /\ ValidDiscovery(d) => ValidDiscovery(copy)
  <1> DEFINE keys == d.signing_keys
             signatures == d.root_signatures
  <1>1. keys \in Seq(SigningKey) /\ signatures \in Seq(Made)
    BY DEF Document
  <1>2. /\ copy.signing_keys \in {keys, Reverse(keys)}
        /\ copy.root_signatures \in {signatures, Reverse(signatures)}
        /\ \A field \in PlainFields : copy[field] = d[field]
        /\ Whole(copy)
    BY DEF Reordered, Whole, PlainFields, DiscoveryFields
  <1>3. /\ ToSet(copy.signing_keys) = ToSet(keys)
        /\ DistinctKeys(copy.signing_keys) <=> DistinctKeys(keys)
        /\ ToSet(copy.root_signatures) = ToSet(signatures)
        /\ DistinctKeys(copy.root_signatures) <=> DistinctKeys(signatures)
    BY <1>1, <1>2, Reversed, ReversedKeys
  <1>4. SameSigned(copy, d)
    BY <1>2, <1>3 DEF SameSigned, Alike
  <1>5. /\ SigningPayload(copy) = SigningPayload(d)
        /\ ValidPayload(d) <=> ValidPayload(copy)
    BY <1>2, <1>4, SamePayload DEF SameSigned
  <1>6. \A bytes : Cardinality(Covering(signatures, bytes))
                      = Cardinality(Covering(Reverse(signatures), bytes))
    BY <1>1, ReversedCount
  <1>7. Cardinality(Good(copy)) = Cardinality(Good(d))
    BY <1>2, <1>5, <1>6 DEF Good, Covering
  <1>8. copy.root_signatures = <<>> => signatures = <<>>
    BY <1>1, <1>2, Reversed
  <1>9. ValidDiscovery(d) => ValidDiscovery(copy)
    BY <1>3, <1>5, <1>8 DEF ValidDiscovery
  <1>10. Verified(d) => Verified(copy)
    BY <1>7, <1>9 DEF Verified, Good
  <1> QED  BY <1>2, <1>4, <1>7, <1>9, <1>10

----------------------------------------------------------------------------
(* Origins are kept. *)
LEMMA InitOrigin ==
    ASSUME Init
    PROVE  OriginInv
  BY DEF Init, OriginInv, KnownApprovals, ChainedDraft, ChainedReleases,
     CopiesTrusted

(* What is released stays as it is, and more may follow. *)
LEMMA OriginStays ==
    ASSUME OriginInv, UNCHANGED <<approvals, draft, released, trusted>>
    PROVE  OriginInv'
  BY DEF OriginInv, KnownApprovals, ChainedDraft, ChainedReleases,
     CopiesTrusted, Predecessor

LEMMA ComposeOrigin ==
    ASSUME TrustAssumption, IInv, OriginInv,
           NEW text \in Drafts, Compose(text)
    PROVE  OriginInv'
  <1> USE DEF OriginInv
  <1>1. /\ released \in Seq(ToSet(released))
        /\ DOMAIN released = 1..Len(released) /\ Len(released) \in Nat
    BY Appended DEF IInv, ShapeInv
  <1>2. released # <<>> => Last(released) = released[Len(released)]
    BY DEF Last
  <1>3. released = <<>> <=> Len(released) = 0
    BY <1>1
  <1>4. Whole(draft')
    BY DEF Compose, Whole, DiscoveryFields
  <1>5. draft'.previous_discovery_sha256 = Predecessor(Len(released))
    BY <1>2, <1>3 DEF Compose, Predecessor
  <1>6. ChainedDraft'
    BY <1>4, <1>5 DEF Compose, ChainedDraft, Predecessor
  <1>7. KnownApprovals' /\ ChainedReleases' /\ CopiesTrusted'
    BY DEF Compose, KnownApprovals, ChainedReleases, CopiesTrusted,
       Predecessor, readerVars
  <1> QED  BY <1>6, <1>7

LEMMA ApproveOrigin ==
    ASSUME TrustAssumption, IInv, OriginInv,
           NEW root \in RootIds, Approve(root)
    PROVE  OriginInv'
  <1> USE DEF OriginInv
  <1> DEFINE new == [key_id |-> root, covers |-> SigningPayload(draft),
                     meaning |-> Meaning(draft)]
  <1>1. /\ approvals' = approvals \cup {new}
        /\ draft # NoDiscovery /\ ValidPayload(draft)
    BY DEF Approve, SigningPayload
  <1>2. Whole(draft)
    BY <1>1 DEF ChainedDraft
  <1>3. SigningPayload(draft)
           = [Meaning(draft) EXCEPT !.root_signatures = {}]
    BY <1>1, <1>2, PayloadOfMeaning
  <1>4. /\ new.key_id \in RootIds
        /\ new.covers = [new.meaning EXCEPT !.root_signatures = {}]
    BY <1>3
  <1> HIDE DEF new
  <1>5. KnownApprovals'
    BY <1>1, <1>4 DEF KnownApprovals
  <1>6. ChainedDraft' /\ ChainedReleases' /\ CopiesTrusted'
    BY DEF Approve, ChainedDraft, ChainedReleases, CopiesTrusted,
       Predecessor, readerVars
  <1> QED  BY <1>5, <1>6

LEMMA AttachOrigin ==
    ASSUME TrustAssumption, IInv, OriginInv,
           NEW approval \in approvals, Attach(approval)
    PROVE  OriginInv'
  <1> USE DEF OriginInv
  <1> DEFINE more == Append(draft.root_signatures,
                [key_id |-> approval.key_id, covers |-> approval.covers])
  <1>1. /\ draft # NoDiscovery
        /\ draft' = [draft EXCEPT !.root_signatures = more]
    BY DEF Attach
  <1>2. /\ Whole(draft)
        /\ draft.previous_discovery_sha256 = Predecessor(Len(released))
    BY <1>1 DEF ChainedDraft
  <1> HIDE DEF more
  <1>3. /\ Whole(draft')
        /\ draft'.previous_discovery_sha256 = draft.previous_discovery_sha256
    BY <1>1, <1>2 DEF Whole, DiscoveryFields
  <1>4. ChainedDraft'
    BY <1>2, <1>3 DEF Attach, ChainedDraft, Predecessor
  <1>5. KnownApprovals' /\ ChainedReleases' /\ CopiesTrusted'
    BY DEF Attach, KnownApprovals, ChainedReleases, CopiesTrusted,
       Predecessor, readerVars
  <1> QED  BY <1>4, <1>5

LEMMA ReleaseOrigin ==
    ASSUME TrustAssumption, IInv, OriginInv, Release
    PROVE  OriginInv'
  <1> USE DEF OriginInv
  <1> DEFINE n == Len(released)
  <1>1. /\ n \in Nat /\ DOMAIN released = 1..n
        /\ DOMAIN released' = 1..(n + 1)
        /\ released'[n + 1] = draft
        /\ \A i \in 1..n : released'[i] = released[i]
    BY Appended DEF Release, IInv, ShapeInv
  <1>2. /\ draft # NoDiscovery /\ Verified(draft) /\ Whole(draft)
        /\ draft.previous_discovery_sha256 = Predecessor(n)
    BY DEF Release, ChainedDraft
  <1> HIDE DEF n
  <1>3. \A i \in 0..n : Predecessor(i)' = Predecessor(i)
    BY <1>1 DEF Predecessor
  <1>4. ASSUME NEW i \in 1..(n + 1)
        PROVE  /\ Whole(released'[i]) /\ Verified(released'[i])
               /\ released'[i].previous_discovery_sha256 = Predecessor(i - 1)'
    <2>1. CASE i = n + 1
      BY <1>1, <1>2, <1>3, <2>1
    <2>2. CASE i # n + 1
      <3>1. i \in 1..n /\ i - 1 \in 0..n
        BY <1>1, <2>2
      <3> QED  BY <1>1, <1>3, <3>1 DEF ChainedReleases
    <2> QED  BY <2>1, <2>2
  <1>5. ChainedReleases'
    BY <1>1, <1>4 DEF ChainedReleases
  <1>6. CopiesTrusted'
    BY <1>1 DEF Release, CopiesTrusted, readerVars
  <1>7. KnownApprovals' /\ ChainedDraft'
    BY DEF Release, KnownApprovals, ChainedDraft
  <1> QED  BY <1>5, <1>6, <1>7

LEMMA AcceptOrigin ==
    ASSUME TrustAssumption, IInv, OriginInv, NEW reader \in Readers,
           NEW n \in DOMAIN released,
           NEW discovery \in DiscoveryCopies(released[n]),
           AcceptDiscovery(reader, discovery)
    PROVE  OriginInv'
  <1> USE DEF OriginInv
  <1>1. \A r \in Readers :
           trusted'[r] = IF r = reader THEN discovery ELSE trusted[r]
    BY DEF AcceptDiscovery, IInv, ShapeInv
  <1>2. released' = released
    BY DEF AcceptDiscovery, publisherVars
  <1>3. CopiesTrusted'
    BY <1>1, <1>2 DEF CopiesTrusted
  <1>4. KnownApprovals' /\ ChainedDraft' /\ ChainedReleases'
    BY DEF AcceptDiscovery, KnownApprovals, ChainedDraft, ChainedReleases,
       Predecessor, publisherVars
  <1> QED  BY <1>3, <1>4

LEMMA NextOrigin ==
    ASSUME TrustAssumption, IInv, OriginInv, [Next]_vars
    PROVE  OriginInv'
  <1>1. CASE UNCHANGED <<approvals, draft, released, trusted>>
    BY <1>1, OriginStays
  <1>2. CASE \E text \in Drafts : Compose(text)
    BY <1>2, ComposeOrigin
  <1>3. CASE \E root \in RootIds : Approve(root)
    BY <1>3, ApproveOrigin
  <1>4. CASE \E approval \in approvals : Attach(approval)
    BY <1>4, AttachOrigin
  <1>5. CASE Release
    BY <1>5, ReleaseOrigin
  <1>6. CASE \E reader \in Readers, n \in DOMAIN released :
               \E discovery \in DiscoveryCopies(released[n]) :
                  AcceptDiscovery(reader, discovery)
    BY <1>6, AcceptOrigin
  <1> QED
    BY <1>1, <1>2, <1>3, <1>4, <1>5, <1>6 DEF Next, vars, publisherVars,
       readerVars, Commit, CommitLate, AcceptCheckpoint, Tick

LEMMA Origins == ASSUME TrustAssumption PROVE Spec => [](IInv /\ OriginInv)
  <1>1. Init => OriginInv
    BY InitOrigin
  <1>2. IInv /\ OriginInv /\ [Next]_vars => OriginInv'
    BY NextOrigin
  <1> QED  BY <1>1, <1>2, Invariant, PTL DEF Spec

----------------------------------------------------------------------------
(* What a reader goes by *)

(* One array of signatures that are good for two documents, or one good    *)
(* signature that is: the documents say the same.                          *)
LEMMA SharedSignature ==
    ASSUME NEW d, NEW e, Whole(d), Whole(e), Verified(d), Verified(e),
           d.root_signatures = e.root_signatures, Good(d) \cap Good(e) # {}
    PROVE  Alike(d, e)
  <1>1. SigningPayload(d) = SigningPayload(e)
    BY DEF Good
  <1>2. ValidPayload(d) /\ ValidPayload(e)
    BY VerifiedFacts
  <1> QED  BY <1>1, <1>2, PayloadTellsAll

(* The positions of good signatures. *)
LEMMA GoodPositions ==
    ASSUME TrustAssumption, NEW d, Document(d), Verified(d)
    PROVE  /\ Len(d.root_signatures) \in Nat
           /\ DOMAIN d.root_signatures = 1..Len(d.root_signatures)
           /\ IsFiniteSet(DOMAIN d.root_signatures)
           /\ Cardinality(DOMAIN d.root_signatures) = Len(d.root_signatures)
           /\ Good(d) \subseteq DOMAIN d.root_signatures
           /\ Cardinality(Good(d)) \in Nat
           /\ Threshold <= Cardinality(Good(d))
           /\ Cardinality(Good(d)) <= Len(d.root_signatures)
           /\ Good(d) # {}
  <1> DEFINE n == Len(d.root_signatures)
  <1>1. n \in Nat /\ DOMAIN d.root_signatures = 1..n
    BY DEF Document
  <1>2. IsFiniteSet(1..n) /\ Cardinality(1..n) = n
    <2> HIDE DEF n
    <2>1. /\ IsFiniteSet(1..n)
          /\ Cardinality(1..n) = IF 1 > n THEN 0 ELSE n - 1 + 1
      BY <1>1, FS_Interval
    <2> QED  BY <1>1, <2>1
  <1>3. Good(d) \subseteq 1..n /\ Threshold <= Cardinality(Good(d))
    BY <1>1 DEF Good, Verified
  <1> HIDE DEF n
  <1>4. /\ IsFiniteSet(Good(d)) /\ Cardinality(Good(d)) <= Cardinality(1..n)
        /\ Cardinality(Good(d)) \in Nat
    BY <1>2, <1>3, FS_Subset, FS_CardinalityType
  <1>5. Good(d) # {}
    <2> SUFFICES ASSUME Good(d) = {} PROVE FALSE
      OBVIOUS
    <2>1. Cardinality(Good(d)) = 0
      BY FS_EmptySet
    <2> QED  BY <1>3, <2>1 DEF TrustAssumption
  <1> QED  BY <1>1, <1>2, <1>3, <1>4, <1>5 DEF n

(* Roots are as many as the signatures of a document, or more. *)
LEMMA SignaturesOfRoots ==
    ASSUME TrustAssumption, KnownApprovals, NEW d, Document(d),
           DistinctKeys(d.root_signatures)
    PROVE  Cardinality(DOMAIN d.root_signatures) <= Cardinality(RootIds)
  <1> DEFINE signatures == d.root_signatures
             positions == DOMAIN signatures
             f == [i \in positions |-> signatures[i].key_id]
  <1>1. signatures \in Seq(Made)
    BY DEF Document
  <1>2. \A i \in positions : signatures[i] \in Made
    BY <1>1
  <1>3. \A signature \in Made : signature.key_id \in RootIds
    <2>1. \A approval \in approvals : approval.key_id \in RootIds
      BY DEF KnownApprovals
    <2> QED  BY <2>1 DEF Made
  <1>4. f \in [positions -> RootIds]
    BY <1>2, <1>3
  <1>5. \A i, j \in positions : f[i] = f[j] => i = j
    BY DEF DistinctKeys
  <1>6. f \in Injection(positions, RootIds)
    BY <1>4, <1>5, Fun_IsInj
  <1> HIDE DEF positions, f
  <1> QED  BY <1>6, FS_Injection DEF TrustAssumption, positions

(* When two thresholds of roots always have a root in common, a reader     *)
(* goes by what some released document says.                               *)
Majority == Cardinality(RootIds) < 2 * Threshold

LEMMA TrustedIsReleased ==
    ASSUME TrustAssumption, Majority, IInv, OriginInv,
           NEW reader \in Readers, trusted[reader] # NoDiscovery
    PROVE  \E n \in DOMAIN released : Alike(trusted[reader], released[n])
  <1>1. PICK n \in DOMAIN released :
           trusted[reader] \in DiscoveryCopies(released[n])
    BY DEF OriginInv, CopiesTrusted
  <1> DEFINE d == released[n]
             e == trusted[reader]
  <1>2. /\ Whole(d) /\ Document(d) /\ Verified(d)
        /\ Document(e) /\ Verified(e) /\ e \in DiscoveryCopies(d)
    BY <1>1 DEF IInv, OriginInv, ReleasedInv, ChainedReleases, TrustedInv
  <1> HIDE DEF d, e
  <1>3. /\ Whole(e)
        /\ \/ e \in Reordered(d) \/ Alike(e, d)
           \/ ~DistinctKeys(e.root_signatures)
           \/ e.root_signatures = d.root_signatures
    BY <1>2, KindsOfCopies
  <1>4. CASE e \in Reordered(d)
    BY <1>2, <1>4, ReorderedAlike DEF SameSigned, d, e
  <1>5. CASE Alike(e, d)
    BY <1>5 DEF d, e
  <1>6. CASE ~DistinctKeys(e.root_signatures)
    BY <1>2, <1>6, VerifiedFacts
  <1>7. CASE e.root_signatures = d.root_signatures
    <2> DEFINE positions == DOMAIN d.root_signatures
    <2>1. Cardinality(positions) <= Cardinality(RootIds)
      BY <1>2, SignaturesOfRoots, VerifiedFacts DEF OriginInv
    <2>2. /\ IsFiniteSet(positions) /\ Cardinality(positions) \in Nat
          /\ Good(d) \subseteq positions /\ Good(e) \subseteq positions
          /\ Threshold <= Cardinality(Good(d))
          /\ Threshold <= Cardinality(Good(e))
          /\ Cardinality(Good(d)) \in Nat /\ Cardinality(Good(e)) \in Nat
      BY <1>2, <1>7, GoodPositions
    <2>3. Cardinality(RootIds) \in Nat /\ Threshold \in Nat
      BY FS_CardinalityType DEF TrustAssumption
    <2> HIDE DEF positions
    <2>4. Cardinality(Good(d)) + Cardinality(Good(e)) > Cardinality(positions)
      BY <2>1, <2>2, <2>3 DEF Majority
    <2>5. Good(d) \cap Good(e) # {}
      BY <2>2, <2>4, FS_MajoritiesIntersect
    <2>6. Alike(e, d)
      BY <1>2, <1>3, <1>7, <2>5, SharedSignature
    <2> QED  BY <2>6 DEF d, e
  <1> QED  BY <1>3, <1>4, <1>5, <1>6, <1>7

(* When no document is released with more signatures than a reader wants,  *)
(* the copy that a reader goes by has all of them, and all are good.       *)
NoSpareSignatures ==
    \A n \in DOMAIN released : Len(released[n].root_signatures) <= Threshold

LEMMA TrustedIsWhole ==
    ASSUME TrustAssumption, NoSpareSignatures, IInv, OriginInv,
           NEW reader \in Readers, trusted[reader] # NoDiscovery
    PROVE  \E n \in DOMAIN released :
              Whole(trusted[reader]) /\ SameSigned(trusted[reader], released[n])
  <1>1. PICK n \in DOMAIN released :
           trusted[reader] \in DiscoveryCopies(released[n])
    BY DEF OriginInv, CopiesTrusted
  <1> DEFINE d == released[n]
             e == trusted[reader]
  <1>2. /\ Whole(d) /\ Document(d) /\ Verified(d)
        /\ Document(e) /\ Verified(e) /\ e \in DiscoveryCopies(d)
        /\ Len(d.root_signatures) <= Threshold
    BY <1>1 DEF IInv, OriginInv, ReleasedInv, ChainedReleases, TrustedInv,
       NoSpareSignatures
  <1> HIDE DEF d, e
  <1>3. /\ Whole(e)
        /\ \/ e \in Reordered(d)
           \/ Len(e.root_signatures) = Len(d.root_signatures) - 1
           \/ ~DistinctKeys(e.root_signatures)
           \/ e.root_signatures = d.root_signatures
    BY <1>2, KindsOfCopies
  <1>4. /\ Len(d.root_signatures) \in Nat /\ Threshold \in Nat
        /\ Good(e) \subseteq DOMAIN e.root_signatures /\ Good(e) # {}
        /\ Threshold <= Len(e.root_signatures)
        /\ Good(d) = DOMAIN d.root_signatures
    <2>1. \A x : Document(x) /\ Verified(x) =>
             /\ Len(x.root_signatures) \in Nat
             /\ Threshold <= Cardinality(Good(x))
             /\ Cardinality(Good(x)) \in Nat
             /\ Cardinality(Good(x)) <= Len(x.root_signatures)
             /\ Good(x) \subseteq DOMAIN x.root_signatures /\ Good(x) # {}
             /\ IsFiniteSet(DOMAIN x.root_signatures)
             /\ Cardinality(DOMAIN x.root_signatures) = Len(x.root_signatures)
      BY GoodPositions
    <2>2. Threshold \in Nat
      BY DEF TrustAssumption
    <2>3. Cardinality(Good(d)) = Cardinality(DOMAIN d.root_signatures)
      BY <1>2, <2>1, <2>2
    <2>4. Good(d) = DOMAIN d.root_signatures
      BY <1>2, <2>1, <2>3, FS_Subset
    <2> QED  BY <1>2, <2>1, <2>2, <2>4
  <1>5. CASE e \in Reordered(d)
    BY <1>2, <1>3, <1>5, ReorderedAlike DEF d, e
  <1>6. CASE Len(e.root_signatures) = Len(d.root_signatures) - 1
    BY <1>2, <1>4, <1>6
  <1>7. CASE ~DistinctKeys(e.root_signatures)
    BY <1>2, <1>7, VerifiedFacts
  <1>8. CASE e.root_signatures = d.root_signatures
    <2>1. Good(e) \cap Good(d) # {}
      BY <1>4, <1>8
    <2>2. Alike(e, d)
      BY <1>2, <1>3, <1>8, <2>1, SharedSignature
    <2>3. SameSigned(e, d)
      BY <1>8, <2>2 DEF SameSigned
    <2> QED  BY <1>3, <2>3 DEF d, e
  <1> QED  BY <1>3, <1>5, <1>6, <1>7, <1>8

----------------------------------------------------------------------------
(* Enough signatures for a draft make it verify, in whatever order they    *)
(* and the keys stand: the positions of the good ones are at least as many *)
(* as the roots that made them.                                            *)
THEOREM CeremonyIsEnough ==
    ASSUME TrustAssumption PROVE Spec => []CeremonySuffices
  <1> DEFINE good == {approval \in approvals :
              /\ approval.meaning = Meaning(draft)
              /\ [key_id |-> approval.key_id, covers |-> approval.covers]
                    \in ToSet(draft.root_signatures)}
             keys == {approval.key_id : approval \in good}
  <1>1. ASSUME IInv, OriginInv, draft # NoDiscovery, ValidDiscovery(draft),
               Threshold <= Cardinality(keys)
        PROVE  \A copy \in Reordered(draft) : Verified(copy)
    <2> DEFINE signatures == draft.root_signatures
               f == [i \in Good(draft) |-> signatures[i].key_id]
               image == {signatures[i].key_id : i \in Good(draft)}
    <2>1. /\ Whole(draft) /\ Document(draft) /\ ValidPayload(draft)
          /\ KnownApprovals
      BY <1>1 DEF IInv, DraftInv, OriginInv, ChainedDraft, ValidDiscovery
    <2>2. SigningPayload(draft) = [Meaning(draft) EXCEPT !.root_signatures = {}]
      BY <2>1, PayloadOfMeaning
    <2>3. ASSUME NEW approval \in good
          PROVE  \E i \in Good(draft) : signatures[i].key_id = approval.key_id
      <3>1. approval.covers = SigningPayload(draft)
        BY <2>1, <2>2 DEF KnownApprovals
      <3>2. PICK i \in DOMAIN signatures :
               signatures[i] =
                  [key_id |-> approval.key_id, covers |-> approval.covers]
        BY DEF ToSet
      <3>3. i \in Good(draft) /\ signatures[i].key_id = approval.key_id
        BY <3>1, <3>2 DEF Good
      <3> QED  BY <3>3
    <2>4. IsFiniteSet(Good(draft))
      <3> DEFINE n == Len(signatures)
      <3>1. n \in Nat /\ Good(draft) \subseteq 1..n
        BY <2>1 DEF Document, Good
      <3> HIDE DEF n
      <3>2. IsFiniteSet(1..n)
        BY <3>1, FS_Interval
      <3> QED  BY <3>1, <3>2, FS_Subset
    <2>5. f \in Surjection(Good(draft), image)
      BY Fun_IsSurj
    <2>6. keys \subseteq image
      <3>1. \A approval \in good : approval.key_id \in image
        BY <2>3
      <3> HIDE DEF good, image
      <3> QED  BY <3>1
    <2> HIDE DEF f, image, keys
    <2>7. /\ IsFiniteSet(image)
          /\ Cardinality(image) <= Cardinality(Good(draft))
          /\ IsFiniteSet(keys) /\ Cardinality(keys) <= Cardinality(image)
      BY <2>4, <2>5, <2>6, FS_Surjection, FS_Subset
    <2>8. /\ Cardinality(image) \in Nat /\ Cardinality(keys) \in Nat
          /\ Cardinality(Good(draft)) \in Nat /\ Threshold \in Nat
      BY <2>4, <2>7, FS_CardinalityType DEF TrustAssumption
    <2>9. Threshold <= Cardinality(Good(draft))
      BY <1>1, <2>7, <2>8
    <2>10. Verified(draft)
      BY <1>1, <2>9 DEF Verified, Good
    <2> QED  BY <2>1, <2>10, ReorderedAlike
  <1>2. IInv /\ OriginInv => CeremonySuffices
    BY <1>1 DEF CeremonySuffices
  <1> QED  BY <1>2, Origins, PTL

(* A reader can follow the chain as long as no document is released with   *)
(* more signatures than readers want: a copy that verifies then has the    *)
(* bytes that the next document names.  With a spare signature a reader    *)
(* can hold a copy without it, and cannot follow.                          *)
THEOREM ChainIsFollowed ==
    ASSUME TrustAssumption
    PROVE  Spec /\ []NoSpareSignatures => []ChainCanBeFollowed
  <1>1. ASSUME IInv, OriginInv, NoSpareSignatures,
               NEW reader \in Readers, trusted[reader].version # 0,
               trusted[reader].version < Len(released),
               NEW copy \in Reordered(released[trusted[reader].version + 1])
        PROVE  Verified(copy) /\ Follows(copy, reader)
    <2> DEFINE e == trusted[reader]
    <2>1. e # NoDiscovery
      BY <1>1 DEF NoDiscovery
    <2>2. PICK n \in DOMAIN released : Whole(e) /\ SameSigned(e, released[n])
      BY <1>1, <2>1, TrustedIsWhole
    <2>3. /\ DOMAIN released = 1..Len(released) /\ Len(released) \in Nat
          /\ \A i \in DOMAIN released :
                /\ released[i].version = i /\ Whole(released[i])
                /\ Document(released[i]) /\ Verified(released[i])
                /\ released[i].previous_discovery_sha256 = Predecessor(i - 1)
      BY <1>1, Appended DEF IInv, ShapeInv, ReleasedInv, OriginInv,
         ChainedReleases
    <2>4. e.version = n
      BY <2>2, <2>3 DEF SameSigned, Alike, PlainFields, DiscoveryFields
    <2>5. n + 1 \in DOMAIN released /\ n # 0 /\ n + 1 - 1 = n
      BY <1>1, <2>3, <2>4
    <2> DEFINE d == released[n + 1]
    <2>6. /\ Whole(copy) /\ SameSigned(copy, d) /\ Verified(copy)
      BY <1>1, <2>3, <2>4, <2>5, ReorderedAlike
    <2>7. /\ copy.version = n + 1
          /\ copy.previous_discovery_sha256 = DiscoveryBytes(released[n])
      BY <2>3, <2>5, <2>6 DEF SameSigned, Alike, PlainFields,
         DiscoveryFields, Predecessor
    <2>8. DiscoveryBytes(released[n]) = DiscoveryBytes(e)
      <3>1. Verified(e)
        BY <1>1, <2>1 DEF IInv, TrustedInv
      <3>2. Normalized(e) = Normalized(released[n])
        BY <2>2, <2>3, SameBytes
      <3> QED  BY <2>3, <3>1, <3>2 DEF DiscoveryBytes, Verified
    <2> QED  BY <2>4, <2>6, <2>7, <2>8 DEF Follows
  <1>2. IInv /\ OriginInv /\ NoSpareSignatures => ChainCanBeFollowed
    BY <1>1 DEF ChainCanBeFollowed
  <1> QED  BY <1>2, Origins, PTL

(* Every checkpoint that a reader goes by was taken up while a released    *)
(* document that has its key active was unexpired, if two thresholds of    *)
(* roots have a root in common; otherwise the signatures that one document *)
(* carries could stand for two.                                            *)
TakenInTime ==
    \A reader \in Readers : view[reader] # NoCheckpoint =>
       \E n \in DOMAIN released :
          /\ Activates(released[n], view[reader].signing_key_id)
          /\ ~Retires(released[n], view[reader].signing_key_id)
          /\ taken_at[reader] < released[n].expires_at

THEOREM LaggingSigners ==
    ASSUME TrustAssumption, Majority PROVE Spec => []LaggingSignerWindow
  <1>1. Init => TakenInTime
    BY DEF Init, TakenInTime
  <1>2. ASSUME IInv, OriginInv, TakenInTime, NEW reader \in Readers,
               NEW checkpoint, AcceptCheckpoint(reader, checkpoint)
        PROVE  TakenInTime'
    <2> DEFINE e == trusted[reader]
               key == checkpoint.signing_key_id
    <2>1. /\ e # NoDiscovery /\ now < e.expires_at
          /\ Authorizes(e, checkpoint)
          /\ released' = released
      BY <1>2 DEF AcceptCheckpoint, publisherVars
    <2>2. PICK n \in DOMAIN released : Alike(e, released[n])
      BY <1>2, <2>1, TrustedIsReleased
    <2>3. /\ \A r \in Readers :
                /\ view'[r] = IF r = reader THEN checkpoint ELSE view[r]
                /\ taken_at'[r] = IF r = reader THEN now ELSE taken_at[r]
      BY <1>2 DEF AcceptCheckpoint, IInv, ShapeInv
    <2>4. /\ e.signing_keys \in Seq(SigningKey)
          /\ DistinctKeys(e.signing_keys)
      BY <1>2, <2>1, VerifiedFacts DEF IInv, TrustedInv, Document
    <2>5. PICK i \in DOMAIN e.signing_keys :
             /\ e.signing_keys[i].state = "active"
             /\ e.signing_keys[i].key_id = key
      BY <2>1 DEF Authorizes
    <2>6. e.signing_keys[i] \in SigningKey
      BY <2>4
    <2>7. e.signing_keys[i] = [key_id |-> key, state |-> "active"]
      BY <2>5, <2>6 DEF SigningKey
    <2>8. Activates(e, key)
      BY <2>7 DEF Activates, ToSet
    <2>9. ~Retires(e, key)
      <3> SUFFICES ASSUME NEW j \in DOMAIN e.signing_keys,
                          e.signing_keys[j] =
                             [key_id |-> key, state |-> "retired"]
                   PROVE  FALSE
        BY DEF Retires, ToSet
      <3>1. i = j
        BY <2>4, <2>5 DEF DistinctKeys
      <3> QED  BY <2>5, <3>1
    <2>10. /\ ToSet(e.signing_keys) = ToSet(released[n].signing_keys)
           /\ e.expires_at = released[n].expires_at
      BY <2>2 DEF Alike, PlainFields, DiscoveryFields
    <2>11. /\ Activates(released[n], key) /\ ~Retires(released[n], key)
           /\ now < released[n].expires_at
      BY <2>1, <2>8, <2>9, <2>10 DEF Activates, Retires
    <2> HIDE DEF e
    <2> QED  BY <1>2, <2>1, <2>3, <2>11 DEF TakenInTime
  <1>3. ASSUME IInv, TakenInTime, UNCHANGED <<view, taken_at>>,
               released' = released \/ Release
        PROVE  TakenInTime'
    <2>1. /\ DOMAIN released \subseteq DOMAIN released'
          /\ \A n \in DOMAIN released : released'[n] = released[n]
      <3>1. CASE Release
        <4>1. /\ released \in Seq(ToSet(released))
              /\ released' = Append(released, draft)
          BY <1>3, <3>1 DEF Release, IInv, ShapeInv
        <4>2. /\ DOMAIN released = 1..Len(released) /\ Len(released) \in Nat
              /\ DOMAIN released' = 1..(Len(released) + 1)
              /\ \A n \in 1..Len(released) : released'[n] = released[n]
          BY <4>1, Appended
        <4> QED  BY <4>2
      <3> QED  BY <1>3, <3>1
    <2> QED  BY <1>3, <2>1 DEF TakenInTime
  <1>4. IInv /\ OriginInv /\ TakenInTime /\ [Next]_vars => TakenInTime'
    BY <1>2, <1>3 DEF Next, vars, publisherVars, readerVars, Compose,
       Approve, Attach, Release, Commit, CommitLate, AcceptDiscovery, Tick
  <1>5. TakenInTime => LaggingSignerWindow
    BY DEF TakenInTime, LaggingSignerWindow
  <1> QED  BY <1>1, <1>4, <1>5, Origins, PTL DEF Spec

-----------------------------------------------------------------------------
(* The parts of records. *)

(* A text is a number, or has not the form it should have. *)
Texts == Int \cup {Malformed}
TypedDependency(dependency) ==
    /\ DOMAIN dependency = {"package", "requirement", "features"}
    /\ IsMap(dependency)
    /\ dependency.package \in Texts
    /\ ListOf(dependency.features, Texts)
TypedAssembly(assembly) ==
    /\ IsList(assembly.dependencies)
    /\ \A i \in 1..Len(assembly.dependencies) :
          TypedDependency(assembly.dependencies[i])
    /\ ListOf(assembly.targets, Texts) /\ ListOf(assembly.features, Texts)

(* What a record asks of its parts: nothing is twice there. *)
ClearDependency(dependency) ==
    /\ ValidDependency(dependency)
    /\ dependency.package \in Int
    /\ ListOf(dependency.features, Int) /\ Once(dependency.features)
ClearList(list) == ListOf(list, Int) /\ Once(list)
ClearDependencies(dependencies) ==
    /\ IsList(dependencies)
    /\ \A i \in 1..Len(dependencies) :
          /\ TypedDependency(dependencies[i])
          /\ ClearDependency(dependencies[i])
          /\ \A j \in 1..Len(dependencies) :
                dependencies[i].package = dependencies[j].package => i = j

(* The parts without the order in which they were found. *)
DependencyPart(dependency) ==
    [package |-> dependency.package, requirement |-> dependency.requirement,
     features |-> Elements(dependency.features)]
Parts(assembly) ==
    [dependencies |-> {DependencyPart(assembly.dependencies[i]) :
                          i \in 1..Len(assembly.dependencies)},
     targets |-> Elements(assembly.targets),
     features |-> Elements(assembly.features)]
ClearAssembly(assembly) ==
    /\ ClearDependencies(assembly.dependencies)
    /\ ClearList(assembly.targets) /\ ClearList(assembly.features)

(* However the parts are found, those that a record accepts are the same.  *)
OneRelease ==
    \A a, b \in Assemblies :
        ClearAssembly(a) /\ ClearAssembly(b) => Parts(a) = Parts(b)

TypedContents(contents) ==
    /\ IsList(contents.entries) /\ contents.expanded_size \in Nat
    /\ \A i \in 1..Len(contents.entries) : contents.entries[i].size \in Nat
TypedPublication ==
    /\ Packages \subseteq Int /\ IsFiniteSet(Packages)
    /\ MaxU64 \in Nat
    /\ \A assembly \in Assemblies : TypedAssembly(assembly)
    /\ \A request \in Requests :
          /\ request.package \in Packages \cup {Malformed}
          /\ ValidPublishRequest(request) =>
                /\ request.archive.manifest \in DOMAIN Contents
                /\ TypedContents(Contents[request.archive.manifest])

-----------------------------------------------------------------------------
(* A list that is accepted is one of numbers, each of them once. *)
LEMMA ClearLists ==
  ASSUME NEW list, ListOf(list, Texts), AllSound(list), IsInjective(list)
  PROVE  ClearList(list)
<1>1. IsList(list) /\ DOMAIN list = 1..Len(list)
  BY DEF ListOf, IsList
<1>2. \A i \in 1..Len(list) : list[i] \in Int
  BY <1>1 DEF ListOf, AllSound, Sound, Texts
<1>3. Once(list)
  BY <1>1 DEF IsInjective, Once
<1> QED
  BY <1>1, <1>2, <1>3 DEF ClearList, ListOf

(* The other way about: a list of numbers, each once, is accepted. *)
LEMMA ClearListsAreSound ==
  ASSUME NEW list, ClearList(list), Malformed \notin Int
  PROVE  AllSound(list) /\ IsInjective(list)
<1>1. IsList(list) /\ DOMAIN list = 1..Len(list)
  BY DEF ListOf, IsList, ClearList
<1>2. AllSound(list)
  BY <1>1 DEF ListOf, AllSound, Sound, ClearList
<1>3. IsInjective(list)
  BY <1>1 DEF IsInjective, Once, ClearList
<1> QED
  BY <1>2, <1>3

(* A list of numbers, each once, is sorted without losing any. *)
LEMMA SortedNumbers ==
  ASSUME NEW list, ClearList(list)
  PROVE  /\ ClearList(Sorted(list))
         /\ Ordered(Sorted(list), LessNumbers)
         /\ Elements(Sorted(list)) = Elements(list)
<1>1. ListOf(list, Int) /\ Once(list)
  BY DEF ClearList
<1> QED
  BY <1>1, NumbersSorted DEF Sorted, ClearList

(* The same numbers in two orders are sorted to one list. *)
LEMMA SameNumbersSorted ==
  ASSUME NEW s, NEW t, ClearList(s), ClearList(t), Elements(s) = Elements(t)
  PROVE  Sorted(s) = Sorted(t)
<1> DEFINE u == Sorted(s)
           v == Sorted(t)
<1>1. /\ ClearList(u) /\ Ordered(u, LessNumbers) /\ Elements(u) = Elements(s)
      /\ ClearList(v) /\ Ordered(v, LessNumbers) /\ Elements(v) = Elements(t)
  BY SortedNumbers
<1> HIDE DEF u, v
<1>2. /\ ListOf(u, Int) /\ Once(u) /\ IsList(v) /\ Once(v)
      /\ Elements(u) = Elements(v)
  BY <1>1 DEF ClearList, ListOf
<1>3. u = v
  BY <1>1, <1>2, NumbersTotal, SameSetSameList
<1> QED
  BY <1>3 DEF u, v

(* A dependency in the normal form. *)
LEMMA DependencyTidied ==
  ASSUME NEW d, TypedDependency(d), ClearDependency(d), Malformed \notin Int
  PROVE  LET e == SortedFeatures(d)
         IN  /\ TypedDependency(e) /\ ClearDependency(e)
             /\ e.package = d.package /\ e.requirement = d.requirement
             /\ e.features = Sorted(d.features)
<1> DEFINE e == SortedFeatures(d)
<1>1. /\ DOMAIN e = {"package", "requirement", "features"} /\ IsMap(e)
      /\ e.package = d.package /\ e.requirement = d.requirement
      /\ e.features = Sorted(d.features)
  BY DEF SortedFeatures, TypedDependency, IsMap
<1> HIDE DEF e
<1>2. ClearList(d.features)
  BY DEF ClearDependency, ClearList
<1>3. ClearList(e.features)
  BY <1>1, <1>2, SortedNumbers
<1>4. AllSound(e.features) /\ IsInjective(e.features)
  BY <1>3, ClearListsAreSound
<1>5. ListOf(e.features, Texts)
  BY <1>3 DEF ClearList, ListOf, Texts
<1> QED
  BY <1>1, <1>3, <1>4, <1>5
     DEF TypedDependency, ClearDependency, ValidDependency, ClearList, e

(* Dependencies in the normal form that have the same parts are the same.  *)
LEMMA SameDependency ==
  ASSUME NEW d, TypedDependency(d), ClearDependency(d),
         NEW e, TypedDependency(e), ClearDependency(e),
         DependencyPart(d) = DependencyPart(e)
  PROVE  SortedFeatures(d) = SortedFeatures(e)
<1>1. /\ d.package = e.package /\ d.requirement = e.requirement
      /\ Elements(d.features) = Elements(e.features)
  BY DEF DependencyPart
<1>2. ClearList(d.features) /\ ClearList(e.features)
  BY DEF ClearDependency, ClearList
<1>3. Sorted(d.features) = Sorted(e.features)
  BY <1>1, <1>2, SameNumbersSorted
<1>4. /\ SortedFeatures(d)
            = [f \in {"package", "requirement", "features"} |->
                 IF f = "features" THEN Sorted(d.features) ELSE d[f]]
      /\ SortedFeatures(e)
            = [f \in {"package", "requirement", "features"} |->
                 IF f = "features" THEN Sorted(e.features) ELSE e[f]]
  BY DEF SortedFeatures, TypedDependency, IsMap
<1> QED
  BY <1>1, <1>3, <1>4

(* Dependencies that are distinct by their packages are in one order. *)
EarlierPackages(S) == {pair \in S \X S : pair[1].package < pair[2].package}

(* The dependencies of a record, each in the normal form. *)
Tidied(dependencies) ==
    [i \in DOMAIN dependencies |-> SortedFeatures(dependencies[i])]

(* Dependencies stay as clear when each is in the normal form. *)
LEMMA TidiedDependencies ==
  ASSUME NEW s, ClearDependencies(s), Malformed \notin Int
  PROVE  ClearDependencies(Tidied(s)) /\ Len(Tidied(s)) = Len(s)
<1> DEFINE t == Tidied(s)
<1>1. IsList(s) /\ DOMAIN s = 1..Len(s) /\ Len(s) \in Nat
  BY DEF ClearDependencies, IsList
<1>2. /\ DOMAIN t = 1..Len(s)
      /\ \A i \in 1..Len(s) : t[i] = SortedFeatures(s[i])
  BY <1>1 DEF Tidied
<1>3. t = [i \in 1..Len(s) |-> t[i]]
  BY <1>1 DEF Tidied
<1> HIDE DEF t
<1>4. Len(t) = Len(s)
  BY <1>1, <1>2
<1>5. IsList(t)
  BY <1>1, <1>3, <1>4 DEF IsList
<1>6. \A i \in 1..Len(s) : TypedDependency(s[i]) /\ ClearDependency(s[i])
  BY DEF ClearDependencies
<1>7. \A i \in 1..Len(s) :
         /\ TypedDependency(t[i]) /\ ClearDependency(t[i])
         /\ t[i].package = s[i].package
  BY <1>2, <1>6, DependencyTidied
<1>8. \A i, j \in 1..Len(s) : s[i].package = s[j].package => i = j
  BY DEF ClearDependencies
<1> QED
  BY <1>4, <1>5, <1>7, <1>8 DEF ClearDependencies, t

(* What the sort leaves of such dependencies. *)
LEMMA PackagesSorted ==
  ASSUME NEW s, ClearDependencies(s)
  PROVE  LET t == ByPackage(s)
             S == Elements(s)
         IN  /\ StrictTotalOrder(S, EarlierPackages(S))
             /\ ListOf(t, S) /\ Ordered(t, EarlierPackages(S))
             /\ Elements(t) = S /\ Once(t)
             /\ ClearDependencies(t)
<1> DEFINE S == Elements(s)
           before == EarlierPackages(S)
           less == Positions(s, LAMBDA a, b : a.package < b.package)
           t == ByPackage(s)
<1>1. IsList(s)
  BY DEF ClearDependencies
<1>2. \A i \in 1..Len(s) : s[i] \in S /\ s[i].package \in Int
  BY DEF ClearDependencies, ClearDependency, Elements
<1>3. \A i, j \in 1..Len(s) : s[i].package = s[j].package => i = j
  BY DEF ClearDependencies
<1>4. \A x \in S : \E i \in 1..Len(s) : s[i] = x
  BY DEF Elements
<1>5. t = Arranged(s, 1..Len(s), Stably(Len(s), less))
  BY DEF ByPackage, SortedBy
<1>6. \A i, j \in 1..Len(s) :
         <<i, j>> \in less <=> s[i].package < s[j].package
  BY DEF Positions
<1> HIDE DEF S, less, t
<1>7. \A x, y \in S : <<x, y>> \in before <=> x.package < y.package
  BY DEF EarlierPackages
<1> HIDE DEF before
<1>8. /\ \A x \in S : x.package \in Int
      /\ \A x, y \in S : x.package = y.package => x = y
  BY <1>2, <1>3, <1>4
<1>9. StrictTotalOrder(S, before)
  BY <1>7, <1>8 DEF StrictTotalOrder
<1>10. \A i, j \in 1..Len(s) :
          <<i, j>> \in less <=> <<s[i], s[j]>> \in before
  BY <1>2, <1>6, <1>7
<1>11. ListOf(s, S) /\ Once(s)
  BY <1>1, <1>2, <1>3 DEF ListOf, Once
<1>12. /\ ListOf(t, S) /\ Ordered(t, before) /\ Len(t) = Len(s)
       /\ Elements(t) = Elements(s) /\ Once(t)
  BY <1>5, <1>9, <1>10, <1>11, SortedValues
<1>13. ClearDependencies(t)
  <2>1. \A x \in S : TypedDependency(x) /\ ClearDependency(x)
    BY <1>4 DEF ClearDependencies
  <2>2. \A i \in 1..Len(t) : t[i] \in S
    BY <1>12 DEF ListOf
  <2>3. \A i, j \in 1..Len(t) : t[i].package = t[j].package => i = j
    BY <1>8, <1>12, <2>2 DEF Once
  <2> QED
    BY <1>12, <2>1, <2>2, <2>3 DEF ClearDependencies, ListOf
<1> QED
  BY <1>9, <1>12, <1>13 DEF S, before, t

(* The dependencies of a record are in one normal form. *)
LEMMA SameDependenciesSorted ==
  ASSUME NEW s, NEW t, ClearDependencies(s), ClearDependencies(t),
         Malformed \notin Int,
         {DependencyPart(s[i]) : i \in 1..Len(s)}
            = {DependencyPart(t[i]) : i \in 1..Len(t)}
  PROVE  ByPackage(Tidied(s)) = ByPackage(Tidied(t))
<1> DEFINE u == Tidied(s)
           v == Tidied(t)
<1>1. /\ DOMAIN s = 1..Len(s) /\ DOMAIN t = 1..Len(t)
  BY DEF ClearDependencies, IsList
<1>2. /\ ClearDependencies(u) /\ Len(u) = Len(s)
      /\ ClearDependencies(v) /\ Len(v) = Len(t)
      /\ \A i \in 1..Len(s) : u[i] = SortedFeatures(s[i])
      /\ \A i \in 1..Len(t) : v[i] = SortedFeatures(t[i])
  BY <1>1, TidiedDependencies DEF Tidied
<1> HIDE DEF u, v
<1>3. /\ \A i \in 1..Len(s) : TypedDependency(s[i]) /\ ClearDependency(s[i])
      /\ \A i \in 1..Len(t) : TypedDependency(t[i]) /\ ClearDependency(t[i])
  BY DEF ClearDependencies
<1>4. \A i \in 1..Len(s) : \E j \in 1..Len(t) : u[i] = v[j]
  <2> SUFFICES ASSUME NEW i \in 1..Len(s)
               PROVE  \E j \in 1..Len(t) : u[i] = v[j]
    OBVIOUS
  <2>1. PICK j \in 1..Len(t) : DependencyPart(s[i]) = DependencyPart(t[j])
    OBVIOUS
  <2> QED
    BY <1>2, <1>3, <2>1, SameDependency
<1>5. \A j \in 1..Len(t) : \E i \in 1..Len(s) : u[i] = v[j]
  <2> SUFFICES ASSUME NEW j \in 1..Len(t)
               PROVE  \E i \in 1..Len(s) : u[i] = v[j]
    OBVIOUS
  <2>1. PICK i \in 1..Len(s) : DependencyPart(s[i]) = DependencyPart(t[j])
    OBVIOUS
  <2> QED
    BY <1>2, <1>3, <2>1, SameDependency
<1>6. Elements(u) = Elements(v)
  <2>1. \A x : x \in Elements(u) <=> \E i \in 1..Len(s) : x = u[i]
    BY <1>2 DEF Elements
  <2>2. \A x : x \in Elements(v) <=> \E j \in 1..Len(t) : x = v[j]
    BY <1>2 DEF Elements
  <2>3. ASSUME NEW x, x \in Elements(u)
        PROVE  x \in Elements(v)
    <3>1. PICK i \in 1..Len(s) : x = u[i]
      BY <2>1, <2>3
    <3>2. PICK j \in 1..Len(t) : u[i] = v[j]
      BY <1>4
    <3> QED
      BY <2>2, <3>1, <3>2
  <2>4. ASSUME NEW x, x \in Elements(v)
        PROVE  x \in Elements(u)
    <3>1. PICK j \in 1..Len(t) : x = v[j]
      BY <2>2, <2>4
    <3>2. PICK i \in 1..Len(s) : u[i] = v[j]
      BY <1>5
    <3> QED
      BY <2>1, <3>1, <3>2
  <2> QED
    BY <2>3, <2>4
<1> DEFINE S == Elements(u)
           a == ByPackage(u)
           b == ByPackage(v)
           before == EarlierPackages(S)
<1>7. /\ StrictTotalOrder(S, before)
      /\ ListOf(a, S) /\ Ordered(a, before) /\ Elements(a) = S /\ Once(a)
      /\ ListOf(b, S) /\ Ordered(b, before) /\ Elements(b) = S /\ Once(b)
  BY <1>2, <1>6, PackagesSorted
<1> HIDE DEF S, a, b, before
<1>8. IsList(b)
  BY <1>7 DEF ListOf
<1>9. a = b
  BY <1>7, <1>8, SameSetSameList
<1> QED
  BY <1>9 DEF a, b, u, v

-----------------------------------------------------------------------------
(* The bytes of a record. *)

(* What a record accepts is nowhere twice. *)
LEMMA ValidIsClear ==
  ASSUME NEW p, NEW version, NEW a, TypedAssembly(a), NEW n,
         ValidRecord(Record(p, version, a, n))
  PROVE  ClearAssembly(a)
<1> DEFINE s == a.dependencies
           r == Record(p, version, a, n)
<1>1. r.dependencies = s /\ r.targets = a.targets /\ r.features = a.features
  BY DEF Record
<1>2. IsList(s) /\ DOMAIN s = 1..Len(s)
  BY DEF TypedAssembly, IsList
<1> HIDE DEF r
<1>3. /\ \A i \in 1..Len(s) :
            /\ ValidDependency(s[i])
            /\ \A j \in 1..Len(s) : s[i].package = s[j].package => i = j
      /\ AllSound(a.targets) /\ IsInjective(a.targets)
      /\ AllSound(a.features) /\ IsInjective(a.features)
  BY <1>1, <1>2 DEF ValidRecord, r
<1>4. ASSUME NEW i \in 1..Len(s)
      PROVE  TypedDependency(s[i]) /\ ClearDependency(s[i])
  <2>1. TypedDependency(s[i]) /\ ValidDependency(s[i])
    BY <1>3 DEF TypedAssembly
  <2>2. s[i].package \in Int
    BY <2>1 DEF TypedDependency, ValidDependency, Texts, Sound
  <2>3. ClearList(s[i].features)
    BY <2>1, ClearLists DEF TypedDependency, ValidDependency
  <2> QED
    BY <2>1, <2>2, <2>3 DEF ClearDependency, ClearList
<1>5. ClearDependencies(s)
  BY <1>2, <1>3, <1>4 DEF ClearDependencies
<1>6. ClearList(a.targets) /\ ClearList(a.features)
  BY <1>3, ClearLists DEF TypedAssembly
<1> QED
  BY <1>5, <1>6 DEF ClearAssembly

(* What stays of a record, and what is sorted. *)
LEMMA BytesOfRecord ==
  ASSUME NEW p, NEW version, NEW a, NEW n,
         ValidRecord(Record(p, version, a, n))
  PROVE  RecordBytes(Record(p, version, a, n))
            = [package |-> p, archive |-> version.archive,
               dependencies |-> ByPackage(Tidied(a.dependencies)),
               targets |-> Sorted(a.targets),
               features |-> Sorted(a.features),
               lifecycle |-> version.lifecycle, reason |-> version.reason,
               sequence |-> n]
BY DEF RecordBytes, Record, Tidied

(* In whatever order the parts are found, the bytes are the same. *)
LEMMA SameRecordBytes ==
  ASSUME NEW p, NEW version, NEW n,
         NEW a, TypedAssembly(a), ValidRecord(Record(p, version, a, n)),
         NEW b, TypedAssembly(b), ValidRecord(Record(p, version, b, n)),
         Parts(a) = Parts(b), Malformed \notin Int
  PROVE  RecordBytes(Record(p, version, a, n))
            = RecordBytes(Record(p, version, b, n))
<1>1. ClearAssembly(a) /\ ClearAssembly(b)
  BY ValidIsClear
<1>2. ByPackage(Tidied(a.dependencies)) = ByPackage(Tidied(b.dependencies))
  <2>1. {DependencyPart(a.dependencies[i]) : i \in 1..Len(a.dependencies)}
          = {DependencyPart(b.dependencies[i]) :
                i \in 1..Len(b.dependencies)}
    BY DEF Parts
  <2> QED
    BY <1>1, <2>1, SameDependenciesSorted DEF ClearAssembly
<1>3. /\ Sorted(a.targets) = Sorted(b.targets)
      /\ Sorted(a.features) = Sorted(b.features)
  <2>1. /\ Elements(a.targets) = Elements(b.targets)
        /\ Elements(a.features) = Elements(b.features)
    BY DEF Parts
  <2> QED
    BY <1>1, <2>1, SameNumbersSorted DEF ClearAssembly
<1> QED
  BY <1>2, <1>3, BytesOfRecord

(* What was accepted once is accepted again. *)
LEMMA BytesAreValid ==
  ASSUME NEW p, NEW version, NEW n, NEW a, TypedAssembly(a),
         ValidRecord(Record(p, version, a, n)), Malformed \notin Int
  PROVE  ValidRecord(RecordBytes(Record(p, version, a, n)))
<1> DEFINE r == Record(p, version, a, n)
           e == RecordBytes(r)
           t == ByPackage(Tidied(a.dependencies))
<1>1. ClearAssembly(a)
  BY ValidIsClear
<1>2. /\ e.archive = r.archive /\ e.sequence = r.sequence
      /\ e.lifecycle = r.lifecycle /\ e.reason = r.reason
      /\ e.dependencies = t
      /\ e.targets = Sorted(a.targets) /\ e.features = Sorted(a.features)
  <2>1. e = [package |-> p, archive |-> version.archive,
             dependencies |-> t,
             targets |-> Sorted(a.targets), features |-> Sorted(a.features),
             lifecycle |-> version.lifecycle, reason |-> version.reason,
             sequence |-> n]
    BY BytesOfRecord
  <2>2. /\ r.archive = version.archive /\ r.sequence = n
        /\ r.lifecycle = version.lifecycle /\ r.reason = version.reason
    BY DEF Record
  <2> HIDE DEF e, r, t
  <2> QED
    BY <2>1, <2>2
<1>3. ClearDependencies(t)
  BY <1>1, TidiedDependencies, PackagesSorted DEF ClearAssembly
<1>4. ClearList(Sorted(a.targets)) /\ ClearList(Sorted(a.features))
  BY <1>1, SortedNumbers DEF ClearAssembly
<1>5. /\ ValidReference(r.archive) /\ r.sequence # 0
      /\ IF r.lifecycle = "active" THEN r.reason = Absent
         ELSE r.reason \notin {Absent, Malformed}
  BY DEF ValidRecord, ValidLifecycle
<1> HIDE DEF r, e, t
<1>6. DOMAIN t = 1..Len(t)
  BY <1>3 DEF ClearDependencies, IsList
<1>7. \A i \in DOMAIN t :
         /\ ValidDependency(t[i])
         /\ \A j \in DOMAIN t : t[i].package = t[j].package => i = j
  BY <1>3, <1>6 DEF ClearDependencies, ClearDependency
<1>8. /\ AllSound(e.targets) /\ IsInjective(e.targets)
      /\ AllSound(e.features) /\ IsInjective(e.features)
  BY <1>2, <1>4, ClearListsAreSound
<1> QED
  BY <1>2, <1>5, <1>7, <1>8 DEF ValidRecord, ValidLifecycle, e, r

-----------------------------------------------------------------------------
(* What is announced and what is written. *)

(* The sums up to an entry, each by its own equation. *)
Announcing(entries, total) ==
    total = [i \in 0..Len(entries) |->
                IF i = 0 THEN 0
                ELSE CheckedAdd(total[i - 1], FileSize(entries[i]))]
Writing(entries, bytes) ==
    bytes = [i \in 0..Len(entries) |->
                IF i = 0 THEN 0 ELSE bytes[i - 1] + FileSize(entries[i])]

(* There are such sums, whatever is refused on the way. *)
LEMMA SumsExist ==
  ASSUME NEW entries, IsList(entries),
         \A i \in 1..Len(entries) : entries[i].size \in Nat, MaxU64 \in Nat
  PROVE  /\ \E total : Announcing(entries, total)
         /\ \E bytes : Writing(entries, bytes)
<1> DEFINE n == Len(entries)
           V == Nat \cup {Refused}
           Size(i) == FileSize(entries[i])
<1>1. n \in Nat /\ \A i \in 1..n : Size(i) \in Nat
  BY DEF IsList, FileSize
<1> HIDE DEF Size
<1>2. \E total : Announcing(entries, total)
  <2> DEFINE step == [i \in 1..n |-> [v \in V |-> CheckedAdd(v, Size(i))]]
  <2>1. step \in [1..n -> [V -> V]]
    BY <1>1 DEF CheckedAdd
  <2>2. \A i \in 1..n : \A v \in V : step[i][v] = CheckedAdd(v, Size(i))
    OBVIOUS
  <2>3. 0 \in V
    OBVIOUS
  <2> HIDE DEF step, V, n
  <2>4. PICK f \in [0..n -> V] : TakesSteps(f, n, 0, step)
    BY <1>1, <2>1, <2>3, StepsAreTaken
  <2>5. \A i \in 1..n : f[i - 1] \in V
    BY <1>1
  <2>6. \A i \in 1..n : f[i] = CheckedAdd(f[i - 1], Size(i))
    BY <1>1, <2>2, <2>4, <2>5 DEF TakesSteps
  <2>7. f[0] = 0
    BY <2>4 DEF TakesSteps
  <2>8. \A i \in 0..n :
           f[i] = IF i = 0 THEN 0 ELSE CheckedAdd(f[i - 1], Size(i))
    <3>1. \A i \in 0..n : i = 0 \/ i \in 1..n
      BY <1>1
    <3> QED
      BY <2>6, <2>7, <3>1
  <2>9. f = [i \in 0..n |-> f[i]]
    OBVIOUS
  <2>10. f = [i \in 0..n |->
                IF i = 0 THEN 0 ELSE CheckedAdd(f[i - 1], Size(i))]
    BY <2>8, <2>9
  <2> QED
    BY <2>10 DEF Announcing, n, Size
<1>3. \E bytes : Writing(entries, bytes)
  <2> DEFINE step == [i \in 1..n |-> [v \in Nat |-> v + Size(i)]]
  <2>1. step \in [1..n -> [Nat -> Nat]]
    BY <1>1
  <2>2. \A i \in 1..n : \A v \in Nat : step[i][v] = v + Size(i)
    OBVIOUS
  <2> HIDE DEF step, n
  <2>4. PICK f \in [0..n -> Nat] : TakesSteps(f, n, 0, step)
    BY <1>1, <2>1, StepsAreTaken
  <2>5. \A i \in 1..n : f[i - 1] \in Nat
    BY <1>1
  <2>6. \A i \in 1..n : f[i] = f[i - 1] + Size(i)
    BY <1>1, <2>2, <2>4, <2>5 DEF TakesSteps
  <2>7. f[0] = 0
    BY <2>4 DEF TakesSteps
  <2>8. \A i \in 0..n : f[i] = IF i = 0 THEN 0 ELSE f[i - 1] + Size(i)
    <3>1. \A i \in 0..n : i = 0 \/ i \in 1..n
      BY <1>1
    <3> QED
      BY <2>6, <2>7, <3>1
  <2>9. f = [i \in 0..n |-> f[i]]
    OBVIOUS
  <2>10. f = [i \in 0..n |-> IF i = 0 THEN 0 ELSE f[i - 1] + Size(i)]
    BY <2>8, <2>9
  <2> QED
    BY <2>10 DEF Writing, n, Size
<1> QED
  BY <1>2, <1>3

(* A sum that was not refused is the sum. *)
LEMMA SumsAgree ==
  ASSUME NEW entries, IsList(entries),
         \A i \in 1..Len(entries) : entries[i].size \in Nat, MaxU64 \in Nat,
         Refused \notin Int, TotalFileSize(entries) # Refused
  PROVE  TotalFileSize(entries) = Written(entries)
<1> DEFINE n == Len(entries)
           Size(i) == FileSize(entries[i])
           T == CHOOSE total : Announcing(entries, total)
           W == CHOOSE bytes : Writing(entries, bytes)
<1>1. n \in Nat /\ \A i \in 1..n : Size(i) \in Nat
  BY DEF IsList, FileSize
<1>2. TotalFileSize(entries) = T[n] /\ Written(entries) = W[n]
  BY DEF TotalFileSize, Written, Announcing, Writing
<1>3. Announcing(entries, T) /\ Writing(entries, W)
  BY SumsExist
<1> HIDE DEF T, W
<1>4. /\ T[0] = 0 /\ W[0] = 0
      /\ \A i \in 1..n : T[i] = CheckedAdd(T[i - 1], Size(i))
      /\ \A i \in 1..n : W[i] = W[i - 1] + Size(i)
  <2>1. /\ \A i \in 0..n :
              T[i] = IF i = 0 THEN 0 ELSE CheckedAdd(T[i - 1], Size(i))
        /\ \A i \in 0..n : W[i] = IF i = 0 THEN 0 ELSE W[i - 1] + Size(i)
    BY <1>3 DEF Announcing, Writing
  <2>2. 0 \in 0..n /\ \A i \in 1..n : i \in 0..n /\ i # 0
    BY <1>1
  <2> QED
    BY <2>1, <2>2
<1> HIDE DEF Size
<1> DEFINE Agree(i) == W[i] \in Nat /\ (T[i] = Refused \/ T[i] = W[i])
           B == {i \in 0..n : ~Agree(i)}
<1>5. B = {}
  <2> SUFFICES ASSUME B # {}
               PROVE  FALSE
    OBVIOUS
  <2>1. B \subseteq Nat
    OBVIOUS
  <2> HIDE DEF B
  <2>2. PICK k \in B : \A i \in B : k <= i
    BY <2>1, LeastNumber
  <2>3. k \in 0..n /\ ~Agree(k)
    BY <2>2 DEF B
  <2>4. k # 0
    BY <1>4, <2>3
  <2>5. k \in 1..n /\ k - 1 \in 0..n /\ k - 1 \in Nat /\ ~(k <= k - 1)
    BY <2>3, <2>4
  <2>6. k - 1 \notin B
    BY <2>2, <2>5
  <2>7. Agree(k - 1)
    BY <2>5, <2>6 DEF B
  <2>8. T[k] = CheckedAdd(T[k - 1], Size(k)) /\ W[k] = W[k - 1] + Size(k)
    BY <1>4, <2>5
  <2>9. Size(k) \in Nat
    BY <1>1, <2>5
  <2>10. W[k] \in Nat
    BY <2>7, <2>8, <2>9
  <2>11. CASE T[k - 1] = Refused
    BY <2>3, <2>8, <2>10, <2>11 DEF CheckedAdd
  <2>12. CASE T[k - 1] = W[k - 1]
    BY <2>3, <2>8, <2>10, <2>12 DEF CheckedAdd
  <2> QED
    BY <2>7, <2>11, <2>12
<1>6. n \in 0..n
  BY <1>1
<1>7. Agree(n)
  BY <1>5, <1>6
<1> QED
  BY <1>2, <1>7

-----------------------------------------------------------------------------
(* Snapshots. *)

(* The index of a snapshot of what was held, and what it selects. *)
Root(of, assembly, n) ==
    LET records == Records(of, assembly, n)
        list == InOrderOf(records, EarlierPackages(records))
    IN  [registry |-> "registry", sequence |-> n,
         entries |-> [i \in 1..Cardinality(records) |-> Entry(list[i])]]
Accepted(of, assembly, n) ==
    assembly \in Assemblies /\ Refused \notin Records(of, assembly, n)

(* What is known of the records of what was held. *)
LEMMA RecordKnown ==
  ASSUME TypedPublication, Malformed \notin Int,
         NEW of, NEW a, NEW n, Accepted(of, a, n),
         NEW p \in Packages, of[p] # Absent
  PROVE  LET e == RecordBytes(Record(p, of[p], a, n))
         IN  /\ e \in Records(of, a, n)
             /\ ValidRecord(Record(p, of[p], a, n)) /\ ValidRecord(e)
             /\ IsMap(e) /\ e.package = p /\ e.sequence = n
             /\ e.archive = of[p].archive /\ e.lifecycle = of[p].lifecycle
<1> DEFINE r == Record(p, of[p], a, n)
           e == RecordBytes(r)
<1>1. e \in Records(of, a, n)
  BY DEF Records
<1>2. ValidRecord(r)
  BY <1>1 DEF RecordBytes, Accepted
<1>3. TypedAssembly(a)
  BY DEF Accepted, TypedPublication
<1>4. ValidRecord(e)
  BY <1>2, <1>3, BytesAreValid
<1>5. e = [package |-> p, archive |-> of[p].archive,
           dependencies |-> ByPackage(Tidied(a.dependencies)),
           targets |-> Sorted(a.targets), features |-> Sorted(a.features),
           lifecycle |-> of[p].lifecycle, reason |-> of[p].reason,
           sequence |-> n]
  BY <1>2, BytesOfRecord
<1> HIDE DEF r, e
<1>6. IsMap(e)
  BY <1>5 DEF IsMap
<1>7. /\ e.package = p /\ e.sequence = n
      /\ e.archive = of[p].archive /\ e.lifecycle = of[p].lifecycle
  BY <1>5
<1> QED
  BY <1>1, <1>2, <1>4, <1>6, <1>7 DEF e, r

(* Every record is of a package that was held. *)
LEMMA RecordOfOne ==
  ASSUME NEW of, NEW a, NEW n, NEW x \in Records(of, a, n)
  PROVE  \E p \in Packages :
            of[p] # Absent /\ x = RecordBytes(Record(p, of[p], a, n))
BY DEF Records

(* Records are as many as packages at most, and in one order. *)
LEMMA RecordsInOrder ==
  ASSUME TypedPublication, Malformed \notin Int,
         NEW of, NEW a, NEW n, Accepted(of, a, n)
  PROVE  LET S == Records(of, a, n)
         IN  /\ IsFiniteSet(S) /\ Cardinality(S) \in Nat
             /\ StrictTotalOrder(S, EarlierPackages(S))
             /\ \A x \in S : x.package \in Packages /\ of[x.package] # Absent
             /\ \A x, y \in S : x.package = y.package => x = y
<1> DEFINE S == Records(of, a, n)
           P == {p \in Packages : of[p] # Absent}
           f == [p \in P |-> RecordBytes(Record(p, of[p], a, n))]
<1>1. IsFiniteSet(P)
  <2>1. P \in SUBSET Packages /\ IsFiniteSet(Packages)
    BY DEF TypedPublication
  <2> HIDE DEF P
  <2> QED
    BY <2>1, FS_Subset
<1>2. f \in Surjection(P, S)
  BY DEF Surjection, Records
<1> HIDE DEF f
<1>3. IsFiniteSet(S) /\ Cardinality(S) \in Nat
  <2> HIDE DEF P, S
  <2> QED
    BY <1>1, <1>2, FS_Surjection, FS_CardinalityType
<1>4. \A x \in S : /\ x.package \in Packages /\ of[x.package] # Absent
                   /\ x = RecordBytes(Record(x.package, of[x.package], a, n))
  <2> SUFFICES ASSUME NEW x \in S
               PROVE  /\ x.package \in Packages /\ of[x.package] # Absent
                      /\ x = RecordBytes(
                                Record(x.package, of[x.package], a, n))
    OBVIOUS
  <2>1. PICK p \in Packages :
           of[p] # Absent /\ x = RecordBytes(Record(p, of[p], a, n))
    BY RecordOfOne
  <2>2. x.package = p
    BY <2>1, RecordKnown
  <2> QED
    BY <2>1, <2>2
<1> HIDE DEF S
<1>5. \A x \in S : x.package \in Int
  BY <1>4 DEF TypedPublication
<1>6. \A x, y \in S : x.package = y.package => x = y
  BY <1>4
<1>7. \A x, y \in S : <<x, y>> \in EarlierPackages(S)
         <=> x.package < y.package
  BY DEF EarlierPackages
<1>8. StrictTotalOrder(S, EarlierPackages(S))
  BY <1>5, <1>6, <1>7 DEF StrictTotalOrder
<1> QED
  BY <1>3, <1>4, <1>6, <1>8 DEF S

(* The entries of a snapshot are of its records, each of them once. *)
LEMMA EntriesOfRoot ==
  ASSUME TypedPublication, Malformed \notin Int,
         NEW of, NEW a, NEW n, Accepted(of, a, n)
  PROVE  LET root == Root(of, a, n)
             S == Records(of, a, n)
         IN  /\ IsMap(root) /\ root.sequence = n
             /\ \A i \in DOMAIN root.entries :
                   /\ root.entries[i].sha256 \in S
                   /\ root.entries[i].path = root.entries[i].sha256.package
             /\ \A x \in S : \E i \in DOMAIN root.entries :
                                root.entries[i].sha256 = x
<1> DEFINE S == Records(of, a, n)
           list == InOrderOf(S, EarlierPackages(S))
           root == Root(of, a, n)
           m == Cardinality(S)
<1>1. root = [registry |-> "registry", sequence |-> n,
              entries |-> [i \in 1..m |-> Entry(list[i])]]
  BY DEF Root
<1>2. /\ IsFiniteSet(S) /\ StrictTotalOrder(S, EarlierPackages(S))
  BY RecordsInOrder
<1>3. /\ \A i \in 1..m : list[i] \in S
      /\ \A x \in S : \E i \in 1..m : list[i] = x
  BY <1>2, InOrderOfSet
<1> HIDE DEF root, list, S, m
<1>4. /\ DOMAIN root.entries = 1..m
      /\ \A i \in 1..m : root.entries[i] = Entry(list[i])
      /\ IsMap(root) /\ root.sequence = n
  BY <1>1 DEF IsMap
<1>5. ASSUME NEW i \in 1..m
      PROVE  /\ root.entries[i].sha256 = list[i]
             /\ root.entries[i].path = list[i].package
  <2>1. root.entries[i] = [path |-> list[i].package, sha256 |-> list[i],
                           size |-> 1]
    BY <1>4 DEF Entry
  <2> QED
    BY <2>1
<1> QED
  BY <1>3, <1>4, <1>5 DEF S, root

(* What a snapshot lists, and what it names for a package. *)
LEMMA ListedInRoot ==
  ASSUME TypedPublication, Malformed \notin Int, ~IsMap(Absent),
         NEW of, NEW a, NEW n, Accepted(of, a, n)
  PROVE  Listed(Root(of, a, n)) = Records(of, a, n)
<1> DEFINE root == Root(of, a, n)
           S == Records(of, a, n)
<1>1. /\ IsMap(root)
      /\ \A i \in DOMAIN root.entries : root.entries[i].sha256 \in S
      /\ \A x \in S : \E i \in DOMAIN root.entries :
                         root.entries[i].sha256 = x
  BY EntriesOfRoot
<1> HIDE DEF root, S
<1>2. root # Absent
  BY <1>1
<1>3. Listed(root) = {root.entries[i].sha256 : i \in DOMAIN root.entries}
  BY <1>2 DEF Listed
<1> QED
  BY <1>1, <1>3 DEF root, S

(* A snapshot names for a package its record, if the package was held, and *)
(* nothing else.                                                           *)
LEMMA NamedInRoot ==
  ASSUME TypedPublication, Malformed \notin Int,
         NEW of, NEW a, NEW n, Accepted(of, a, n), NEW p \in Packages
  PROVE  /\ of[p] = Absent => Named(Root(of, a, n), p) = {}
         /\ \A x \in Named(Root(of, a, n), p) :
               /\ x \in Records(of, a, n)
               /\ x = RecordBytes(Record(p, of[p], a, n))
               /\ of[p] # Absent
         /\ of[p] # Absent => Named(Root(of, a, n), p) # {}
<1> DEFINE root == Root(of, a, n)
           S == Records(of, a, n)
<1>1. /\ \A i \in DOMAIN root.entries :
            /\ root.entries[i].sha256 \in S
            /\ root.entries[i].path = root.entries[i].sha256.package
      /\ \A x \in S : \E i \in DOMAIN root.entries :
                         root.entries[i].sha256 = x
  BY EntriesOfRoot
<1>2. /\ \A x \in S : x.package \in Packages /\ of[x.package] # Absent
      /\ \A x, y \in S : x.package = y.package => x = y
  BY RecordsInOrder
<1>3. of[p] # Absent =>
         /\ RecordBytes(Record(p, of[p], a, n)) \in S
         /\ RecordBytes(Record(p, of[p], a, n)).package = p
  BY RecordKnown
<1> HIDE DEF root, S
<1>4. \A x : x \in Named(root, p)
         <=> \E i \in DOMAIN root.entries :
                root.entries[i].path = p /\ x = root.entries[i].sha256
  BY DEF Named
<1>5. \A x \in Named(root, p) : x \in S /\ x.package = p
  BY <1>1, <1>4
<1>6. \A x \in S : x.package = p => x \in Named(root, p)
  BY <1>1, <1>4
<1>7. of[p] = Absent => Named(root, p) = {}
  BY <1>2, <1>5
<1>8. \A x \in Named(root, p) :
         /\ x \in S /\ of[p] # Absent
         /\ x = RecordBytes(Record(p, of[p], a, n))
  BY <1>2, <1>3, <1>5
<1>9. of[p] # Absent => Named(root, p) # {}
  BY <1>3, <1>6
<1> QED
  BY <1>7, <1>8, <1>9 DEF root, S

(* However the records are listed, and whatever of an earlier snapshot is  *)
(* listed with them: what is accepted is the snapshot of what is held.     *)
LEMMA EntriesAreBuilt ==
  ASSUME TypedPublication, Malformed \notin Int,
         NEW of, NEW a, NEW n, Accepted(of, a, n),
         NEW stale, IsFiniteSet(stale),
         \A x \in stale : x.package \in Packages /\ of[x.package] # Absent,
         NEW list \in SetToSeqs(Records(of, a, n) \cup stale),
         InOrder([i \in DOMAIN list |-> Entry(list[i])])
  PROVE  [i \in DOMAIN list |-> Entry(list[i])] = Root(of, a, n).entries
<1> DEFINE S == Records(of, a, n)
           U == S \cup stale
           m == Cardinality(U)
           entries == [i \in DOMAIN list |-> Entry(list[i])]
<1>1. /\ IsFiniteSet(S) /\ StrictTotalOrder(S, EarlierPackages(S))
      /\ \A x \in S : x.package \in Packages /\ of[x.package] # Absent
  BY RecordsInOrder
<1>2. \A p \in Packages : of[p] # Absent =>
         \E y \in S : y.package = p
  BY RecordKnown
<1>3. /\ list \in [1..m -> U]
      /\ \A i, j \in 1..m : i # j => list[i] # list[j]
  BY DEF SetToSeqs
<1> HIDE DEF S
<1>4. IsFiniteSet(U)
  BY <1>1, FS_Union
<1> HIDE DEF U
<1>5. m \in Nat
  BY <1>4, FS_CardinalityType
<1>6. \A x \in U : \E i \in 1..m : list[i] = x
  BY <1>3, <1>4, AllAreListed
<1>7. \A x \in U : x.package \in Int /\ x.package \in Packages
  BY <1>1 DEF TypedPublication, U
<1> DEFINE Path(i) == list[i].package
           s == [i \in 1..m |-> Path(i)]
<1>8. \A i, j \in 1..m : i < j => Path(i) < Path(j)
  <2>1. /\ DOMAIN list = 1..m /\ Len(entries) = m
    BY <1>3, <1>5
  <2>2. \A i \in 1..m : entries[i].path = Path(i)
    <3> SUFFICES ASSUME NEW i \in 1..m
                 PROVE  entries[i].path = Path(i)
      OBVIOUS
    <3>1. entries[i] = [path |-> Path(i), sha256 |-> list[i], size |-> 1]
      BY <2>1 DEF Entry
    <3> HIDE DEF entries, Path
    <3> QED
      BY <3>1
  <2>3. \A i \in 2..m : entries[i - 1].path < entries[i].path
    BY <2>1 DEF InOrder
  <2> HIDE DEF entries
  <2>4. \A i \in 2..m : Path(i - 1) < Path(i)
    <3>1. \A i \in 2..m : i - 1 \in 1..m /\ i \in 1..m
      BY <1>5
    <3> QED
      BY <2>2, <2>3, <3>1
  <2>5. \A i \in 1..m : Path(i) \in Int
    BY <1>3, <1>7
  <2> HIDE DEF Path
  <2>6. /\ \A i \in 1..m : s[i] \in Int /\ s[i] = Path(i)
        /\ \A i \in 2..m : s[i - 1] < s[i]
    <3>1. \A i \in 2..m : i - 1 \in 1..m /\ i \in 1..m
      BY <1>5
    <3> QED
      BY <2>4, <2>5, <3>1
  <2> HIDE DEF s
  <2>7. \A i, j \in 1..m : i < j => s[i] < s[j]
    BY <1>5, <2>6, AscendAllTheWay
  <2> QED
    BY <2>6, <2>7
<1>9. U = S
  <2> SUFFICES ASSUME NEW x \in stale
               PROVE  x \in S
    BY DEF U
  <2>1. PICK y \in S : y.package = x.package
    BY <1>2
  <2>2. x \in U /\ y \in U
    BY DEF U
  <2>3. PICK i \in 1..m, j \in 1..m : list[i] = x /\ list[j] = y
    BY <1>6, <2>2
  <2>4. Path(i) = Path(j) /\ Path(i) \in Int
    BY <1>7, <2>1, <2>2, <2>3
  <2> HIDE DEF Path
  <2>5. i = j
    BY <1>5, <1>8, <2>4
  <2> QED
    BY <2>3, <2>5
<1>10. Arranges(list, m, S, EarlierPackages(S))
  <2>1. \A p, q \in 1..m : p < q => <<list[p], list[q]>> \in EarlierPackages(S)
    BY <1>3, <1>8, <1>9 DEF EarlierPackages
  <2> QED
    BY <1>3, <1>6, <1>9, <2>1 DEF Arranges
<1>11. m = Cardinality(S) /\ list = InOrderOf(S, EarlierPackages(S))
  <2> HIDE DEF m
  <2> QED
    BY <1>1, <1>5, <1>10, OnlyArrangement
<1>12. DOMAIN list = 1..m
  BY <1>3
<1>13. Root(of, a, n).entries
          = [i \in 1..Cardinality(S) |->
                Entry(InOrderOf(S, EarlierPackages(S))[i])]
  BY DEF Root, S
<1> HIDE DEF m
<1> QED
  BY <1>11, <1>12, <1>13

-----------------------------------------------------------------------------
(* What holds of the registry, the exporter and the reader. *)
Archives ==
    {request.archive : request \in {r \in Requests : ValidPublishRequest(r)}}
Version == [archive : Archives, lifecycle : {"active", "yanked"},
            reason : {Absent, "reason"}]
Versions == [Packages -> Version \cup {Absent}]
StillHeld(of) == \A p \in Packages : of[p] # Absent => versions[p] # Absent

(* A snapshot of what was held, by some finding of the parts. *)
IsRoot(root, of, n) ==
    /\ of \in Versions /\ n \in Nat
    /\ ValidSnapshot(root)
    /\ \E a \in Assemblies : Accepted(of, a, n) /\ root = Root(of, a, n)
Objects(root) == {root} \cup Listed(root)

CheckpointInv ==
    LET of == selected.of
    IN  /\ selected.sequence \in Nat /\ StillHeld(of)
        /\ IF selected.sequence = 0 THEN selected.root = Absent
           ELSE /\ IsRoot(selected.root, of, selected.sequence)
                /\ Objects(selected.root) \subseteq store
ExportInv ==
    export # Absent =>
        /\ DOMAIN export = {"sequence", "root", "of", "missing"}
        /\ export.sequence = selected.sequence + 1
        /\ StillHeld(export.of)
        /\ IsRoot(export.root, export.of, export.sequence)
        /\ Objects(export.root) \subseteq store \cup export.missing
RootsInv ==
    \A build \in roots :
        IsRoot(build.root, build.of, selected.sequence + 1)
ReaderInv ==
    /\ DOMAIN client = DOMAIN Idle
    /\ client.step \in {"idle", "manifest", "record", "found"}
    /\ client.step # "idle" =>
          /\ client.package \in Packages
          /\ IsRoot(client.root, client.of, client.sequence)
          /\ Objects(client.root) \subseteq store
    /\ LET named == Named(client.root, client.package)
       IN  /\ client.step = "manifest" => client.record = Absent
           /\ client.step = "record" => client.record \in named
           /\ client.step = "found" =>
                 IF named = {} THEN client.record = Absent
                 ELSE client.record \in named
PublicationInv ==
    /\ versions \in Versions
    /\ CheckpointInv /\ ExportInv /\ RootsInv /\ ReaderInv
    /\ ReadersSeeOneState /\ ExpandsAsAnnounced

(* What the steps of the invariant take as given. *)
GivenPublication ==
    /\ TypedPublication /\ Malformed \notin Int /\ ~IsMap(Absent)
    /\ Refused \notin Int

(* Nothing is held when the registry begins. *)
LEMMA PublicationBegins ==
  ASSUME GivenPublication, SnapshotInit
  PROVE  PublicationInv
<1>1. None \in Versions
  BY DEF None, Versions
<1>2. CheckpointInv
  BY DEF SnapshotInit, CheckpointInv, StillHeld, None
<1>3. ReaderInv
  BY DEF SnapshotInit, ReaderInv, Idle
<1> QED
  BY <1>1, <1>2, <1>3
     DEF SnapshotInit, PublicationInv, ExportInv, RootsInv,
         ReadersSeeOneState, ExpandsAsAnnounced

(* A request that is accepted, and a withdrawal, leave held what is held.  *)
LEMMA VersionsChange ==
  ASSUME GivenPublication, PublicationInv,
         \/ \E request \in Requests : Publish(request)
         \/ \E package \in Packages : Withdraw(package, "yanked")
  PROVE  PublicationInv'
<1>1. versions \in Versions
  BY DEF PublicationInv
<1>2. /\ versions' \in Versions
      /\ \A p \in Packages : versions[p] # Absent => versions'[p] # Absent
  <2>1. CASE \E request \in Requests : Publish(request)
    <3>1. PICK request \in Requests : Publish(request)
      BY <2>1
    <3> DEFINE v == [archive |-> request.archive, lifecycle |-> "active",
                     reason |-> Absent]
    <3>2. v \in Version /\ v # Absent
      BY <3>1 DEF Version, Archives, Publish, IsMap, GivenPublication
    <3>3. request.package \in Packages
      BY <3>1 DEF Publish, ValidPublishRequest, Sound, GivenPublication,
                  TypedPublication
    <3>4. versions' = [versions EXCEPT ![request.package] = v]
      BY <3>1 DEF Publish
    <3> HIDE DEF v
    <3> QED
      BY <1>1, <3>2, <3>3, <3>4 DEF Versions
  <2>2. CASE \E package \in Packages : Withdraw(package, "yanked")
    <3>1. PICK p \in Packages : Withdraw(p, "yanked")
      BY <2>2
    <3> DEFINE v == [versions[p] EXCEPT !.lifecycle = "yanked",
                                        !.reason = "reason"]
    <3>2. versions[p] \in Version
      BY <1>1, <3>1 DEF Withdraw, Versions
    <3>3. v \in Version
      BY <3>2 DEF Version
    <3>4. v # Absent
      BY <3>3 DEF Version, IsMap, GivenPublication
    <3>5. versions' = [versions EXCEPT ![p] = v]
      BY <1>1, <3>1 DEF Withdraw, Versions
    <3> HIDE DEF v
    <3> QED
      BY <1>1, <3>3, <3>4, <3>5 DEF Versions
  <2> QED
    BY <2>1, <2>2
<1>3. UNCHANGED <<store, selected, export, roots, client, resolved>>
  BY DEF Publish, Withdraw
<1>4. CheckpointInv'
  BY <1>2, <1>3 DEF PublicationInv, CheckpointInv, StillHeld
<1>5. ExportInv'
  BY <1>2, <1>3 DEF PublicationInv, ExportInv, StillHeld
<1>6. RootsInv' /\ ReaderInv' /\ ReadersSeeOneState' /\ ExpandsAsAnnounced'
  BY <1>3 DEF PublicationInv, RootsInv, ReaderInv, ReadersSeeOneState,
              ExpandsAsAnnounced
<1> QED
  BY <1>2, <1>4, <1>5, <1>6 DEF PublicationInv

(* A build is a snapshot of what is held. *)
LEMMA BuildsAreRoots ==
  ASSUME GivenPublication, PublicationInv,
         NEW assembly \in Assemblies,
         NEW stale \in SUBSET Listed(selected.root),
         Build(assembly, stale)
  PROVE  PublicationInv'
<1> DEFINE n == selected.sequence + 1
           S == Records(versions, assembly, n)
<1>1. Accepted(versions, assembly, n)
  BY DEF Build, Accepted
<1>2. /\ versions \in Versions /\ CheckpointInv /\ RootsInv /\ ReaderInv
      /\ ReadersSeeOneState /\ ExpandsAsAnnounced
  BY DEF PublicationInv
<1>3. /\ IsFiniteSet(stale)
      /\ \A x \in stale : x.package \in Packages
                             /\ versions[x.package] # Absent
  <2>1. CASE selected.sequence = 0
    <3>1. stale = {}
      BY <1>2, <2>1 DEF CheckpointInv, Listed
    <3> QED
      BY <3>1, FS_EmptySet
  <2>2. CASE selected.sequence # 0
    <3> DEFINE of == selected.of
    <3>1. PICK a \in Assemblies :
             /\ Accepted(of, a, selected.sequence)
             /\ selected.root = Root(of, a, selected.sequence)
      BY <1>2, <2>2 DEF CheckpointInv, IsRoot
    <3> DEFINE T == Records(of, a, selected.sequence)
    <3>2. Listed(selected.root) = T
      BY <3>1, ListedInRoot DEF GivenPublication
    <3>3. IsFiniteSet(T)
           /\ \A x \in T : x.package \in Packages /\ of[x.package] # Absent
      BY <3>1, RecordsInOrder DEF GivenPublication
    <3> HIDE DEF T
    <3>4. IsFiniteSet(stale)
      BY <3>2, <3>3, FS_Subset
    <3>5. StillHeld(of)
      BY <1>2 DEF CheckpointInv
    <3> QED
      BY <3>2, <3>3, <3>4, <3>5 DEF StillHeld
  <2> QED
    BY <2>1, <2>2
<1>4. PICK list \in SetToSeqs(S \cup stale) :
         LET root == SnapshotBytes(
                 [registry |-> "registry", sequence |-> n,
                  entries |-> [i \in DOMAIN list |-> Entry(list[i])]])
         IN  /\ root # Refused
             /\ export' = [sequence |-> n, root |-> root, of |-> versions,
                           missing |-> (S \cup {root}) \ store]
             /\ roots' = roots \cup {[of |-> versions, root |-> root]}
  BY DEF Build
<1> DEFINE entries == [i \in DOMAIN list |-> Entry(list[i])]
           root == [registry |-> "registry", sequence |-> n,
                    entries |-> entries]
<1>5. /\ SnapshotBytes(root) # Refused
      /\ export' = [sequence |-> n, root |-> SnapshotBytes(root),
                    of |-> versions,
                    missing |-> (S \cup {SnapshotBytes(root)}) \ store]
      /\ roots' = roots
                    \cup {[of |-> versions, root |-> SnapshotBytes(root)]}
  BY <1>4
<1> HIDE DEF root
<1>6. ValidSnapshot(root) /\ SnapshotBytes(root) = root
  BY <1>5 DEF SnapshotBytes
<1>7. entries = Root(versions, assembly, n).entries
  <2>1. InOrder(entries)
    BY <1>6 DEF ValidSnapshot, root
  <2> QED
    BY <1>1, <1>3, <2>1, EntriesAreBuilt DEF GivenPublication
<1> HIDE DEF entries
<1>8. root = Root(versions, assembly, n)
  BY <1>7 DEF root, Root
<1>9. IsRoot(root, versions, n)
  <2>1. n \in Nat
    BY <1>2 DEF CheckpointInv
  <2> QED
    BY <1>1, <1>2, <1>6, <1>8, <2>1 DEF IsRoot
<1>10. Listed(root) = S
  BY <1>1, <1>8, ListedInRoot DEF GivenPublication
<1>11. /\ export' = [sequence |-> n, root |-> root, of |-> versions,
                     missing |-> (S \cup {root}) \ store]
       /\ roots' = roots \cup {[of |-> versions, root |-> root]}
       /\ UNCHANGED <<versions, store, selected, client, resolved>>
  BY <1>5, <1>6 DEF Build
<1> HIDE DEF S, n
<1>12. ExportInv'
  <2>1. /\ DOMAIN export' = {"sequence", "root", "of", "missing"}
        /\ export'.sequence = n /\ export'.root = root
        /\ export'.of = versions
        /\ export'.missing = (S \cup {root}) \ store
    BY <1>11
  <2>2. Objects(export'.root) \subseteq store' \cup export'.missing
    BY <1>10, <1>11, <2>1 DEF Objects
  <2>3. StillHeld(export.of)'
    BY <1>11, <2>1 DEF StillHeld
  <2>4. export'.sequence = selected'.sequence + 1
    BY <1>11, <2>1 DEF n
  <2>5. IsRoot(export'.root, export'.of, export'.sequence)
    BY <1>9, <2>1
  <2> QED
    BY <2>1, <2>2, <2>3, <2>4, <2>5 DEF ExportInv
<1>13. RootsInv'
  <2>1. \A build \in roots' :
           \/ build \in roots
           \/ build = [of |-> versions, root |-> root]
    BY <1>11
  <2>2. ASSUME NEW build \in roots'
        PROVE  IsRoot(build.root, build.of, n)
    <3>1. CASE build \in roots
      BY <1>2, <3>1 DEF RootsInv, n
    <3>2. CASE build = [of |-> versions, root |-> root]
      BY <1>9, <3>2
    <3> QED
      BY <2>1, <3>1, <3>2
  <2> QED
    BY <1>11, <2>2 DEF RootsInv, n
<1>14. versions' \in Versions /\ CheckpointInv' /\ ReaderInv'
        /\ ReadersSeeOneState' /\ ExpandsAsAnnounced'
  BY <1>2, <1>11 DEF CheckpointInv, StillHeld, ReaderInv,
                     ReadersSeeOneState, ExpandsAsAnnounced
<1> QED
  BY <1>12, <1>13, <1>14 DEF PublicationInv

(* The exporter stores and selects, or stops. *)
LEMMA ExporterGoesOn ==
  ASSUME GivenPublication, PublicationInv, Store \/ Select \/ Stop
  PROVE  PublicationInv'
<1>1. /\ versions \in Versions /\ CheckpointInv /\ ExportInv /\ RootsInv
      /\ ReaderInv /\ ReadersSeeOneState /\ ExpandsAsAnnounced
  BY DEF PublicationInv
<1>2. CASE Store
  <2>1. PICK object \in export.missing :
           /\ store' = store \cup {object}
           /\ export' = [export EXCEPT !.missing = @ \ {object}]
    BY <1>2 DEF Store
  <2>2. UNCHANGED <<versions, selected, roots, client, resolved>>
    BY <1>2 DEF Store
  <2>3. /\ DOMAIN export = {"sequence", "root", "of", "missing"}
        /\ export.sequence = selected.sequence + 1
        /\ StillHeld(export.of)
        /\ IsRoot(export.root, export.of, export.sequence)
        /\ Objects(export.root) \subseteq store \cup export.missing
    BY <1>1, <1>2 DEF Store, ExportInv
  <2>4. /\ DOMAIN export' = {"sequence", "root", "of", "missing"}
        /\ export'.sequence = export.sequence /\ export'.root = export.root
        /\ export'.of = export.of
        /\ export'.missing = export.missing \ {object}
    BY <2>1, <2>3
  <2>5. Objects(export'.root) \subseteq store' \cup export'.missing
    BY <2>1, <2>3, <2>4
  <2>6. ExportInv'
    BY <2>2, <2>3, <2>4, <2>5 DEF ExportInv, StillHeld
  <2>7. store \subseteq store'
    BY <2>1
  <2>8. CheckpointInv'
    BY <1>1, <2>2, <2>7 DEF CheckpointInv, StillHeld
  <2>9. ReaderInv'
    BY <1>1, <2>2, <2>7 DEF ReaderInv
  <2>10. RootsInv' /\ ReadersSeeOneState' /\ ExpandsAsAnnounced'
    BY <1>1, <2>2 DEF RootsInv, ReadersSeeOneState, ExpandsAsAnnounced
  <2> QED
    BY <1>1, <2>2, <2>6, <2>8, <2>9, <2>10 DEF PublicationInv
<1>3. CASE Select
  <2>1. /\ selected' = [sequence |-> export.sequence, root |-> export.root,
                          of |-> export.of]
        /\ export' = Absent /\ roots' = {}
        /\ UNCHANGED <<versions, store, client, resolved>>
        /\ export # Absent /\ export.missing = {}
    BY <1>3 DEF Select
  <2>2. /\ export.sequence = selected.sequence + 1
        /\ StillHeld(export.of)
        /\ IsRoot(export.root, export.of, export.sequence)
        /\ Objects(export.root) \subseteq store
    BY <1>1, <2>1 DEF ExportInv
  <2>3. /\ selected'.sequence = export.sequence
        /\ selected'.root = export.root /\ selected'.of = export.of
    BY <2>1
  <2>4. selected'.sequence \in Nat /\ selected'.sequence # 0
    BY <1>1, <2>2, <2>3 DEF CheckpointInv
  <2>5. CheckpointInv'
    BY <2>1, <2>2, <2>3, <2>4 DEF CheckpointInv, StillHeld
  <2>6. ExportInv' /\ RootsInv'
    BY <2>1 DEF ExportInv, RootsInv
  <2>7. ReaderInv' /\ ReadersSeeOneState' /\ ExpandsAsAnnounced'
    BY <1>1, <2>1 DEF ReaderInv, ReadersSeeOneState, ExpandsAsAnnounced
  <2> QED
    BY <1>1, <2>1, <2>5, <2>6, <2>7 DEF PublicationInv
<1>4. CASE Stop
  <2>1. /\ export' = Absent
        /\ UNCHANGED <<versions, store, selected, roots, client, resolved>>
    BY <1>4 DEF Stop
  <2>2. CheckpointInv' /\ ExportInv' /\ RootsInv'
    BY <1>1, <2>1 DEF CheckpointInv, ExportInv, RootsInv, StillHeld
  <2>3. ReaderInv' /\ ReadersSeeOneState' /\ ExpandsAsAnnounced'
    BY <1>1, <2>1 DEF ReaderInv, ReadersSeeOneState, ExpandsAsAnnounced
  <2> QED
    BY <1>1, <2>1, <2>2, <2>3 DEF PublicationInv
<1> QED
  BY <1>2, <1>3, <1>4

(* The snapshot that a reader takes stays in the store. *)
LEMMA ReaderTakes ==
  ASSUME GivenPublication, PublicationInv,
         NEW package \in Packages, Take(package)
  PROVE  PublicationInv'
<1>1. /\ versions \in Versions /\ CheckpointInv /\ ExportInv /\ RootsInv
  BY DEF PublicationInv
<1>2. /\ client' = [Idle EXCEPT !.step = "manifest", !.package = package,
                                !.sequence = selected.sequence,
                                !.root = selected.root,
                                !.of = selected.of]
      /\ resolved' = Absent /\ selected.sequence > 0
      /\ UNCHANGED <<versions, store, selected, export, roots>>
  BY DEF Take
<1>3. /\ DOMAIN client' = DOMAIN Idle
      /\ client'.step = "manifest" /\ client'.package = package
      /\ client'.sequence = selected.sequence
      /\ client'.root = selected.root /\ client'.of = selected.of
      /\ client'.record = Absent
  BY <1>2 DEF Idle
<1>4. /\ IsRoot(selected.root, selected.of, selected.sequence)
      /\ Objects(selected.root) \subseteq store
  BY <1>1, <1>2 DEF CheckpointInv
<1>5. ReaderInv'
  BY <1>2, <1>3, <1>4 DEF ReaderInv
<1>6. CheckpointInv' /\ ExportInv' /\ RootsInv'
  BY <1>1, <1>2 DEF CheckpointInv, ExportInv, RootsInv, StillHeld
<1>7. ReadersSeeOneState' /\ ExpandsAsAnnounced'
  BY <1>2 DEF ReadersSeeOneState, ExpandsAsAnnounced
<1> QED
  BY <1>1, <1>2, <1>5, <1>6, <1>7 DEF PublicationInv

(* The reader finds what its snapshot names. *)
LEMMA ReaderFinds ==
  ASSUME GivenPublication, PublicationInv, Find \/ FetchRecord
  PROVE  PublicationInv'
<1>1. /\ versions \in Versions /\ CheckpointInv /\ ExportInv /\ RootsInv
      /\ ReaderInv /\ ReadersSeeOneState /\ ExpandsAsAnnounced
  BY DEF PublicationInv
<1>2. UNCHANGED <<versions, store, selected, export, roots, resolved>>
  BY DEF Find, FetchRecord
<1> DEFINE named == Named(client.root, client.package)
<1>3. /\ DOMAIN client = {"step", "sequence", "root", "of", "package",
                          "record"}
      /\ client.package \in Packages
      /\ IsRoot(client.root, client.of, client.sequence)
      /\ Objects(client.root) \subseteq store
      /\ client.step = "manifest" => client.record = Absent
      /\ client.step = "record" => client.record \in named
  BY <1>1 DEF Find, FetchRecord, ReaderInv, Idle
<1>4. /\ DOMAIN client' = DOMAIN client
      /\ client'.package = client.package /\ client'.root = client.root
      /\ client'.of = client.of /\ client'.sequence = client.sequence
      /\ \/ /\ client'.step = "found" /\ named = {}
            /\ client'.record = Absent
         \/ client'.step = "record" /\ client'.record \in named
         \/ client'.step = "found" /\ client'.record \in named
  <2>1. CASE Find /\ named = {}
    <3>1. client' = [client EXCEPT !.step = "found"]
      BY <2>1 DEF Find
    <3> QED
      BY <1>3, <2>1, <3>1 DEF Find
  <2>2. CASE Find /\ named # {}
    <3>1. PICK object \in named :
             client' = [client EXCEPT !.step = "record", !.record = object]
      BY <2>2 DEF Find
    <3> QED
      BY <1>3, <3>1
  <2>3. CASE FetchRecord
    <3>1. /\ client' = [client EXCEPT !.step = "found"]
          /\ client.record \in named
      BY <1>3, <2>3 DEF FetchRecord
    <3> QED
      BY <1>3, <3>1
  <2> QED
    BY <2>1, <2>2, <2>3
<1> HIDE DEF named
<1>5. DOMAIN client' = DOMAIN Idle
  BY <1>3, <1>4 DEF Idle
<1>6. Named(client'.root, client'.package) = named
  BY <1>4 DEF named
<1>7. ReaderInv'
  BY <1>2, <1>3, <1>4, <1>5, <1>6 DEF ReaderInv
<1>8. CheckpointInv' /\ ExportInv' /\ RootsInv'
  BY <1>1, <1>2 DEF CheckpointInv, ExportInv, RootsInv, StillHeld
<1>9. ReadersSeeOneState' /\ ExpandsAsAnnounced'
  BY <1>1, <1>2 DEF ReadersSeeOneState, ExpandsAsAnnounced
<1> QED
  BY <1>1, <1>2, <1>7, <1>8, <1>9 DEF PublicationInv

(* A reader that is done has found the state of its snapshot, and what it  *)
(* writes is what was announced.                                           *)
LEMMA ReaderExpands ==
  ASSUME GivenPublication, PublicationInv, Expand
  PROVE  PublicationInv'
<1>1. /\ versions \in Versions /\ CheckpointInv /\ ExportInv /\ RootsInv
      /\ ReaderInv
  BY DEF PublicationInv
<1>2. /\ client.step = "found" /\ client' = Idle
      /\ UNCHANGED <<versions, store, selected, export, roots>>
  BY DEF Expand
<1> DEFINE of == client.of
           p == client.package
           e == client.record
           contents == Contents[e.archive.manifest]
<1>3. /\ p \in Packages /\ IsRoot(client.root, of, client.sequence)
      /\ IF Named(client.root, p) = {} THEN e = Absent
         ELSE e \in Named(client.root, p)
  BY <1>1, <1>2 DEF ReaderInv
<1>4. PICK a \in Assemblies :
         /\ Accepted(of, a, client.sequence)
         /\ client.root = Root(of, a, client.sequence)
  BY <1>3 DEF IsRoot
<1>5. /\ of[p] = Absent => e = Absent
      /\ of[p] # Absent =>
            /\ e # Absent /\ e.archive = of[p].archive
            /\ e.lifecycle = of[p].lifecycle
  <2>1. CASE of[p] = Absent
    BY <1>3, <1>4, <2>1, NamedInRoot DEF GivenPublication
  <2>2. CASE of[p] # Absent
    <3> DEFINE x == RecordBytes(Record(p, of[p], a, client.sequence))
    <3>1. /\ Named(client.root, p) # {}
          /\ \A y \in Named(client.root, p) : y = x
      BY <1>3, <1>4, <2>2, NamedInRoot DEF GivenPublication
    <3>2. /\ IsMap(x) /\ x.archive = of[p].archive
          /\ x.lifecycle = of[p].lifecycle
      BY <1>3, <1>4, <2>2, RecordKnown DEF GivenPublication
    <3> HIDE DEF x
    <3>3. e = x
      BY <1>3, <3>1
    <3>4. x # Absent
      BY <3>2 DEF GivenPublication
    <3> QED
      BY <2>2, <3>2, <3>3, <3>4
  <2> QED
    BY <2>1, <2>2
<1>6. e # Absent => TypedContents(contents)
  <2> SUFFICES ASSUME e # Absent
               PROVE  TypedContents(contents)
    OBVIOUS
  <2>1. of \in Versions /\ of[p] # Absent /\ e.archive = of[p].archive
    BY <1>3, <1>5 DEF IsRoot
  <2>2. of[p] \in Version
    BY <1>3, <2>1 DEF Versions
  <2>3. of[p].archive \in Archives
    BY <2>2 DEF Version
  <2> QED
    BY <2>1, <2>3 DEF Archives, GivenPublication, TypedPublication
<1> DEFINE Result(written, announced) ==
               [package |-> p, of |-> of, record |-> e,
                written |-> written, announced |-> announced]
<1>7. PICK written, announced :
         resolved' = Result(written, announced) /\ written = announced
  <2>1. CASE e = Absent \/ ~ValidArchiveManifest(contents)
    <3>1. resolved' = Result(0, 0)
      BY <2>1 DEF Expand
    <3> QED
      BY <3>1
  <2>2. CASE e # Absent /\ ValidArchiveManifest(contents)
    <3>1. resolved' = Result(Written(contents.entries),
                             contents.expanded_size)
      BY <2>2 DEF Expand
    <3> HIDE DEF contents
    <3>2. TypedContents(contents)
      BY <1>6, <2>2
    <3>3. contents.expanded_size = TotalFileSize(contents.entries)
      BY <2>2 DEF ValidArchiveManifest
    <3>4. TotalFileSize(contents.entries) # Refused
      BY <3>2, <3>3 DEF TypedContents, GivenPublication
    <3>5. TotalFileSize(contents.entries) = Written(contents.entries)
      BY <3>2, <3>4, SumsAgree
         DEF TypedContents, GivenPublication, TypedPublication
    <3> QED
      BY <3>1, <3>3, <3>5
  <2> QED
    BY <2>1, <2>2
<1> HIDE DEF contents
<1>8. /\ resolved'.package = p /\ resolved'.of = of /\ resolved'.record = e
      /\ resolved'.written = written /\ resolved'.announced = announced
  BY <1>7
<1>9. ReadersSeeOneState'
  BY <1>5, <1>8 DEF ReadersSeeOneState
<1>10. ExpandsAsAnnounced'
  BY <1>7, <1>8 DEF ExpandsAsAnnounced
<1>11. ReaderInv'
  BY <1>2 DEF ReaderInv, Idle
<1>12. CheckpointInv' /\ ExportInv' /\ RootsInv'
  BY <1>1, <1>2 DEF CheckpointInv, ExportInv, RootsInv, StillHeld
<1> QED
  BY <1>1, <1>2, <1>9, <1>10, <1>11, <1>12 DEF PublicationInv

(* The invariant is one. *)
LEMMA PublicationHolds ==
  ASSUME GivenPublication
  PROVE  SnapshotSpec => []PublicationInv
<1>1. SnapshotInit => PublicationInv
  BY PublicationBegins
<1>2. ASSUME PublicationInv, [SnapshotNext]_snapshotVars
      PROVE  PublicationInv'
  <2>1. CASE \/ \E request \in Requests : Publish(request)
             \/ \E package \in Packages : Withdraw(package, "yanked")
    BY <1>2, <2>1, VersionsChange
  <2>2. CASE \E assembly \in Assemblies :
                \E stale \in SUBSET Listed(selected.root) :
                   Build(assembly, stale)
    BY <1>2, <2>2, BuildsAreRoots
  <2>3. CASE Store \/ Select \/ Stop
    BY <1>2, <2>3, ExporterGoesOn
  <2>4. CASE \E package \in Packages : Take(package)
    BY <1>2, <2>4, ReaderTakes
  <2>5. CASE Find \/ FetchRecord
    BY <1>2, <2>5, ReaderFinds
  <2>6. CASE Expand
    BY <1>2, <2>6, ReaderExpands
  <2>7. CASE UNCHANGED snapshotVars
    <3>1. UNCHANGED <<versions, store, selected, export, roots, client,
                      resolved>>
      BY <2>7 DEF snapshotVars
    <3>2. CheckpointInv' /\ ExportInv' /\ RootsInv'
      BY <1>2, <3>1 DEF PublicationInv, CheckpointInv, ExportInv, RootsInv,
                        StillHeld
    <3>3. ReaderInv' /\ ReadersSeeOneState' /\ ExpandsAsAnnounced'
      BY <1>2, <3>1 DEF PublicationInv, ReaderInv, ReadersSeeOneState,
                        ExpandsAsAnnounced
    <3> QED
      BY <1>2, <3>1, <3>2, <3>3 DEF PublicationInv
  <2> QED
    BY <1>2, <2>1, <2>2, <2>3, <2>4, <2>5, <2>6, <2>7 DEF SnapshotNext
<1> QED
  BY <1>1, <1>2, PTL DEF SnapshotSpec

(* Builds of one state of the registry are one snapshot. *)
LEMMA BuildsAgree ==
  ASSUME GivenPublication, OneRelease, RootsInv
  PROVE  RebuildIsTheSame
<1> SUFFICES ASSUME NEW one \in roots, NEW two \in roots, one.of = two.of
             PROVE  one.root = two.root
  BY DEF RebuildIsTheSame
<1> DEFINE n == selected.sequence + 1
           of == one.of
<1>1. PICK a \in Assemblies : Accepted(of, a, n) /\ one.root = Root(of, a, n)
  BY DEF RootsInv, IsRoot
<1>2. PICK b \in Assemblies : Accepted(of, b, n) /\ two.root = Root(of, b, n)
  BY DEF RootsInv, IsRoot
<1> HIDE DEF n, of
<1>3. ASSUME NEW p \in Packages, of[p] # Absent
      PROVE  RecordBytes(Record(p, of[p], a, n))
                = RecordBytes(Record(p, of[p], b, n))
  <2>1. /\ ValidRecord(Record(p, of[p], a, n))
        /\ ValidRecord(Record(p, of[p], b, n))
    BY <1>1, <1>2, <1>3, RecordKnown DEF GivenPublication
  <2>2. TypedAssembly(a) /\ TypedAssembly(b)
    BY DEF GivenPublication, TypedPublication
  <2>3. ClearAssembly(a) /\ ClearAssembly(b)
    BY <2>1, <2>2, ValidIsClear
  <2>4. Parts(a) = Parts(b)
    BY <2>3 DEF OneRelease
  <2> QED
    BY <2>1, <2>2, <2>4, SameRecordBytes DEF GivenPublication
<1>4. Records(of, a, n) = Records(of, b, n)
  BY <1>3 DEF Records
<1>5. Root(of, a, n) = Root(of, b, n)
  BY <1>4 DEF Root
<1> QED
  BY <1>1, <1>2, <1>5

(* What a reader goes on to is in the store and is accepted there. *)
LEMMA StoreIsComplete ==
  ASSUME GivenPublication, PublicationInv
  PROVE  ReaderCanGoOn
<1>1. ReaderInv
  BY DEF PublicationInv
<1>2. CASE client.step = "manifest"
  BY <1>1, <1>2 DEF ReaderInv, Objects, IsRoot, ReaderCanGoOn
<1>3. CASE client.step = "record"
  <2> DEFINE of == client.of
             p == client.package
             n == client.sequence
  <2>1. /\ p \in Packages /\ IsRoot(client.root, of, n)
        /\ Objects(client.root) \subseteq store
        /\ client.record \in Named(client.root, p)
    BY <1>1, <1>3 DEF ReaderInv
  <2>2. PICK a \in Assemblies :
           Accepted(of, a, n) /\ client.root = Root(of, a, n)
    BY <2>1 DEF IsRoot
  <2>3. /\ client.record \in Records(of, a, n)
        /\ client.record = RecordBytes(Record(p, of[p], a, n))
        /\ of[p] # Absent
    BY <2>1, <2>2, NamedInRoot DEF GivenPublication
  <2>4. client.record \in store
    BY <2>1, <2>2, <2>3, ListedInRoot DEF Objects, GivenPublication
  <2>5. ValidRecord(client.record) /\ client.record.sequence = n
    BY <2>1, <2>2, <2>3, RecordKnown DEF GivenPublication
  <2>6. n \in Nat
    BY <2>1 DEF IsRoot
  <2> QED
    BY <1>3, <2>4, <2>5, <2>6 DEF ReaderCanGoOn
<1>4. CASE client.step \notin {"manifest", "record"}
  BY <1>4 DEF ReaderCanGoOn
<1> QED
  BY <1>2, <1>3, <1>4

(* What reaches a reader is what the registry held, down to the bytes of   *)
(* an archive: the whole of one state, the same however often and in       *)
(* whatever order it was written, in files as long as announced            *)
(* (RegistryIndexRecordV1, RegistryIndexSnapshotV1 and                     *)
(* RegistryArchiveManifestV1::validate).                                   *)
THEOREM PublicationIsWhole ==
  ASSUME GivenPublication, OneRelease
  PROVE  SnapshotSpec => []PublishedAsHeld
<1>1. PublicationInv => PublishedAsHeld
  BY BuildsAgree, StoreIsComplete DEF PublicationInv, PublishedAsHeld
<1>2. SnapshotSpec => []PublicationInv
  BY PublicationHolds
<1> QED
  BY <1>1, <1>2, PTL

(* Nothing that a checkpoint selects is missing or refused, whenever the   *)
(* exporter stopped and whatever it finds when it begins again: a reader   *)
(* that has begun can always go on (RegistryIndexSnapshotV1 and            *)
(* RegistryIndexRecordV1::validate, of bytes that were validated before).  *)
THEOREM NothingIsMissing ==
  ASSUME GivenPublication
  PROVE  SnapshotSpec => []ReaderCanGoOn
<1>1. PublicationInv => ReaderCanGoOn
  BY StoreIsComplete
<1>2. SnapshotSpec => []PublicationInv
  BY PublicationHolds
<1> QED
  BY <1>1, <1>2, PTL
=============================================================================
