--------------------------- MODULE MCRegistryTrust ---------------------------
(***************************************************************************)
(* Small instances of RegistryTrust and of RegistryPublication, a scene    *)
(* each; what the other scenes are about stays as it began.                *)
(*                                                                         *)
(* In "ceremony" three roots sign the drafts of one document; in "chain"   *)
(* two roots sign two, and checkpoints are published; "rotation" has       *)
(* constants of its own; "snapshots" is what the checkpoints stand for.    *)
(***************************************************************************)
EXTENDS RegistryTrustProofs

CONSTANT Scenes

VARIABLE scene

Active(key) == [key_id |-> key, state |-> "active"]
Retired(key) == [key_id |-> key, state |-> "retired"]

MCRegistries == {Home, Elsewhere}

OneRoot == 1..1
TwoRoots == 1..2
ThreeRoots == 1..3
MCKeyIds == 1..2

Text(keys, expires) ==
    [signing_keys |-> keys, expires_at |-> expires, sound |-> TRUE]

(* The ceremony: a draft, its revision with another key, one that is not   *)
(* sound.                                                                  *)
CeremonyDrafts ==
    {Text(<<Active(1)>>, 1), Text(<<Active(2), Retired(1)>>, 1),
     [Text(<<Active(1)>>, 1) EXCEPT !.sound = FALSE]}

(* The chain: a key list out of order, and its successor. *)
ChainDrafts == {Text(<<Active(2), Active(1)>>, 1)}

(* A rotation from key 1 to key 2, early or late, and a list merged from   *)
(* two that has a key in both states.                                      *)
RotationDrafts ==
    {Text(<<Active(1)>>, 1), Text(<<Active(1)>>, 2),
     Text(<<Active(2), Retired(1)>>, 3),
     Text(<<Retired(1), Active(1)>>, 3)}

CeremonyOrChain == CeremonyDrafts \cup ChainDrafts

One == {1}
Late == {3}
-----------------------------------------------------------------------------
(* Two versions of one package, one of another, a request that is refused; *)
(* parts of records in two orders, and a dependency that is twice there;   *)
(* contents that are announced well, or not.                               *)
Archive(n) == [sha256 |-> n, manifest |-> n, size |-> 1]
SomeRequests ==
    {[package |-> 1, archive |-> Archive(1), precondition |-> Absent],
     [package |-> 1, archive |-> Archive(2), precondition |-> Absent],
     [package |-> 2, archive |-> Archive(3), precondition |-> 1],
     [package |-> 2, archive |-> [Archive(3) EXCEPT !.size = 0],
      precondition |-> Absent]}

Dependency(package, features) ==
    [package |-> package, requirement |-> "^1", features |-> features]
Assembly(dependencies, list) ==
    [dependencies |-> dependencies, targets |-> list, features |-> list]
SomeAssemblies ==
    {Assembly(<<Dependency(3, <<1, 2>>), Dependency(4, <<>>)>>, <<1, 2>>),
     Assembly(<<Dependency(4, <<>>), Dependency(3, <<2, 1>>)>>, <<2, 1>>),
     Assembly(<<Dependency(3, <<1>>), Dependency(3, <<2>>)>>, <<1, 2>>)}

File(path, size) == [path |-> path, mode |-> 420, kind |-> "file",
                     size |-> size, sha256 |-> "digest", link |-> Absent]
Content(expanded, entries) ==
    [archive |-> "digest", expanded_size |-> expanded, entries |-> entries]
Link == [path |-> 3, mode |-> 420, kind |-> "symlink", size |-> 0,
         sha256 |-> Absent, link |-> "target"]
SomeContents ==
    <<Content(3, <<File(1, 1), File(2, 2), Link>>),
      Content(0, <<File(1, 1), File(2, 3)>>),
      Content(1, <<File(2, 1), [Link EXCEPT !.size = 1]>>)>>

(* The hypotheses of the theorems about what is published. *)
ASSUME AsTheTheoremsAssume == TypedPublication /\ OneRelease

-----------------------------------------------------------------------------
(* In the ceremony one document is made, and no checkpoint.  In the chain  *)
(* the third root is not asked, and no third signature is attached.        *)
InScene ==
    /\ scene = "ceremony" =>
          /\ history = <<>>
          /\ released # <<>> => draft = NoDiscovery
          /\ draft # NoDiscovery =>
                draft.signing_keys \in {d.signing_keys : d \in CeremonyDrafts}
    /\ scene = "chain" =>
          /\ \A approval \in approvals : approval.key_id \in TwoRoots
          /\ draft # NoDiscovery =>
                /\ draft.signing_keys \in {d.signing_keys : d \in ChainDrafts}
                /\ Len(draft.root_signatures) <= 2

mcVars == <<scene, vars, snapshotVars>>
MCInit == scene \in Scenes /\ Init /\ SnapshotInit
TrustStep ==
    /\ scene # "snapshots"
    /\ Next /\ UNCHANGED <<scene, snapshotVars>> /\ InScene'
SnapshotStep ==
    scene = "snapshots" /\ SnapshotNext /\ UNCHANGED <<scene, vars>>
MCSpec == MCInit /\ [][TrustStep \/ SnapshotStep]_mcVars /\ Fairness
=============================================================================
