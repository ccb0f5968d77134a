------------------------------ MODULE MCArtifacts ------------------------------
(***************************************************************************)
(* Instances of BinaryPublication, ArtifactRetrieval and VersionLists, one *)
(* scene each: a scene runs its own component, and the others stand still  *)
(* where they begin.                                                       *)
(***************************************************************************)
EXTENDS BinaryPublication, ArtifactRetrieval, VersionLists

(* Uploads: a sound one, others of the same artifact with other bytes or   *)
(* other evidence, another target, one with each defect, and one that is   *)
(* accepted although a file of it lies below another.                      *)
Package == [org |-> "acme", name |-> "tool", version |-> "1.0.0"]
PayloadFile(path, executable, size) ==
    [path |-> path, sha256 |-> <<"bytes of", path>>, size |-> size,
     executable |-> executable]
ToolFile == <<"bin/tool", "lower">>
Payload ==
    <<PayloadFile(<<".zpkg.toml", "lower">>, FALSE, 1),
      PayloadFile(ToolFile, TRUE, 1)>>
Commands == {[command |-> <<"tool", "lower">>, path |-> ToolFile]}
PayloadManifest ==
    [package |-> Package, repository |-> "repository", bin |-> Commands]
DescriptorOf(target, payload, size) ==
    [package |-> Package, platform |-> [target |-> target, attributes |-> "a"],
     packageManifest |-> <<".zpkg.toml", "lower">>, expandedSize |-> size,
     files |-> payload, entrypoints |-> Commands, source |-> Absent]
Evidence(kind, subject) ==
    [kind |-> kind, size |-> 1, subject |-> subject, sha256 |-> "evidence",
     url |-> "url"]
UploadOf(archive, evidence) ==
    LET sha == <<"sha256", archive>>
    IN  [archive |-> archive,
         meta |-> [manifest |-> archive.manifest,
                   platform |-> archive.descriptor.platform, sha256 |-> sha,
                   size |-> 1, tag |-> "v1.0.0", commit |-> Absent,
                   descriptorSha256 |-> <<"sha256", archive.descriptor>>,
                   attachments |-> [i \in DOMAIN evidence |->
                                        Evidence(evidence[i], sha)]]]
ArchiveWith(target, payload, size) ==
    [manifest |-> PayloadManifest, payload |-> payload,
     descriptor |-> DescriptorOf(target, payload, size)]
Linux == ArchiveWith("x86_64-linux", Payload, 2)
CaseClash ==
    ArchiveWith("x86_64-linux",
                <<Payload[1], PayloadFile(<<"bin/tool", "upper">>, FALSE, 1),
                  Payload[2]>>, 3)
Nested ==
    ArchiveWith("x86_64-linux",
                Append(Payload,
                       PayloadFile(<<"bin/tool/data", "lower">>, FALSE, 1)), 3)
Rebuilt ==
    ArchiveWith("x86_64-linux",
                Append(Payload, PayloadFile(<<"lib/tool", "lower">>, FALSE, 0)),
                2)
Sound ==
    {UploadOf(Linux, <<>>), UploadOf(Linux, <<"signature", "sbom">>),
     UploadOf(Rebuilt, <<>>),
     UploadOf(ArchiveWith("aarch64-linux", Payload, 2), <<"signature">>)}
Defective ==
    {UploadOf(Linux, <<"sbom", "signature">>), UploadOf(CaseClash, <<>>),
     UploadOf(Nested, <<>>),
     UploadOf(ArchiveWith("x86_64-linux", Payload, 1), <<>>),
     UploadOf(ArchiveWith("x86_64-linux",
                  <<Payload[1], PayloadFile(ToolFile, FALSE, 1)>>, 2), <<>>),
     UploadOf([Linux EXCEPT !.manifest.bin =
                  {[command |-> <<"other", "lower">>, path |-> ToolFile]}],
              <<>>),
     UploadOf(ArchiveWith("x86_64-linux",
                  <<Payload[1], PayloadFile(ToolFile, TRUE, MaxSize)>>,
                  MaxSize + 1), <<>>)}
First == CHOOSE p \in Publishers : TRUE
AllUploads == Sound \union Defective
SomeTargets == <<"aarch64-linux", "x86_64-linux">>

VARIABLE scene

-----------------------------------------------------------------------------
(* Releases: on GitHub under its own name, under another, with an account  *)
(* in the URL, and elsewhere; with the sections that matter.               *)
Org == <<"acme">>
Name == <<"widget">>
Version == <<"", "1.2.3">>
Repositories ==
    {Url("github.com", <<Org, Name>>),
     Url("github.com", <<Org, <<"repo">>>>),
     [Url("github.com", <<Org, Name>>) EXCEPT !.user = TRUE],
     Url("gitlab.com", <<Org, Name>>)}
Sections ==
    {Absent,
     [EmptySection EXCEPT !.release = FALSE, !.base = Url("own", <<>>)],
     [EmptySection EXCEPT !.packages = TRUE,
                          !.key = <<"{sha256}", "x", "{name}">>],
     [EmptySection EXCEPT !.prefix = <<"packages", "p">>],
     [EmptySection EXCEPT !.key = <<"a", "..">>]}
SomeReleases ==
    {[org |-> Org, name |-> Name, version |-> Version, tag |-> tag,
      sha |-> "sha", repo |-> repo, section |-> section,
      registry |-> Url("registry", <<>>), base |-> Absent] :
        tag \in {<<"v", "1.2.3">>}, repo \in Repositories,
        section \in Sections}
SomeMirrors ==
    {<<>>, <<ObjectStore(Url("own", <<>>)),
             [GithubReleaseOf(Url("github.com", <<Org, <<"copies">>>>))
                EXCEPT !.priority = 1]>>,
     <<[ObjectStore(Absent) EXCEPT !.kind = "directory"]>>}

Spelling(nums, pre) ==
    [v |-> FALSE, nums |-> nums, padded |-> FALSE, pre |-> pre,
     build |-> FALSE, pep |-> <<>>]
SomeSpellings ==
    {Spelling(<<1, 0, 0>>, <<>>), Spelling(<<1, 2, 0>>, <<>>),
     [Spelling(<<1, 2, 0>>, <<>>) EXCEPT !.build = TRUE],
     Spelling(<<1, 3, 0>>, <<"rc", 1>>), Spelling(<<2, 0, 0>>, <<>>),
     [Spelling(<<1, 2>>, <<>>) EXCEPT !.padded = TRUE],
     [Spelling(<<1, 1>>, <<>>) EXCEPT !.v = TRUE],
     [Spelling(<<1, 2>>, <<>>) EXCEPT !.pep = <<"rc", 2>>],
     [Spelling(<<1, 2>>, <<>>) EXCEPT !.pep = <<"post", 1>>],
     [Spelling(<<>>, <<>>) EXCEPT !.pep = <<"r", 5>>], [tag |-> "legacy"]}
SomeRequirements ==
    {[range |-> TRUE, shapedAsRange |-> TRUE, low |-> low, high |-> high] :
        low \in {<<0, 0, 0>>, <<1, 0, 0>>}, high \in {<<1, 2, 0>>, <<2, 0, 0>>}}
    \union {[range |-> FALSE, shapedAsRange |-> shaped, want |-> want] :
        shaped \in BOOLEAN, want \in {[tag |-> "legacy"]}}

-----------------------------------------------------------------------------
mcVars == <<scene, binaryVars, retrievalVars, listVars>>
NoBinary ==
    BinaryInit /\ \A p \in Publishers : upload[p] = UploadOf(Linux, <<>>)
Somewhere == CHOOSE r \in SomeReleases : r.section = Absent
NoRetrieval ==
    RetrievalInit /\ release = Somewhere /\ declared = <<>> /\ query = Somewhere
NoList ==
    /\ ListInit /\ scheme = "semver"
    /\ requirement = CHOOSE r \in SomeRequirements : r.range

MCInit ==
    \/ /\ scene = "binary" /\ BinaryInit /\ NoRetrieval /\ NoList
       /\ \A p \in Publishers \ {First} : upload[p] \in Sound
    \/ scene = "retrieval" /\ RetrievalInit /\ NoBinary /\ NoList
    \/ scene = "lists" /\ ListInit /\ NoBinary /\ NoRetrieval

BinaryStep ==
    /\ scene = "binary" /\ BinaryNext
    /\ UNCHANGED <<scene, retrievalVars, listVars>>
RetrievalStep ==
    /\ scene = "retrieval" /\ RetrievalNext
    /\ UNCHANGED <<scene, binaryVars, listVars>>
ListStep ==
    /\ scene = "lists" /\ ListNext
    /\ UNCHANGED <<scene, binaryVars, retrievalVars>>

MCSpec ==
    /\ MCInit /\ [][BinaryStep \/ RetrievalStep \/ ListStep]_mcVars
    /\ \A p \in Publishers : WF_binaryVars(scene = "binary" /\ Progress(p))
    /\ \A c \in Installers : WF_binaryVars(scene = "binary" /\ Install(c))
    /\ WF_retrievalVars(scene = "retrieval" /\ Retrieve)

(* Every publisher is answered, and every locked artifact can be installed *)
(* for ever, yanked or not (is_idempotent_with, and the records of         *)
(* binary_artifact.rs that a client locks), unless it has a file below     *)
(* another.                                                                *)
EveryoneIsServedThere == scene = "binary" => EveryoneIsServed
=============================================================================
