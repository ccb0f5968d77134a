------------------------------ MODULE MCInterop ------------------------------
(***************************************************************************)
(* An instance of Interop, with a scene for each of its components: a      *)
(* scene runs its own component, and the variables of the others have no   *)
(* value.                                                                  *)
(***************************************************************************)
EXTENDS InteropProofs

VARIABLE scene

-----------------------------------------------------------------------------
(* Native requirements: every operator with every kind of body, pairs of   *)
(* words, operators that stand alone, and what is not a range.             *)
Body(parts, pre) ==
    [v |-> FALSE, parts |-> parts, pre |-> pre, build |-> FALSE]
Word(op, body) == [op |-> op, body |-> body]
Bare(op) == Word(op, Absent)
RangeOf(words) == [form |-> "range", segments |-> <<words>>]
Operators == {"", "=", "^", "~", ">", ">=", "<", "<="}
Bodies ==
    {Body(parts, 0) : parts \in
        {<<1>>, <<0>>, <<0, 1>>, <<0, 0>>, <<1, 0>>, <<1, 1, 0>>, <<0, 1, 0>>,
         <<1, Star>>, <<1, Ex, Ex>>, <<Star>>, <<1, Star, 1>>, <<2>>,
         <<0, 2>>, <<3>>}}
    \union {Body(<<1, 0, 0>>, 1), Body(<<1>>, 1),
            [Body(<<1, 0, 0>>, 0) EXCEPT !.v = TRUE],
            [Body(<<1, 0, 0>>, 0) EXCEPT !.build = TRUE]}
From == Word(">=", Body(<<1, 0, 0>>, 1))
Below == Word("<", Body(<<1, 1>>, 0))
SomeDeclarations ==
    {RangeOf(<<Word(op, body)>>) : op \in Operators, body \in Bodies}
    \union {RangeOf(<<From, Below>>),
            RangeOf(<<Below, Word("^", Body(<<0>>, 0))>>),
            RangeOf(<<Bare(">="), Word("", Body(<<1>>, 0)), Below>>),
            RangeOf(<<Bare(">="), Below>>), RangeOf(<<Bare(">=")>>),
            RangeOf(<<From, Word("", Body(<<Star>>, 0))>>),
            RangeOf(<<From, Word("^", Body(<<1>>, 0))>>),
            [form |-> "range", segments |-> <<<<From>>, <<Below>>>>],
            [form |-> "union", segments |-> <<>>]}
MixedDeclarations == {RangeOf(<<From, Word("^", Body(<<1>>, 0))>>)}
SomeRevisions ==
    {RangeOf(<<Word("=", Body(<<1, 0>>, 0))>>), RangeOf(<<From, Below>>)}
Artifact == [sha256 |-> "digest", size |-> 1]
Candidate(nums, pre) ==
    [version |-> [nums |-> nums, pre |-> pre, build |-> FALSE],
     artifact |-> Artifact]
SomeCandidates ==
    {Candidate(<<0, 1, 0>>, 0), Candidate(<<0, 1, 1>>, 0),
     Candidate(<<1, 0, 0>>, 1), Candidate(<<1, 0, 0>>, 2),
     Candidate(<<1, 0, 0>>, 0), Candidate(<<1, 0, 1>>, 0),
     Candidate(<<1, 1, 0>>, 0), Candidate(<<2, 0, 0>>, 0),
     [Candidate(<<1, 1, 1>>, 0) EXCEPT !.version.build = TRUE],
     Candidate(<<1, 3, 0>>, 0)}
SomePackage == [letters |-> "lower", scoped |-> FALSE, order |-> 0]

(* Families: two platforms and their meta package, in several orders, and  *)
(* with the selections of the platforms exchanged.                         *)
Named(n) == [letters |-> "lower", scoped |-> FALSE, order |-> n]
FirstRelease == [nums |-> <<1, 0, 0>>, pre |-> 0, build |-> FALSE]
Publication(n, kind, platform, selections) ==
    [package |-> [name |-> Named(n), version |-> FirstRelease], kind |-> kind,
     platform |-> platform, selections |-> selections, artifact |-> Artifact]
Select(platform, n) == [platform |-> platform, package |-> Named(n)]
ForLinux == Publication(1, "platform", 1, <<>>)
ForDarwin == Publication(2, "platform", 2, <<>>)
MetaOf(selections) == Publication(3, "meta", Absent, selections)
FamilyOf(publications) ==
    [registry |-> "npm", source |-> FirstRelease, publications |-> publications]
Linux == Select(1, 1)
Darwin == Select(2, 2)
SomeFamilies ==
    {FamilyOf(<<MetaOf(<<Linux, Darwin>>), ForLinux, ForDarwin>>),
     FamilyOf(<<ForDarwin, MetaOf(<<Darwin, Linux>>), ForLinux>>),
     FamilyOf(<<ForDarwin, MetaOf(<<Select(1, 2), Select(2, 1)>>), ForLinux>>),
     FamilyOf(<<MetaOf(<<Linux>>), ForLinux, ForDarwin>>),
     FamilyOf(<<MetaOf(<<Linux, Darwin>>), ForLinux>>),
     FamilyOf(<<Publication(3, "portable", Absent, <<>>)>>),
     FamilyOf(<<ForLinux, Publication(2, "platform", 1, <<>>)>>),
     FamilyOf(<<ForLinux, [ForDarwin EXCEPT !.package.version.pre = 1]>>)}

-----------------------------------------------------------------------------
(* OCI: one registry with a port, one without; two layers of one kind for  *)
(* two platforms, in both orders, and for one.                             *)
SomeLayout == <<"d1", "d2", "d3", "d4", "d5", "d6", "d7", "d8">>
SomeDigests == ToSet(SomeLayout)
Descriptor(media, digest) ==
    [media |-> media, digest |-> digest, size |-> 1, notes |-> "sound"]
Layer(kind, digest, platform) ==
    [kind |-> kind, descriptor |-> Descriptor(<<"layer", kind>>, digest),
     platform |-> platform]
OnAmd == [order |-> 1, valid |-> TRUE]
OnArm == [order |-> 2, valid |-> TRUE]
Reference(registry, repository, tag, digest) ==
    [registry |-> registry, repository |-> repository, tag |-> tag,
     digest |-> digest]
OciRecord(reference, digest, layers) ==
    [package |-> [valid |-> TRUE], reference |-> reference,
     manifest |-> Descriptor(<<"oci", "manifest">>, digest),
     config |-> Descriptor(<<"zed", "config">>, "d6"), layers |-> layers,
     subject |-> Absent, annotations |-> "sound"]
Amd == Layer("binary", "d3", OnAmd)
Arm == Layer("binary", "d4", OnArm)
Sbom == Layer("spdx", "d5", Absent)
Port == <<"host", ":", "5000">>
Deep == <<"acme", "/", "tool">>
SomeOciRecords ==
    {OciRecord(Reference(Port, Deep, <<"v1">>, "d1"), "d1", layers) :
        layers \in {<<Amd, Arm, Sbom>>, <<Sbom, Arm, Amd>>}}
    \union
    {OciRecord(Reference(<<"host">>, <<"acme">>, Absent, "d2"), "d2", <<Arm>>),
     OciRecord(Reference(Port, Deep, <<"v1">>, "d2"), "d1", <<Amd, Arm, Sbom>>),
     OciRecord(Reference(Port, Deep, <<"v1">>, Absent), "d2", <<Arm>>),
     OciRecord(Reference(Port, <<"acme">>, <<"v1">>, "d8"), "d8",
               <<Amd, [Arm EXCEPT !.platform = OnAmd]>>),
     OciRecord(Reference(Port, <<"acme">>, <<"v1">>, "d7"), "d7", <<Sbom>>)}

-----------------------------------------------------------------------------
(* Claims at four providers, found in two orders, and plans with defects.  *)
Shapes == <<"scope", "slug", "slug-">>
Text(shape) ==
    [shape |-> shape, text |-> CHOOSE i \in 1..3 : Shapes[i] = shape]
Warning(n) == [shape |-> "words", text |-> 3 + n]
Entry(provider, coordinate, disposition, proofs, steps) ==
    [provider |-> provider,
     model |-> CASE provider = "npm" -> "scope"
                 [] provider = "crates-io" -> "package names"
                 [] provider = "pub-dev" -> "publisher"
                 [] provider = "github" -> "organization",
     coordinate |-> coordinate,
     prefix |-> IF provider = "crates-io" THEN Text("slug-") ELSE Absent,
     automation |-> IF provider = "crates-io" THEN "not-reservable"
                    ELSE "manual-web-flow",
     disposition |-> disposition, proofs |-> proofs, steps |-> steps,
     warnings |-> IF Len(proofs) # 2 THEN <<>>
                  ELSE <<Warning(proofs[1]), Warning(proofs[2]), Warning(1)>>]
NpmEntry(proofs) ==
    Entry("npm", Text("scope"), "actionable", proofs,
          <<"check-availability", "create">>)
CratesEntry ==
    Entry("crates-io", Absent, "not-reservable", <<>>, <<"publish">>)
PubEntry ==
    Entry("pub-dev", Absent, "missing-prerequisite", <<1>>, <<"verify">>)
HubEntry ==
    Entry("github", Text("slug"), "manual-action-required", <<>>, <<"create">>)
PlanWith(providers, entries, warnings) ==
    [request |-> [brand |-> Text("slug"), domain |-> Absent, owner |-> Absent,
                  providers |-> providers],
     entries |-> entries, warnings |-> warnings]
PlanOf(providers, entries) == PlanWith(providers, entries, <<>>)
SomePlans ==
    {PlanWith(<<"npm", "crates-io", "github">>,
              <<NpmEntry(<<1, 2>>), HubEntry, CratesEntry>>,
              <<Warning(1), Warning(2)>>),
     PlanWith(<<"github", "npm", "crates-io">>,
              <<CratesEntry, NpmEntry(<<2, 1>>), HubEntry>>,
              <<Warning(2), Warning(1)>>),
     PlanOf(<<"npm", "pub-dev">>, <<NpmEntry(<<1>>), PubEntry>>),
     PlanOf(<<"npm", "pub-dev">>, <<NpmEntry(<<1>>)>>),
     PlanOf(<<"npm">>, <<NpmEntry(<<1>>), PubEntry>>),
     PlanOf(<<"crates-io">>,
            <<[CratesEntry EXCEPT !.coordinate = Text("slug")]>>)}

-----------------------------------------------------------------------------
(* Nix: plans for two systems and two outputs, written in two orders, for  *)
(* another class, and with defects; outputs built again and listed in two  *)
(* orders, for a system that no plan announces, and one that refers to     *)
(* itself.                                                                 *)
SomeNixWords ==
    <<"aarch64-linux", "dev", "key-1", "key-2", "out", "packages", "s1", "s2",
      "s3", "s4", "tool", "x86_64-darwin", "x86_64-linux">>
SomeNixSystems == {"aarch64-linux", "x86_64-darwin", "x86_64-linux"}
SomeNixNames == SomeNixSystems \union {"dev", "out", "packages", "tool"}
ToolPackage == [org |-> <<"acme">>, name |-> <<"tool">>,
                version |-> <<"1">>, target |-> Absent]
NixIntent(systems, outputs) ==
    [attribute |-> <<"tool">>, systems |-> systems, outputs |-> outputs]
NixDraft(systems, outputs, bins) ==
    [schema |-> "zed.nix-export-plan/v1", package |-> ToolPackage,
     class |-> IF DOMAIN bins = {} THEN "data" ELSE "prebuilt-bin",
     intent |-> NixIntent(systems, outputs),
     source |-> [file_name |-> <<"acme", "-", "tool", "-", "1", ".", "zip">>,
                 artifact |-> [format |-> "zip", sha256 |-> "artifact",
                               size |-> 1],
                 manifest |-> "manifest", lock |-> "lock"],
     bins |-> bins, dependencies |-> <<>>,
     policy |-> [profile |-> "strict-v1", pure |-> TRUE,
                 import_from_derivation |-> FALSE, sandbox |-> TRUE,
                 network |-> "disabled", dirty |-> FALSE,
                 publishable |-> TRUE]]
Both == <<"x86_64-linux", "aarch64-linux">>
ToolBin(path) == [tool |-> path]
InBin == <<<<"bin">>, <<"tool">>>>
DataDraft == NixDraft(Both, <<"out">>, <<>>)
SlashedDraft ==
    [DataDraft EXCEPT
       !.package.version = <<"1", "/", "2">>,
       !.source.file_name =
          <<"acme", "-", "tool", "-", "1", "/", "2", ".", "zip">>]
SomeNixDrafts ==
    {NixDraft(systems, outputs, ToolBin(InBin)) :
        systems \in {Both, Reverse(Both)},
        outputs \in {<<"out", "dev">>, <<"dev", "out">>}}
    \union {NixDraft(Both, <<"out">>, ToolBin(path)) :
               path \in {<<<<"bin", "tool">>>>, <<<<".", "..">>, <<"tool">>>>,
                         <<<<"..">>, <<"tool">>>>, <<<<"bin">>, <<"">>>>,
                         <<<<".">>, <<"tool">>>>, <<>>}}
    \union {NixDraft(Both, <<"out">>,
                     [tool |-> InBin, kit |-> <<<<"bin">>, <<"kit">>>>]),
            DataDraft, SlashedDraft,
            NixDraft(<<"x86_64-linux", "x86_64-linux">>, <<"out">>, <<>>),
            [DataDraft EXCEPT !.class = "prebuilt-bin"],
            [DataDraft EXCEPT !.source.file_name[1] = "other"],
            [DataDraft EXCEPT !.policy.profile = "development",
                              !.policy.publishable = FALSE],
            [DataDraft EXCEPT !.intent.attribute = <<"default">>]}
RefersTo(paths) ==
    [i \in DOMAIN paths |-> [store_path |-> paths[i], nar |-> "nar"]]
Built(system, output, store_path, refers, signatures) ==
    [system |-> system, output |-> output, store_path |-> store_path,
     derivation |-> "derivation", nar |-> "nar",
     references |-> RefersTo(refers), signatures |-> signatures,
     nix_version |-> "2", info_version |-> 3]
SomeResults ==
    {Built("aarch64-linux", "out", "s1", <<"s4", "s3">>, <<"key-1">>),
     Built("aarch64-linux", "out", "s1", <<"s3", "s4">>, <<"key-1">>),
     Built("x86_64-linux", "out", "s2", <<>>, <<"key-2", "key-1">>),
     Built("x86_64-linux", "out", "s3", <<"s3">>, <<>>),
     Built("x86_64-linux", "dev", "s4", <<>>, <<>>),
     Built("x86_64-darwin", "out", "s2", <<>>, <<>>)}

-----------------------------------------------------------------------------
mcVars == <<scene, nativeVars, ociVars, claimVars, nixVars>>

MCInit ==
    \/ /\ scene = "dependency" /\ DependencyInit /\ NoFamily
       /\ NoOci /\ NoClaims /\ NoNix
    \/ /\ scene = "family" /\ NoDependency /\ FamilyInit
       /\ NoOci /\ NoClaims /\ NoNix
    \/ /\ scene = "oci" /\ NoDependency /\ NoFamily
       /\ OciInit /\ NoClaims /\ NoNix
    \/ /\ scene = "claims" /\ NoDependency /\ NoFamily
       /\ NoOci /\ ClaimInit /\ NoNix
    \/ /\ scene = "nix" /\ NoDependency /\ NoFamily
       /\ NoOci /\ NoClaims /\ NixInit

(* Once a version is locked, versions are yanked only. *)
DependencyStep ==
    /\ scene = "dependency" /\ DependencyNext
    /\ lock # Absent => released' \subseteq released
    /\ UNCHANGED <<scene, ociVars, claimVars, nixVars>>
FamilyStep ==
    /\ scene = "family" /\ FamilyNext
    /\ UNCHANGED <<scene, ociVars, claimVars, nixVars>>
OciStep ==
    /\ scene = "oci" /\ OciNext
    /\ UNCHANGED <<scene, nativeVars, claimVars, nixVars>>
ClaimStep ==
    /\ scene = "claims" /\ ClaimNext
    /\ UNCHANGED <<scene, nativeVars, ociVars, nixVars>>
NixStep ==
    /\ scene = "nix" /\ NixNext
    /\ UNCHANGED <<scene, nativeVars, ociVars, claimVars>>

(* An adapter that has a plan goes on with it. *)
MCSpec ==
    /\ MCInit
    /\ [][DependencyStep \/ FamilyStep \/ OciStep \/ ClaimStep
          \/ NixStep]_mcVars
    /\ \A p \in {"npm", "crates-io", "pub-dev", "github"} :
          WF_claimVars(scene = "claims" /\ Adapter(p))

(* What the theorems ask of documents and requests holds of these: their   *)
(* types, and what a digest, a store path and a version decide.  They ask  *)
(* besides that a refusal, here a model value, is no list and no map.      *)
KnownTexts ==
    {Text(shape) : shape \in {"scope", "slug", "slug-"}}
    \union {Warning(n) : n \in 1..2}
ASSUME AsTheTheoremsAssume ==
    /\ Numbered(KnownTexts)
    /\ \A plan \in SomePlans : TypedPlan(plan, KnownTexts)
    /\ TypedFamilies /\ OnePlatformEach
    /\ TypedOci
    /\ \A r, s \in SomeOciRecords : r.manifest.digest = s.manifest.digest
          => LayerSet(r) = LayerSet(s)
    /\ TypedNix /\ PathsDecide
    /\ \A plan \in SomeNixDrafts : TypedCommands(plan)

(* Every provider of a request has an answer in the end, good or bad: for  *)
(* each entry that a plan may have there is a receipt that is valid        *)
(* (RegistryNamespacePlan::validate, and that of the receipts).            *)
EveryProviderIsAnswered ==
    \A p \in {"npm", "crates-io", "pub-dev", "github"} :
        (scene = "claims" /\ Requested(p))
            ~> (scene = "claims" /\ Answered(p))
=============================================================================
