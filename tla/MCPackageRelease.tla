-------------------------- MODULE MCPackageRelease --------------------------
(***************************************************************************)
(* Small instances of PackageRelease and of Lockfile, each a scene: the    *)
(* variables of the other stay as they are at first.                       *)
(***************************************************************************)
EXTENDS PackageRelease, Lockfile

VARIABLE scene

-----------------------------------------------------------------------------
(* Manifests: one package for every registry, and packages with up to      *)
(* three targets.                                                          *)

MCReserved == {<<".git">>, <<".zed", "tools">>}
MCKeyOrder == <<"go", "java", "js", "nodejs", "rust-wasm", "ts", "universal",
                "widget">>
Named2(token) == [token |-> token, exact |-> TRUE]
MCRequests ==
    {Named2(token) : token \in {"js", "node", "java", "go", "widget"}} \cup
    {[token |-> "java", exact |-> FALSE]}

Pkg(shape, mark) == [shape |-> shape, id |-> "client", upper |-> FALSE,
                     mark |-> mark]
Loud(package) == [package EXCEPT !.upper = TRUE]
Identity(registry) ==
    CASE registry = "maven-central" -> Pkg("group:name", "")
      [] registry \in {"clojars", "packagist", "go-proxy", "vcs"}
              -> Pkg("group/name", "")
      [] registry = "swift-package-index" -> Pkg("plain", ".")
      [] OTHER -> Pkg("plain", "")
Native(registry, forge) ==
    [registry |-> registry, package |-> Identity(registry),
     tag_format |-> Absent, forge |-> forge, channel |-> "stable"]
NativeOf(registry, package) ==
    [Native(registry, <<>>) EXCEPT !.package = package]

NoHooks == [pre_install |-> <<>>, post_install |-> <<>>]
NoTable == [k \in {} |-> Absent]
Plain ==
    [package |-> [org |-> <<"acme">>, name |-> <<"kit">>, kind |-> Absent,
                  version |-> "1.0", repository |-> "url",
                  artifacts |-> "default", language |-> Universal,
                  ecosystem |-> Universal],
     dependencies |-> NoTable, build_dependencies |-> NoTable,
     tool_dependencies |-> NoTable, native_dependencies |-> NoTable,
     hooks |-> NoHooks, lifecycle |-> NoTable, build |-> Absent,
     overrides |-> [build |-> NoTable, path |-> NoTable], bin |-> NoTable,
     publish |-> [tag_format |-> [prefix |-> <<>>, versioned |-> TRUE],
                  smoke_test_windows |-> Absent, native |-> Absent,
                  nix |-> Absent],
     interop |-> [consume_gitmodules |-> FALSE,
                  source_composition |->
                      [checkout_dir |-> Absent, git_submodule_dir |-> Absent,
                       sources |-> NoTable],
                  flags_2_env |-> [config |-> Absent, bins |-> <<>>]],
     install |-> [dir |-> Absent, adapter |-> Absent, target |-> Absent],
     workspace |-> <<>>, targets |-> NoTable]

Section(dir) ==
    [dir |-> dir, kind |-> Absent, name |-> Absent, adapter |-> Absent,
     native |-> Absent, nix |-> Absent, native_dependencies |-> NoTable,
     hooks |-> NoHooks, ecosystem |-> Universal]

(* One package for each registry, and some that no registry takes. *)
ForRegistry(native) == [Plain EXCEPT !.publish.native = native]
RegistryDrafts == {ForRegistry(Native(host, <<>>)) : host \in Hosts}
ForgeDrafts ==
    {ForRegistry(Native("npm", <<"nexus", "github_packages">>)),
     ForRegistry(Native("npm", <<"nexus", "nexus">>)),
     ForRegistry(Native("crates-io", <<"github_packages">>)),
     ForRegistry(NativeOf("hex", Loud(Pkg("plain", "")))),
     ForRegistry([Native("crates-io", <<>>) EXCEPT !.channel = "snapshot"]),
     [ForRegistry(Native("pypi", <<>>)) EXCEPT !.package.language = "rust"]}

(* Targets: a section for some keys. *)
Polyglot(sections) == [Plain EXCEPT !.targets = sections]
Two(a, one, b, two) == Polyglot([k \in {a, b} |-> IF k = a THEN one ELSE two])
Lib(key) == Section(<<"lib", key>>)

Apt(packages) == [manager \in {"apt"} |-> packages]
Brew(packages) == [manager \in {"brew"} |-> packages]
Npm == [Lib("ts") EXCEPT !.native = Native("npm", <<"nexus">>),
                         !.native_dependencies = Apt(<<"curl", "node">>),
                         !.hooks.post_install = <<"link">>,
                         !.kind = "sdk", !.adapter = "node"]
Maven == [Lib("java") EXCEPT !.native = Native("maven-central",
                                               <<"github_packages">>),
                             !.native_dependencies = Brew(<<"jdk">>),
                             !.hooks.pre_install = <<"check">>]
Go(tag) == [Lib("go") EXCEPT !.native = [Native("go-proxy", <<>>) EXCEPT
                                            !.tag_format = tag]]
GoTag(prefix) == [prefix |-> prefix, versioned |-> TRUE]

Hook(config) == [phase \in {"pre-build"} |->
                    [form |-> "config", config |-> config]]
Step == [command |-> "make", command_windows |-> "nmake",
         outputs |-> <<<<"out">>>>,
         outputs_windows |-> <<<<"out", "windows">>>>]

Dressed(m) ==
    [m EXCEPT !.native_dependencies = Apt(<<"curl">>),
              !.hooks.pre_install = <<"prepare">>,
              !.hooks.post_install = <<"done">>,
              !.package.kind = "lib", !.workspace = <<"lib">>,
              !.build = Step, !.lifecycle = Hook(PlainConfig),
              !.overrides.build = [k \in {"acme/a"} |-> Step]]
Nix(attribute) == [attribute |-> attribute, systems |-> <<"x86_64-linux">>,
                   outputs |-> <<"out">>]

PolyglotDrafts ==
    {Dressed(Two("ts", Npm, "java", Maven)),
     [Dressed(Two("ts", Npm, "java", Maven)) EXCEPT
         !.package.language = "python"],
     Dressed(Two("js", Lib("js"), "ts", Npm)),
     Dressed(Two("js", Lib("js"), "nodejs", Npm)),
     Two("go", Go(GoTag(<<"lib", "go">>)), "ts", Npm),
     Two("go", Go(GoTag(<<>>)), "ts", Npm),
     Two("go", Go(Absent), "ts", Npm),
     Two("universal", Section(Dot), "ts", Npm),
     Two("universal", [Section(Dot) EXCEPT !.name = <<"other">>], "ts", Npm),
     Two("universal", [Section(Dot) EXCEPT !.native = Native("npm", <<>>)],
         "java", Maven),
     Two("rust-wasm", [Lib("wasm") EXCEPT !.native = Native("npm", <<>>)],
         "java", Maven),
     Two("rust-wasm", [Lib("wasm") EXCEPT !.ecosystem = "cargo",
                           !.native = Native("crates-io", <<>>)],
         "java", [Maven EXCEPT !.name = <<"kit", "rust-wasm">>]),
     Two("rust-wasm", [Lib("wasm") EXCEPT !.ecosystem = "cargo",
                           !.native = Native("crates-io", <<>>)],
         "java", [Maven EXCEPT !.name = <<"kit", "jvm">>]),
     Two("java", Maven, "ts", [Npm EXCEPT !.dir = <<"lib", "java">>]),
     Two("java", Maven, "ts", [Npm EXCEPT !.native = Maven.native]),
     Two("java", [Maven EXCEPT !.nix = Nix(Absent)],
         "ts", [Npm EXCEPT !.nix = Nix(<<"kit", "java">>)]),
     Two("java", [Maven EXCEPT !.nix = Nix(Absent)],
         "ts", [Npm EXCEPT !.nix = Nix(Absent)]),
     Two("java", Maven, "ts", [Npm EXCEPT !.adapter = "cobol"]),
     Two("java", Maven, "ts", [Npm EXCEPT !.name = <<"kit">>]),
     Two("java", Maven,
         "ts", [Npm EXCEPT !.native_dependencies = Apt(<<"a", "a">>)])}

(* Other parts of a manifest, each once sound and once not. *)
Composed(sources) ==
    [Plain EXCEPT !.interop.source_composition.sources = sources]
Source(path) ==
    [vcs |-> "git", url |-> "url", role |-> "workspace",
     projection |-> "checkout", path |-> path, package |-> "acme/one",
     revision |-> Absent, branch |-> "main"]
Sources(one, two) == [name \in {"one", "two"} |-> IF name = "one" THEN one
                                                 ELSE two]
Other == [Source(Absent) EXCEPT !.package = Absent, !.role = "legacy"]
OtherDrafts ==
    {Composed(Sources(Source(Absent), Other)),
     Composed(Sources(Source(<<"a">>), [Other EXCEPT !.path = <<"a", "b">>])),
     Composed(Sources(Source(<<"zed_modules", "a">>), Other)),
     Composed(Sources(Source(<<".zed", "tools">>), Other)),
     Composed(Sources(Source(Absent), Source(Absent))),
     Composed(Sources([Source(Absent) EXCEPT !.projection = "git-submodule"],
                      Other)),
     Composed(Sources([Source(Absent) EXCEPT !.projection = "git-submodule",
                                             !.vcs = "hg"], Other)),
     [Composed(Sources(Source(Absent), Other)) EXCEPT
         !.interop.consume_gitmodules = TRUE],
     [Plain EXCEPT !.lifecycle = Hook([PlainConfig EXCEPT
                                          !.mode = "disable"])],
     [Plain EXCEPT !.lifecycle = Hook([PlainConfig EXCEPT
                                          !.mode = "disable",
                                          !.commands = <<"make">>])],
     [Plain EXCEPT !.lifecycle =
         [phase \in {"pre-test"} |-> [form |-> "enabled",
                                      enabled |-> FALSE]]],
     [Plain EXCEPT !.build = Step, !.bin = [b \in {"kit"} |-> <<"out">>],
                   !.interop.flags_2_env = [config |-> <<"out">>,
                                            bins |-> <<"kit">>]],
     [Plain EXCEPT !.bin = [b \in {"kit"} |-> <<"out">>],
                   !.interop.flags_2_env = [config |-> <<"out">>,
                                            bins |-> <<"kit">>]],
     [Plain EXCEPT !.dependencies = [k \in {"acme/a"} |-> "^1"],
                   !.tool_dependencies = [k \in {"acme/a"} |-> "^1"]],
     [Plain EXCEPT !.overrides.build = [k \in {"acme/a"} |-> Step]],
     [Plain EXCEPT !.install.dir = <<"..", "a">>]}

MCDrafts == RegistryDrafts \cup ForgeDrafts \cup PolyglotDrafts
            \cup OtherDrafts

(* A key that names no language, with its ecosystem. *)
WidgetDrafts ==
    {Two("widget", [Lib("widget") EXCEPT !.ecosystem = "npm"], "java", Maven)}

-----------------------------------------------------------------------------
(* Lockfiles: two identities, one digest fit for a lockfile and one that   *)
(* is not, a source revision, a branch name.                               *)
MCKeys == 1..2
MCDigests == {"digest", "other", "zero"}
MCCanonical == {"digest", "other"}
MCRevisions ==
    {"revision", "branch", "artifact:digest", "artifact:other", "artifact:zero"}
MCImmutable == MCRevisions \ {"branch"}
MCArtifactRevision ==
    [d \in MCDigests |-> CASE d = "digest" -> "artifact:digest"
                           [] d = "other"  -> "artifact:other"
                           [] d = "zero"   -> "artifact:zero"]
MCVersions == {1, 2}

Locked(k, d, c) == [key |-> k, digest |-> d, vcs_commit |-> c, sound |-> TRUE]
Resolved(k, d) == [key |-> k, digest |-> d, sound |-> TRUE]
Unsound(entry) == [entry EXCEPT !.sound = FALSE]

With(packages, tools, natives, nix) ==
    [version |-> 1,
     entries |-> [section \in Sections |->
        CASE section = "packages"            -> packages
          [] section = "tools"               -> tools
          [] section = "native_dependencies" -> natives
          [] section = "nix_adapters"        -> nix]]

Offer(packages, tools, natives, nix) ==
    With(packages, tools, natives, nix).entries

(* On identity 1, every way a package can be incomplete, as a tool too; a  *)
(* native dependency, an adapter, and what is refused of each.             *)
MCOffered ==
    Offer({Locked(1, "digest", "revision"), Locked(1, "zero", NoRevision),
           Locked(2, "digest", NoRevision)},
          {Locked(1, "digest", "artifact:digest"),
           Unsound(Locked(2, "digest", "revision"))},
          {Resolved(1, "digest"), Unsound(Resolved(1, "zero"))},
          {Resolved(2, "digest")})

(* Sorted and unsorted, a merge that left two pins of one package, one     *)
(* that left a package that is a tool, a pin with no revision, and a       *)
(* later version.                                                          *)
MCDocuments ==
    {With(<<Locked(2, "digest", "revision"), Locked(1, "other", "revision")>>,
          <<>>, <<>>, <<>>),
     With(<<Locked(1, "digest", "revision"), Locked(1, "other", "revision")>>,
          <<>>, <<>>, <<>>),
     With(<<Locked(1, "digest", "revision")>>,
          <<Locked(1, "digest", "revision")>>, <<>>, <<>>),
     With(<<Locked(1, "digest", NoRevision)>>, <<>>, <<>>, <<>>),
     [With(<<>>, <<>>, <<>>, <<>>) EXCEPT !.version = 2]}

(* Out of order, with a duplicate, a later version, a branch for a         *)
(* revision, and records that are unsound or out of order.                 *)
MCAssembled ==
    {With(<<Locked(2, "digest", NoRevision), Locked(1, "digest", NoRevision)>>,
          <<>>, <<>>, <<>>),
     With(<<Locked(2, "digest", "revision"), Locked(1, "digest", "revision"),
            Locked(2, "other", "revision")>>, <<>>, <<>>, <<>>),
     [With(<<Locked(1, "digest", "revision")>>, <<>>, <<>>, <<>>)
         EXCEPT !.version = 2],
     With(<<>>, <<Locked(1, "digest", "branch")>>, <<>>, <<>>),
     With(<<>>, <<>>, <<Unsound(Resolved(1, "digest"))>>,
          <<Resolved(2, "digest"), Resolved(1, "digest")>>)}

-----------------------------------------------------------------------------
mcVars == <<scene, packageVars, vars>>

MCInit ==
    /\ PackageInit /\ Init
    /\ \/ scene = "release" /\ disk = NoFile
       \/ scene = "lock"

ReleaseStep == scene = "release" /\ PackageNext /\ UNCHANGED <<scene, vars>>
LockStep == scene = "lock" /\ Next /\ UNCHANGED <<scene, packageVars>>

MCSpec == MCInit /\ [][ReleaseStep \/ LockStep]_mcVars
=============================================================================
