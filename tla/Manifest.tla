------------------------------ MODULE Manifest ------------------------------
(***************************************************************************)
(* The package manifest, .zpkg.toml (src/rust/manifest.rs): what makes one *)
(* valid, the targets of a polyglot package, and the routes by which a     *)
(* release leaves it.                                                      *)
(*                                                                         *)
(* Malformed stands for any text that fails its syntax check, Absent for a *)
(* field that is left out.  A path is the sequence of its segments; a name *)
(* that is made of others is the sequence of them.                         *)
(***************************************************************************)
EXTENDS NativeHosts, Arrangements, SequencesExt

CONSTANTS Absent, Malformed, NativePackageManagers, Adapters, ReservedPaths

(* unwrap_or: the value of an optional field, or its default. *)
Or(optional, default) == IF optional = Absent THEN default ELSE optional

(* Option and syntax checks: is_slug, is_target_name, is_dependency_key,   *)
(* is_allowed_repo_url and the patterns of commands and tokens.            *)
WellFormed(text) == text # Malformed
AllWellFormed(texts) == \A i \in DOMAIN texts : WellFormed(texts[i])

IsSafeRelativePath(path) ==
    /\ path # <<>>
    /\ \A i \in DOMAIN path : path[i] \notin {"..", ""}

(* One of the two is below the other, or they are the same. *)
PathsOverlap(left, right) == IsPrefix(left, right) \/ IsPrefix(right, left)

IsReservedSourcePath(path) ==
    \E reserved \in ReservedPaths : PathsOverlap(path, reserved)

Dot == <<".">>

-----------------------------------------------------------------------------
(* The identity of a package in a native registry: its shape, its words,   *)
(* whether a letter is upper case, and what separates the words.           *)
SimpleIdentity(package) == package.shape = "plain"
LowerIdentity(package) == SimpleIdentity(package) /\ ~package.upper
NpmPackage(package) ==
    package.shape \in {"plain", "@scope/name"} /\ ~package.upper
CratesPackage(package) == SimpleIdentity(package) /\ package.mark # "."
PubDevPackage(package) == LowerIdentity(package) /\ package.mark \in {"", "_"}
MavenPackage(package) == package.shape = "group:name"
PackagistPackage(package) == package.shape = "group/name" /\ ~package.upper
GoModule(package) == package.shape = "group/name"

ValidatePackage(registry, package) ==
    CASE registry = "npm" -> NpmPackage(package)
      [] registry = "crates-io" -> CratesPackage(package)
      [] registry = "pub-dev" -> PubDevPackage(package)
      [] registry = "maven-central" -> MavenPackage(package)
      [] registry = "clojars" -> MavenPackage(package) \/ GoModule(package)
      [] registry = "packagist" -> PackagistPackage(package)
      [] registry \in {"go-proxy", "vcs"} -> GoModule(package)
      [] registry \in {"hex", "opam", "nimble", "shards", "zig", "luarocks",
                       "conan-center"} -> LowerIdentity(package)
      [] registry = "swift-package-index"
              -> SimpleIdentity(package) /\ package.mark = "."
      [] registry = "dub" -> /\ package.shape \in {"plain", "group:name"}
                             /\ ~package.upper
      [] OTHER -> SimpleIdentity(package)

NormalizePypi(package) ==
    [package EXCEPT !.upper = FALSE, !.mark = IF @ = "" THEN "" ELSE "-"]

(* NativeRegistry::canonical_package: what a registry compares. *)
CanonicalPackage(registry, package) ==
    CASE registry \in {"pypi", "test-pypi"} -> NormalizePypi(package)
      [] registry \in {"nuget", "powershell-gallery", "luarocks",
                       "conan-center"} -> [package EXCEPT !.upper = FALSE]
      [] registry = "clojars" -> [package EXCEPT !.shape = "group:name"]
      [] OTHER -> package

(* validate_native_release_section.  A tag format is [prefix, versioned]:  *)
(* clients/go/v{version} has the prefix <<"clients", "go">>.               *)
ValidNativeRelease(native, dir, inbound) ==
    /\ ValidatePackage(native.registry, native.package)
    /\ inbound \in {Universal, HostEcosystem(native.registry)}
    /\ native.tag_format # Absent => native.tag_format.versioned
    /\ ~Unroutable(native.registry, native.channel, 1)
    /\ ~IsMirrorOfAnotherRegistry(native.registry)
    /\ native.registry = "go-proxy" /\ dir # Dot =>
          /\ native.tag_format # Absent
          /\ IsPrefix(dir, native.tag_format.prefix)
    /\ IsInjective(native.forge)
    /\ \A i \in DOMAIN native.forge :
          Supports(native.forge[i], Protocol(native.registry))

-----------------------------------------------------------------------------
(* The sections of a manifest, and what lists and maps they hold (structs  *)
(* Manifest, PackageSection, PublishSection, InstallSection and            *)
(* InstallHooksSection).  Whatever these fields hold, they are there.      *)
HasFields(record, fields) == fields \subseteq DOMAIN record
IsHooks(hooks) ==
    /\ HasFields(hooks, {"pre_install", "post_install"})
    /\ IsList(hooks.pre_install) /\ IsList(hooks.post_install)
IsNativeDependencies(dependencies) ==
    \A manager \in DOMAIN dependencies : IsList(dependencies[manager])
IsManifest(m) ==
    /\ HasFields(m, {"package", "dependencies", "build_dependencies",
                     "tool_dependencies", "native_dependencies", "hooks",
                     "lifecycle", "build", "overrides", "bin", "publish",
                     "interop", "install", "workspace", "targets"})
    /\ HasFields(m.package, {"org", "name", "kind", "version", "repository",
                             "artifacts", "language", "ecosystem"})
    /\ HasFields(m.publish, {"tag_format", "smoke_test_windows", "native",
                             "nix"})
    /\ HasFields(m.install, {"dir", "adapter", "target"})
    /\ IsNativeDependencies(m.native_dependencies) /\ IsHooks(m.hooks)
    /\ \A key \in DOMAIN m.targets :
          /\ IsNativeDependencies(m.targets[key].native_dependencies)
          /\ IsHooks(m.targets[key].hooks)

-----------------------------------------------------------------------------
(* Prerequisites of other package managers, and install hooks. *)
ValidNativeDependencies(dependencies) ==
    /\ DOMAIN dependencies \subseteq NativePackageManagers
    /\ \A manager \in DOMAIN dependencies :
          /\ AllWellFormed(dependencies[manager])
          /\ IsInjective(dependencies[manager])

Packages(dependencies, manager) ==
    IF manager \in DOMAIN dependencies THEN dependencies[manager] ELSE <<>>
(* Mutant: the lists are joined as they are. *)
MergedNativeDependenciesJoined(package, target) ==
    [manager \in DOMAIN package \cup DOMAIN target |->
        Packages(package, manager) \o Packages(target, manager)]

(* Of a target's packages those are added that were not seen before. *)
Unseen(seen, items) ==
    {i \in 1..Len(items) : /\ \A j \in 1..Len(seen) : seen[j] # items[i]
                           /\ \A j \in 1..(i - 1) : items[j] # items[i]}
Joined(seen, items) ==
    seen \o Arranged(items, Unseen(seen, items), ByPosition(items))
MergedNativeDependencies(package, target) ==
    [manager \in DOMAIN package \cup DOMAIN target |->
        Joined(Packages(package, manager), Packages(target, manager))]

ValidInstallHooks(hooks) ==
    AllWellFormed(hooks.pre_install) /\ AllWellFormed(hooks.post_install)

MergedHooks(package, target) ==
    [pre_install |-> package.pre_install \o target.pre_install,
     post_install |-> package.post_install \o target.post_install]

-----------------------------------------------------------------------------
(* The project's own lifecycle.  A hook is written as a table, a list of   *)
(* commands, one command, or a boolean; into_config gives it one shape.    *)
PlainConfig == [mode |-> "append", command |-> Absent, commands |-> <<>>,
                shell |-> Absent, env |-> {}]
IntoConfig(hook) ==
    CASE hook.form = "config" -> hook.config
      [] hook.form = "commands" -> [PlainConfig EXCEPT !.commands =
                                       hook.commands]
      [] hook.form = "command" -> [PlainConfig EXCEPT !.command =
                                       hook.command]
      [] hook.form = "enabled" -> [PlainConfig EXCEPT !.mode =
                                       IF hook.enabled THEN "append"
                                       ELSE "disable"]

(* The commands that run, in order; blank ones are dropped. *)
NormalizedCommands(config) ==
    LET commands == (IF config.command = Absent THEN <<>>
                     ELSE <<config.command>>) \o config.commands
    IN  SelectSeq(commands, WellFormed)

ValidShellAndEnv(config) ==
    WellFormed(config.shell) /\ \A name \in config.env : WellFormed(name)

ValidLifecycleHook(hook) ==
    LET config == IntoConfig(hook)
    IN  IF config.mode = "disable"
        THEN config = [PlainConfig EXCEPT !.mode = "disable"]
        ELSE /\ WellFormed(config.command)
             /\ AllWellFormed(config.commands)
             /\ ValidShellAndEnv(config)

ValidLifecycle(lifecycle) ==
    \A phase \in DOMAIN lifecycle : ValidLifecycleHook(lifecycle[phase])

-----------------------------------------------------------------------------
(* Other repositories that the project checks out below its own tree. *)
CheckoutDir(section) == Or(section.checkout_dir, <<".zed", "vcs">>)
GitSubmoduleDir(section) == Or(section.git_submodule_dir, <<"submodules">>)
ModulesDir(manifest) == Or(manifest.install.dir, <<"zed_modules">>)

SourcePath(section, name) ==
    LET source == section.sources[name]
        root == IF source.projection = "git-submodule"
                THEN GitSubmoduleDir(section) ELSE CheckoutDir(section)
    IN  Or(source.path, Append(root, name))

ValidSourcePath(manifest, path) ==
    /\ IsSafeRelativePath(path)
    /\ ~IsReservedSourcePath(path)
    /\ ~PathsOverlap(path, ModulesDir(manifest))

ValidSource(source) ==
    /\ WellFormed(source.url)
    /\ source.projection = "git-submodule" =>
          source.vcs = "git" /\ source.revision = Absent
    /\ WellFormed(source.package)
    /\ source.role = "workspace" => source.package # Absent
    /\ source.revision = Absent \/ source.branch = Absent
    /\ WellFormed(source.revision) /\ WellFormed(source.branch)

ValidSourceComposition(manifest) ==
    LET section == manifest.interop.source_composition
        sources == section.sources
        empty == /\ section.checkout_dir = Absent
                 /\ section.git_submodule_dir = Absent
                 /\ DOMAIN sources = {}
    IN  empty \/
        /\ ~manifest.interop.consume_gitmodules
        /\ ValidSourcePath(manifest, CheckoutDir(section))
        /\ ValidSourcePath(manifest, GitSubmoduleDir(section))
        /\ ~PathsOverlap(CheckoutDir(section), GitSubmoduleDir(section))
        /\ \A name \in DOMAIN sources :
              /\ WellFormed(name)
              /\ ValidSource(sources[name])
              /\ ValidSourcePath(manifest, SourcePath(section, name))
              /\ \A other \in DOMAIN sources \ {name} :
                    /\ sources[name].package = Absent
                       \/ sources[name].package # sources[other].package
                    /\ ~PathsOverlap(SourcePath(section, name),
                                     SourcePath(section, other))

-----------------------------------------------------------------------------
(* A build step, and what it gives on one kind of host. *)
CommandForHost(build, windows) ==
    IF windows THEN Or(build.command_windows, build.command)
    ELSE build.command
OutputsForHost(build, windows) ==
    IF windows /\ build.outputs_windows # <<>> THEN build.outputs_windows
    ELSE build.outputs

ValidBuild(build) ==
    /\ WellFormed(build.command) /\ WellFormed(build.command_windows)
    /\ \A output \in Range(build.outputs) \cup Range(build.outputs_windows) :
          IsSafeRelativePath(output)

(* [interop.flags-2-env]: a contract that the build keeps for some bins. *)
ValidFlagsInterop(manifest) ==
    LET flags == manifest.interop.flags_2_env
    IN  \/ flags.config = Absent /\ flags.bins = <<>>
        \/ /\ flags.config # Absent
           /\ IsSafeRelativePath(flags.config)
           /\ flags.bins # <<>>
           /\ IsInjective(flags.bins)
           /\ Range(flags.bins) \subseteq DOMAIN manifest.bin
           /\ manifest.build # Absent
           /\ Contains(manifest.build.outputs, flags.config)

EffectiveBuild(manifest, key, own) ==
    IF key \in DOMAIN manifest.overrides.build
    THEN manifest.overrides.build[key] ELSE own

-----------------------------------------------------------------------------
(* Targets. *)
EffectiveKind(section, packageKind) == Or(section.kind, packageKind)
LanguageFor(key) ==
    IF FromToken(key) = NoLanguage THEN Universal ELSE FromToken(key)
EcosystemFor(section, key) ==
    IF section.ecosystem # Universal THEN section.ecosystem
    ELSE Ecosystem(LanguageFor(key))
PackageEcosystem(package) ==
    IF package.ecosystem # Universal THEN package.ecosystem
    ELSE Ecosystem(package.language)

(* The name under which a target is published. *)
TargetPackageName(manifest, key) ==
    LET section == manifest.targets[key]
    IN  IF section.dir = Dot THEN manifest.package.name
        ELSE Or(section.name, Append(manifest.package.name, key))

NixAttribute(nix, name) == Or(nix.attribute, name)
ValidNixExport(nix, name) ==
    /\ WellFormed(NixAttribute(nix, name))
    /\ NixAttribute(nix, name) # <<"default">>
    /\ nix.systems # <<>> /\ nix.outputs # <<>>
    /\ IsInjective(nix.systems) /\ IsInjective(nix.outputs)
    /\ AllWellFormed(nix.systems) /\ AllWellFormed(nix.outputs)

ValidTarget(manifest, key) ==
    LET section == manifest.targets[key]
        name == TargetPackageName(manifest, key)
        whole == section.dir = Dot
    IN  /\ WellFormed(key)
        /\ IsSafeRelativePath(section.dir)
        /\ whole => section.name \in {Absent, manifest.package.name}
        /\ WellFormed(name)
        /\ ~whole => name # manifest.package.name
        /\ section.nix # Absent => ValidNixExport(section.nix, name)
        /\ section.adapter # Absent => section.adapter \in Adapters
        /\ ValidNativeDependencies(section.native_dependencies)
        /\ ValidInstallHooks(section.hooks)
        /\ section.native # Absent =>
              /\ ~whole
              /\ ValidNativeRelease(section.native, section.dir,
                                    EcosystemFor(section, key))

(* Two targets may not claim one directory, name, attribute or route. *)
Disjoint(manifest, key, other) ==
    LET one == manifest.targets[key]
        two == manifest.targets[other]
        oneName == TargetPackageName(manifest, key)
        twoName == TargetPackageName(manifest, other)
        Route(native) ==
            <<native.registry,
              CanonicalPackage(native.registry, native.package)>>
    IN  /\ one.dir # two.dir
        /\ oneName # twoName
        /\ one.nix # Absent /\ two.nix # Absent =>
              NixAttribute(one.nix, oneName) # NixAttribute(two.nix, twoName)
        /\ one.native # Absent /\ two.native # Absent =>
              Route(one.native) # Route(two.native)

ValidDependencies(manifest) ==
    /\ \A table \in {manifest.dependencies, manifest.build_dependencies,
                     manifest.tool_dependencies} :
          \A key \in DOMAIN table : WellFormed(key) /\ WellFormed(table[key])
    /\ DOMAIN manifest.tool_dependencies \cap DOMAIN manifest.dependencies
          = {}

ValidOverrides(overrides) ==
    /\ \A key \in DOMAIN overrides.build :
          WellFormed(key) /\ ValidBuild(overrides.build[key])
    /\ \A key \in DOMAIN overrides.path :
          WellFormed(key) /\ WellFormed(overrides.path[key])

ValidPackage(package) ==
    /\ WellFormed(package.org) /\ WellFormed(package.name)
    /\ WellFormed(package.version)
    /\ WellFormed(package.repository) /\ WellFormed(package.artifacts)

(* Manifest::validate. *)
ValidManifest(manifest) ==
    LET publish == manifest.publish
        polyglot == DOMAIN manifest.targets # {}
    IN  /\ ValidPackage(manifest.package)
        /\ ValidDependencies(manifest)
        /\ publish.native # Absent =>
              /\ ~polyglot
              /\ ValidNativeRelease(publish.native, Dot,
                                    PackageEcosystem(manifest.package))
        /\ publish.nix # Absent =>
              /\ ~polyglot
              /\ ValidNixExport(publish.nix, manifest.package.name)
        /\ ValidNativeDependencies(manifest.native_dependencies)
        /\ ValidInstallHooks(manifest.hooks)
        /\ ValidLifecycle(manifest.lifecycle)
        /\ \A key \in DOMAIN manifest.targets : ValidTarget(manifest, key)
        /\ \A key, other \in DOMAIN manifest.targets :
              key # other => Disjoint(manifest, key, other)
        /\ WellFormed(manifest.install.target)
        /\ \A name \in DOMAIN manifest.bin :
              WellFormed(name) /\ IsSafeRelativePath(manifest.bin[name])
        /\ ValidSourceComposition(manifest)
        /\ ValidFlagsInterop(manifest)
        /\ WellFormed(publish.smoke_test_windows)
        /\ manifest.build # Absent => ValidBuild(manifest.build)
        /\ ValidOverrides(manifest.overrides)
        /\ AllWellFormed(manifest.workspace)
        /\ manifest.install.dir # Absent =>
              IsSafeRelativePath(manifest.install.dir)

-----------------------------------------------------------------------------
(* Mutants: the slice has the sections of its target alone, or keeps its   *)
(* siblings.                                                               *)
ManifestForTargetAlone(manifest, key) ==
    LET section == manifest.targets[key]
    IN  [manifest EXCEPT
            !.package.name = TargetPackageName(manifest, key),
            !.native_dependencies = section.native_dependencies,
            !.hooks = section.hooks, !.targets = <<>>]

(* The manifest that ships inside the artifact of one target. *)
ManifestForTarget(manifest, key) ==
    LET section == manifest.targets[key]
        language == FromToken(key)
        stamped ==
            IF language = NoLanguage THEN manifest.package
            ELSE [manifest.package EXCEPT
                     !.language = language,
                     !.ecosystem = EcosystemFor(section, key)]
    IN  [manifest EXCEPT
            !.package = [stamped EXCEPT
                !.name = TargetPackageName(manifest, key),
                !.kind = EffectiveKind(section, @)],
            !.publish.native = section.native,
            !.publish.nix = section.nix,
            !.native_dependencies =
                MergedNativeDependencies(@, section.native_dependencies),
            !.hooks = MergedHooks(@, section.hooks),
            !.targets = <<>>,
            !.workspace = <<>>,
            !.install.adapter = Or(section.adapter, @),
            !.install.target = Absent]

(* The target that a request names, among keys in their order.  A request  *)
(* is [token, exact]: exact when it is spelled as a key would be.          *)
NoTarget == "no target"
ResolveTargetKey(keys, request) ==
    LET language == FromToken(request.token)
        same == SelectSeq(keys, LAMBDA key : FromToken(key) = language)
    IN  IF request.exact /\ Contains(keys, request.token)
        THEN request.token
        ELSE IF language \in {NoLanguage, Universal} \/ same = <<>>
        THEN NoTarget
        ELSE IF Contains(same, Canonical(language)) THEN Canonical(language)
        ELSE Head(same)

(* The routes by which a release leaves: one for the whole repository or   *)
(* one for each target.                                                    *)
Tag(format, version) == [prefix |-> format.prefix, version |-> version]
NativeRoute(manifest, target, dir, native) ==
    [target |-> target, dir |-> dir, registry |-> native.registry,
     package |-> native.package, channel |-> native.channel,
     vcs_tag |-> Tag(Or(native.tag_format, manifest.publish.tag_format),
                     manifest.package.version)]

Repository == "repository"
RouteSources(manifest) ==
    {[target |-> Repository, dir |-> Dot,
      native |-> manifest.publish.native]} \cup
    {[target |-> key, dir |-> manifest.targets[key].dir,
      native |-> manifest.targets[key].native] :
        key \in DOMAIN manifest.targets}

NativeReleaseRoutes(manifest) ==
    {NativeRoute(manifest, source.target, source.dir, source.native) :
        source \in {s \in RouteSources(manifest) : s.native # Absent}}

ForgeReleaseRoutes(manifest) ==
    UNION {{[target |-> source.target, dir |-> source.dir,
             registry |-> forge, format |-> source.native.registry,
             package |-> source.native.package] :
                forge \in Range(source.native.forge)} :
        source \in {s \in RouteSources(manifest) : s.native # Absent}}
=============================================================================
