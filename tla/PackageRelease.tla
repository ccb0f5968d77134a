--------------------------- MODULE PackageRelease ---------------------------
(***************************************************************************)
(* A package from its manifest to its consumers: an author saves           *)
(* manifests, a publisher turns a valid one into artifacts, one for each   *)
(* target, and uploads releases to the native registry that it routes to.  *)
(* Parsing, slicing and routing are those of src/rust/manifest.rs and      *)
(* src/rust/native_host.rs; the registries themselves are external.        *)
(***************************************************************************)
EXTENDS Manifest

CONSTANTS
    Drafts,      (* the manifests that the author may save               *)
    KeyOrder,    (* the keys of targets, in their order                  *)
    Requests,    (* what a consumer may ask for                          *)
    Iterations,  (* the numbers of candidates within a channel           *)
    MaxSaves, MaxUploads

ASSUME PackageReleaseAssumption ==
    /\ \A draft \in Drafts : IsManifest(draft)
    /\ Malformed # Absent /\ Absent \notin Requests
    /\ Repository \notin Range(KeyOrder)

VARIABLES
    manifest,    (* the manifest in the repository, or Absent            *)
    saves,
    shelf,       (* the artifacts that were published                    *)
    uploads,     (* what the native registries hold                      *)
    refused      (* the uploads that a native registry refused           *)

packageVars == <<manifest, saves, shelf, uploads, refused>>

TargetKeys(m) == SelectSeq(KeyOrder, LAMBDA key : key \in DOMAIN m.targets)
Resolve(m, request) == ResolveTargetKey(TargetKeys(m), request)

-----------------------------------------------------------------------------
(* What a consumer of m gets who asks for one of its targets: native       *)
(* dependencies, hooks, and the role of the package.                       *)
EffectiveNativeDependencies(m, request) ==
    IF request = Absent \/ DOMAIN m.targets = {} THEN m.native_dependencies
    ELSE MergedNativeDependencies(
            m.native_dependencies,
            m.targets[Resolve(m, request)].native_dependencies)

EffectiveInstallHooks(m, request) ==
    IF request = Absent \/ DOMAIN m.targets = {} THEN m.hooks
    ELSE MergedHooks(m.hooks, m.targets[Resolve(m, request)].hooks)

(* How a package is built on one kind of host: for a consumer, which may   *)
(* override the build, and for itself, with the commands of its lifecycle. *)
BuiltFor(consumer, package, m, windows) ==
    LET build == EffectiveBuild(consumer, package, m.build)
    IN  IF build = Absent THEN Absent
        ELSE [command |-> CommandForHost(build, windows),
              outputs |-> OutputsForHost(build, windows)]

LifecycleCommands(m) ==
    [phase \in DOMAIN m.lifecycle |->
        NormalizedCommands(IntoConfig(m.lifecycle[phase]))]

EffectiveTargetKind(m, request) ==
    EffectiveKind(m.targets[Resolve(m, request)], m.package.kind)

-----------------------------------------------------------------------------
PackageInit ==
    /\ manifest = Absent
    /\ saves = 0
    /\ shelf = {}
    /\ uploads = {}
    /\ refused = {}

(* The author writes a manifest; nothing is checked. *)
Save(draft) ==
    /\ saves < MaxSaves
    /\ draft # manifest
    /\ manifest' = draft
    /\ saves' = saves + 1
    /\ UNCHANGED <<shelf, uploads, refused>>

(* Manifest::parse: only a valid manifest goes further. *)
Parsed == manifest # Absent /\ ValidManifest(manifest)

Artifact(target, m) == [target |-> target, from |-> manifest, manifest |-> m]

(* A package without targets is published as it is. *)
PublishWhole ==
    /\ Parsed
    /\ DOMAIN manifest.targets = {}
    /\ shelf' = shelf \cup {Artifact(Repository, manifest)}
    /\ UNCHANGED <<manifest, saves, uploads, refused>>

(* One artifact of a polyglot package; the publisher may stop after any. *)
PublishTarget(key) ==
    /\ Parsed
    /\ key \in DOMAIN manifest.targets
    /\ shelf' = shelf \cup {Artifact(key, ManifestForTarget(manifest, key))}
    /\ UNCHANGED <<manifest, saves, uploads, refused>>

(* A release on a channel, to the registry of a route or to one that       *)
(* mirrors it.  A registry stores a coordinate once, unless it may be      *)
(* published again.                                                        *)
Coordinate(route, canonical) ==
    [place |-> route.endpoints.publish, package |-> canonical,
     version |-> route.version, tag |-> route.dist_tag]

Upload(native, channel, iteration) ==
    LET host == native.registry
        route == ChannelRoute(host, manifest.package.version, channel,
                              iteration)
        coordinate == Coordinate(route,
                                 CanonicalPackage(host, native.package))
        release == [host |-> host, channel |-> channel,
                    iteration |-> iteration, at |-> coordinate,
                    base |-> manifest.package.version,
                    name |-> native.package]
        taken == \E upload \in uploads : /\ upload.host = host
                                         /\ upload.at = coordinate
    IN  /\ ~Unroutable(host, channel, iteration)
        /\ Cardinality(uploads) + Cardinality(refused) < MaxUploads
        /\ IF taken /\ ~(route.mutable /\ AllowsRepublish(host))
           THEN refused' = refused \cup {release} /\ UNCHANGED uploads
           ELSE uploads' = uploads \cup {release} /\ UNCHANGED refused
        /\ UNCHANGED <<manifest, saves, shelf>>

Release ==
    /\ Parsed
    /\ \E source \in RouteSources(manifest), channel \in Channels,
          iteration \in Iterations :
          /\ source.native # Absent
          /\ Upload(source.native, channel, iteration)

PackageNext ==
    \/ \E draft \in Drafts : Save(draft)
    \/ PublishWhole
    \/ \E key \in Range(KeyOrder) : PublishTarget(key)
    \/ Release

PackageSpec == PackageInit /\ [][PackageNext]_packageVars

-----------------------------------------------------------------------------

(* The artifacts keep what the manifest they come from had accepted.  The  *)
(* published manifest of a slice is validated by nobody until a consumer   *)
(* parses it: it must parse (manifest_for_target, Manifest::validate).     *)
(* Left out are targets whose key names no language: see the README.       *)
Named(artifact) ==
    FromToken(artifact.target) # NoLanguage

SlicesParse ==
    \A artifact \in shelf :
        artifact.target = Repository \/ Named(artifact) =>
            ValidManifest(artifact.manifest)

(* Installing a slice is installing its target from the whole package: the *)
(* same native prerequisites and hooks, in the same order, and the same    *)
(* role (effective_native_dependencies, effective_install_hooks,           *)
(* effective_target_kind against manifest_for_target).                     *)
SliceInstallsAsItsTarget ==
    \A artifact \in {a \in shelf : a.target # Repository},
       request \in Requests :
        LET slice == artifact.manifest
            whole == artifact.from
        IN  Resolve(whole, request) = artifact.target =>
              /\ EffectiveNativeDependencies(slice, request)
                    = EffectiveNativeDependencies(whole, request)
              /\ EffectiveInstallHooks(slice, request)
                    = EffectiveInstallHooks(whole, request)
              /\ slice.package.kind = EffectiveTargetKind(whole, request)

(* A slice is built as the package that it comes from: with the commands   *)
(* and the outputs of either kind of host, the overrides it was released   *)
(* with, and the same commands around it (effective_build,                 *)
(* command_for_host, outputs_for_host, normalized_commands).               *)
SliceBuildsAsItsPackage ==
    \A artifact \in {a \in shelf : a.target # Repository} :
        LET slice == artifact.manifest
            whole == artifact.from
        IN  /\ LifecycleCommands(slice) = LifecycleCommands(whole)
            /\ \A package \in {Repository} \cup DOMAIN whole.overrides.build,
                  windows \in BOOLEAN :
                    BuiltFor(slice, package, slice, windows)
                        = BuiltFor(whole, package, whole, windows)

(* A release planned from the slice goes where a release planned from the  *)
(* whole package goes, under the same tag (native_release_routes,          *)
(* forge_release_routes against manifest_for_target).                      *)
Anywhere(routes) == {[r EXCEPT !.target = Repository, !.dir = Dot] :
                        r \in routes}
SlicesKeepTheirRoutes ==
    \A artifact \in {a \in shelf : a.target # Repository} :
        LET OfTarget(routes) == {r \in routes : r.target = artifact.target}
        IN  /\ NativeReleaseRoutes(artifact.manifest)
                 = Anywhere(OfTarget(NativeReleaseRoutes(artifact.from)))
            /\ ForgeReleaseRoutes(artifact.manifest)
                 = Anywhere(OfTarget(ForgeReleaseRoutes(artifact.from)))

(* Publishing, building, installing or routing the slice of a target is    *)
(* the same as doing it with the target of the whole package.              *)
SlicesStandForTargets ==
    /\ SlicesParse /\ SlicesKeepTheirRoutes
    /\ SliceInstallsAsItsTarget /\ SliceBuildsAsItsPackage

(* The artifact of a target says for whom it is: the install guard sees    *)
(* the ecosystem for which the target was checked (manifest_for_target     *)
(* against TargetSection::ecosystem_for).                                  *)
SlicesKeepTheirEcosystem ==
    \A artifact \in {a \in shelf : a.target # Repository} :
        PackageEcosystem(artifact.manifest.package)
            = EcosystemFor(artifact.from.targets[artifact.target],
                           artifact.target)

(* No two releases of one project take each other's place: a release that  *)
(* the plan accepts (channel_route) is refused by its registry only when   *)
(* it is the same release again.  Conan and Hackage keep one version for   *)
(* all the candidates of a package: there a plan can be refused.           *)
OneVersionForAllCandidates == {"conan-center", "hackage"}
PlannedReleasesLand ==
    \A release \in refused :
        \/ release.host \in OneVersionForAllCandidates
        \/ \E upload \in uploads :
              /\ upload.channel = release.channel
              /\ upload.base = release.base
              /\ \/ upload.iteration = release.iteration
                 \/ release.channel = "stable"

(* A candidate reaches nobody who did not ask for it: what stands at the   *)
(* stable place of a registry, under its stable label and without a        *)
(* prerelease mark, was released as stable (dist_tag, channel_endpoints,   *)
(* PrereleaseSyntax::apply).                                               *)
UnpinnedConsumersSeeStable ==
    \A upload \in uploads :
        /\ upload.at.place = Endpoints(upload.host).publish
        /\ upload.at.tag = DistTag(upload.host, "stable")
        /\ upload.at.version.mark = ""
        => upload.channel = "stable"

(* A package that uploads to the mutable track of a registry never moves   *)
(* what a stable or candidate release left there.                          *)
SnapshotsStayApart ==
    \A one, two \in uploads :
        one.host = two.host /\ one.at = two.at /\ one # two =>
            one.channel = "snapshot" /\ two.channel = "snapshot"

(* No channel reaches into another: candidates and snapshots neither reach *)
(* the consumers of stable releases nor take their place.                  *)
ChannelsStayApart == UnpinnedConsumersSeeStable /\ SnapshotsStayApart
=============================================================================
