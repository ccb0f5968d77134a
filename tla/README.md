# A TLA+ development for zed-interfaces

`zed-interfaces` is the Rust crate of shared contracts of the zed package
manager: the data types that registry, CLI, edge and desktop exchange, and the
functions that parse, normalize, validate, digest, admit and edit them.  The
crate starts no thread and opens no socket.  Its correctness shows when its
functions are called, in some order, by processes that fail, race and lag, on
data that others may have changed in the meantime.  The modules here therefore
put the crate's functions, translated from `src/src/rust`, among the actors the
contracts name: an issuer and an edge, a process and the file it shares,
graph producers and a channel, root keys, publishers, exporters and the readers of a
registry, hosts that share a plan and its lock, projects and native registries.
Actors that live outside the crate are marked `external` in the `map` of
`PROJECT.json`; what they may do is as liberal as the crate's signatures leave it.

Line numbers below refer to files of `src/src/rust` unless a path is given.

## 1. Inventory

| Component | State | Operations | Interacts with |
|---|---|---|---|
| Edge-fallback capabilities (`edge_fallback.rs`) | a signed capability; outage policy; verifier-local facts (outage start, key snapshot age) | `validate`, `admit_outage` | session authority, issuer, key publication, edge |
| Lockfile (`lockfile.rs`) | four arrays of pins | `parse`, `to_toml_string`, `find*`, four upserts | the file `.zpkg.lock`, merges and other processes; native dependency and Nix records |
| Environment plans v2 (`environment_v2.rs`) | a plan: tools, packages, tasks, origins | `parse_toml`, `validate`, `normalized`, `to_toml_string`, digests; task graph validation | environment lock, hosts |
| Environment plans v1 (`environment.rs`) | the older plan; the checks version 2 reuses | as above | |
| Environment lock (`environment_lock.rs`) | the variants of every tool, bound to a plan digest | `parse_toml`, `validate`, `normalized`, `to_toml_string`, `verify_plan_digest`, `variants_for_target` | plans, resolvers, installers |
| Dependency graphs (`dependency_graph.rs`) | a document: declared or resolved graph, optional digest | `normalize_in_place`, `finalize`, `validate`, digests, canonical bytes, `parse_verified_canonical` | producers, servers, verifiers; exports |
| Graph exports (`dependency_graph_export.rs`) | none | renderings of a verified graph | dependency graphs |
| Registry protocol v1 (`registry_protocol_v1.rs`) | discovery documents, checkpoints, snapshots, index records, archive manifests | validation and canonical bytes of each, chain rules, `authorize_current_checkpoint_metadata` | root keys, publisher, exporter, mirrors, readers |
| Manifest (`manifest.rs`) | `.zpkg.toml` | `parse`, `validate`, merges, target resolution, `manifest_for_target`, release routes | author, publisher, consumers, native registries |
| Native hosts (`native_host.rs`), languages (`language.rs`) | none | endpoints, `channel_route`, version syntaxes, ecosystems | manifest |
| Versions (`version.rs`) | none | parsing, matching, `resolve`, `sort_desc` | resolvers |
| Locators, recovery, mirrors (`source.rs`, `recovery.rs`, `mirror.rs`) | descriptor | ordered retrieval locations, recovery order, validation | publisher, registry, client |
| Binary artifacts (`binary_artifact.rs`) | descriptor, metadata, list, lock record | validation, `is_idempotent_with` | publishers, registry, installers |
| Namespace claims (`namespace_claim.rs`) | request, plan, receipt | validation, normalization, canonical bytes | planners, adapters, providers |
| Native dependencies (`native_dependency.rs`, `native_registry.rs`) | requirement, lock, family record | translation, `resolve`, validation | lockfile, native registries |
| OCI (`oci.rs`) | reference, descriptor, layer, record | parsing, validation, canonical bytes | publishers, OCI registry, clients |
| Dependents (`dependents.rs`) | none; documents of registrations and impact plans | validation of each | consumers, registry |
| Nix (`nix.rs`, `nix_plan.rs`) | export plan, adapter record | validation, normalization, canonical bytes | planners, builders, importers |
| Signing (`signing.rs`), package security, retirement, sync, VCS and excludes, REST DTOs | values | per-field validation | registry |
| Stale duplicates (`src/src/environment*.rs`, `src/src/nix.rs`), generated slices (`src/src/dart`, `src/src/ts`), scripts | none | none | |

What is hard here, and the property that each component needs:

- *Edge fallback.*  Four timestamps, of different clocks and different events,
  must close every window through which a revoked session, a retired key or a
  superseded epoch could be served while the edge cannot ask anyone.
- *Lockfile.*  Upserts check little, the writer checks everything on a copy and
  other programs merge the file: nothing ambiguous may ever be written or read
  as valid, the result must not depend on resolver order, and failed operations
  must leave no trace.
- *Task graphs.*  A recursive search over names with aliases and patterns must
  terminate, accept exactly the runnable plans and name a cycle that exists.
- *Dependency graphs.*  One graph has one digest and one accepted encoding
  however it was assembled, edited after it was finalized or altered on the way.
- *Registry protocol.*  Readers hold several documents fetched at different
  times; chains, key lists and expiries must not let old state look current, and
  an exporter that stops anywhere must not show a reader half a snapshot.
- *Plans and environment lock.*  Some lists of a plan are sets and some are
  sequences; equal digests must mean equal plans, other spellings must not cost the
  lock, and what is installed must have been resolved for the plan at hand however
  the two files are edited and rewritten.
- *Manifest and native hosts.*  One package becomes an artifact per target and a
  release per registry and channel: a slice must do what its target does in the
  whole, and no release may take another's place.
- *Locators, binary artifacts, versions.*  No source lost or tried twice; a repeated
  publication is recognised and a different one refused; every order of a list
  resolves alike.
- *Interoperability.*  What is translated for npm, Cargo, OCI registries, Nix and
  namespace providers must mean there what it means here, and documents that say
  the same must have the same bytes whoever made them, in whatever order.

The hazards, each at its line, are in `PROJECT.json`.

## 2. Modules

### EdgeFallback, RevocableAccess, EdgeFallbackProofs

`EdgeFallback` has the crate's two decisions as operators: `Validate`
(`edge_fallback.rs` 221-257) and `AdmitOutage` (259-311, with
`PolicyWithinContract` for its first test and `Fresh` for the four ages).  They
are pure in the code, so they are operators here; the actions are those of the
actors around them.  The session authority revokes and supersedes epochs; the
issuer checks a session and mints later, any number of times, with claims of any
quality (`Claims`); the key publication rotates; the edge loses its origin,
notices late, refreshes keys only while it is connected, gets policies deployed
and serves what `MayServe` admits.  `now` is the edge's clock; `CheckSkew` and
`MintSkew` set off the clocks that stamp the check and the mint.

`RevocableAccess` is the promise: a revoked session is served for at most
`Grace` seconds.  `EdgeFallback` implements it with `Grace` equal to the contract
lifetime (300 s in the code) plus the error of the clock that stamps the check.

Identifiers, text bounds and grants of a capability are one flag `wellFormed`.
Versions 1 and 2 of the contract have `validate` only and follow the same
temporal rules.  The policy's limit on `max_capability_age` is implied by
`exp - iat <= 300` and `now < exp`; the model keeps it.

### EnvironmentTasks, TaskVerdict, EnvironmentProofs

`EnvironmentTasks` is `validate_tasks` (`environment_v2.rs` 695-753) and
`visit_task` (1096-1135), one action per loop iteration or call: `CollectAliases`
and `RejectAlias` are the first pass, `CheckReferences` and `RejectReference` the
second, `VisitTask`, `Follow` and `Return` the recursive search, whose call stack
is `stack` and whose loop positions are `pending`.  Maps of the code iterate in
name order; the model takes tasks and references in any order, so what it shows
does not depend on the names.

`TaskVerdict` says what is decided, with no search: ambiguous or dangling names
are refused, cyclic plans are refused with a cycle of theirs, every other plan is
accepted.  References that are patterns impose no order in either: tasks that
wait for each other only through patterns are accepted by the code.

### Absence, Arrangements

`Arrangements` has what the code's vectors do when they are sorted, filtered or
deduplicated, as operators on sets of positions: `InOrderOf` lists a finite set in an
order, `Arranged` some positions of a list in an order of the positions.  An element's
place is its rank, the number of those before it, so that what a sort leaves is shown
by counting.  Its lemmas say that an arrangement has every element once and in order,
and that it is the only one that has.  `SortedBy` is `sort_by`, stable, with any comparison.
`Lockfile`, `DependencyGraph`, `BinaryPublication`, `EnvironmentPlan`, `EnvironmentLock`,
`Manifest`, `VersionLists` and the modules of `Interop` are built on it.  `Absence` declares the values that are none for
modules that are put beside each other.

### Lockfile, PinnedLock

`Lockfile` (`lockfile.rs`) holds `memory`, the value of type `Lockfile`, and
`disk`, the file.  `Read` is `parse`, `Write` is `to_toml_string` followed by
storing the document, `UpsertLocked` is `upsert` and `upsert_tool`,
`UpsertRecord` is `upsert_native_dependency` and `upsert_nix_adapter`.  `Assemble`
stands for the public fields, `Edit` for everything else that touches the file.
Checks that concern one entry alone are its flag `sound`; digests and revisions
stay, because normalization derives one from the other.  `written` only records
whether the program was the last to change the file.

`PinnedLock` is the promise: each section is a map from identities to pins, a
readable file is a consistent map, and reading gives back what was written with
revisions made explicit.

### DependencyGraph, DependencyGraphProofs

`DependencyGraph` (`dependency_graph.rs` 165-562, 618-651) has producers that
fill in documents item by item, project them, finalize them (`Finalize`) and send
canonical bytes (`Send`), a channel that respells bytes, turns lists round and
drops the digest, a strict verifier (`Verify`, `parse_verified_canonical`) and
lenient readers (`Load`: serde, then `verify_digest`) that go on with what they
read.  A digest is its preimage: SHA-256 is taken to be injective.  Canonical
JSON is the normalized document itself; every other spelling of the same document
is the form `other`.  An item is two vectors of naturals, its fields and its
features, compared as the derived `Ord` compares vectors (`Before`).

### RegistryDocuments, RegistryTrust, RegistryHistory, RegistryTrustProofs

`RegistryDocuments` has the crate's side (`registry_protocol_v1.rs` 154-515, 772-846), which
is pure: what a valid discovery document and checkpoint are (`ValidPayload`,
`ValidDiscovery`, `ValidCheckpoint`), what their keys sign (`SigningPayload`,
`CheckpointPayload`), what a successor's link covers (`DiscoveryBytes`), and which
checkpoints a discovery document authorizes (`Authorizes`).  Bytes are the record
the canonical JSON spells, a digest is what it is of, and an array that
`normalize_in_place` sorts by distinct identifiers is told by its set of elements.

`RegistryTrust` puts these operators to work.  None of its actions is in `src/src`;
they follow the ceremonies, publishers and readers of
`docs/registry-protocol-v1.md` and are `external` in the map.  A publisher writes
and revises a draft (`Compose`), roots sign the payload of the draft they are shown
(`Approve`), signatures are put in, late, twice or in a later revision (`Attach`),
and the draft is released once a threshold verifies (`Release`).  The online signer
extends the checkpoint chain (`Commit`); one that has not heard of a rotation goes
on with a retired key (`CommitLate`); a neighbour registry uses the same keys.
Readers start from their root keys and take documents as stores give them: arrays
turned round, a signature lost or repeated, a field altered (`AcceptDiscovery`,
`AcceptCheckpoint`).  A signature is who made it and what it covers; `approvals`
also remembers what the root was shown, which only properties read.

`RegistryHistory` is the promise: one history of index roots, and readers that only
move forward along it.

Two things the model does not contain, and the theorems name them.  A document is
released once, with the signatures it then has: `canonical_json_bytes` covers the root
signatures too, so a co-signature that is added after a successor was linked changes the
predecessor digest, and so does a surplus signature that a store drops.
`ChainCanBeFollowed` is about copies whose arrays are in another order, and is proved of
runs in which no document is released with a signature to spare (`NoSpareSignatures`).
And `LaggingSignerWindow` is checked with one root and proved where two thresholds have
a root in common (`Majority`): otherwise one document can carry, beside its own
signatures, a threshold made for an abandoned draft, and a copy altered to say what that
draft said verifies although it was never released.

### RegistryPublication, Arrangements

`RegistryPublication` (`registry_protocol_v1.rs`) begins with what hangs below a
checkpoint: index records (`ValidRecord`, `RecordBytes`), the snapshot manifest that lists
them (`ValidSnapshot`, `SnapshotBytes`), archive manifests with their 64-bit sums
(`CheckedAdd`, `ValidArchiveManifest`) and publish requests.  Its actions
put them among a server (`Publish`, `Withdraw`), an exporter that builds a snapshot
from what a database returns in any order, with entries of the previous one left over
(`Build`), stores objects one at a time (`Store`), writes the checkpoint last
(`Select`) and may stop anywhere and begin again (`Stop`), and a reader that takes the
checkpoint, finds the record, fetches it and expands the archive (`Take`, `Find`,
`FetchRecord`, `Expand`).  One withdrawal stands for yanking, security revocation and
tombstones: the crate treats the three alike.  `Arrangements` has the stable sort that
this and other modules use: elements in the order of their ranks, without recursion.

### EnvironmentPlan, EnvironmentLock, EnvironmentFiles, FrozenEnvironment, EnvironmentProofs

`EnvironmentPlan` (`environment_v2.rs`, with the checks of `environment.rs` it
reuses) and `EnvironmentLock` (`environment_lock.rs`) are pure: what is valid
(`ValidPlan`, `ValidLock`), the normalized forms that are stored and hashed
(`NormalizedPlan`, `NormalizedLock`), `VerifyPlanDigest` and `VariantsForTarget`.
A path is the sequence of its segments, so that stripping `./` and dropping an
empty path do what the code does; a digest has a case, a text may have blanks around
it, a locked path has the slash it is written with, a command its portable key and
its spelling.  `ValidFields` takes the validation mode (authoring, frozen, release),
for requirements, immutable sources, checksums, system packages and origins.
`IsPlan` and `IsResolution` are the types of what `serde` can deliver.
In the lock, what concerns one value alone is the flag `sound`; of a plan, values,
variables and options are `extras`.  Whether a task graph is valid is taken from
`TaskVerdict`, which `EnvironmentTasks` shows the search to decide.

`EnvironmentFiles` puts them among hosts.  `LoadPlan`, `StorePlan`, `ReadLock` and
`WriteLock` are `parse_toml` and `to_toml_string` of the two types; `EditPlan`,
`Resolve` and `Install` are the callers the crate serves and are `external`: an author
or a checkout may put any plan in place at any time, a resolver may choose any
resolution in any order and spelling, and a host installs when `verify_plan_digest`
accepts the lock it holds for the plan it holds.  `resolved` is history, read by
properties only.  `Meaning` and `LockMeaning` say, independently of the code's
normalization, which spellings of a plan and of a lock say the same: which lists are
sets, which are in order of first mention, which paths are one place, which digests
are one.  A slash at the end of a path is a different meaning there, as in the code.
What normalization would not keep, or not carry through, are conditions with names:
`KeptWhole`, `StraightPlan`, `PlainPlan` and `SpelledOnce` (section 3 says what they
leave out).

`FrozenEnvironment` is the promise: a host installs for a plan what one resolution of
a plan with that meaning chose for the host's platform.

### NativeHosts, Manifest, PackageRelease, PackageProofs

`NativeHosts` has the tables and rules of `native_host.rs` and `language.rs`:
ecosystems, protocols, endpoints, the prerelease syntax of each registry, dist-tags,
`ChannelRoute`, and which forge serves which registry.  `Manifest` is `manifest.rs`:
`ValidManifest` with one operator per section validator, the merge of native
dependencies and hooks, builds and lifecycle commands per host (`EffectiveBuild`,
`CommandForHost`, `NormalizedCommands`), `ResolveTargetKey`, `ManifestForTarget`,
tags and routes.

`PackageRelease` is a package's life.  An author saves manifests unchecked (`Save`), a
publisher that parsed one publishes it whole or one artifact per target and may stop
after any (`PublishWhole`, `PublishTarget`), and releases go to native registries, which
take a coordinate once unless it may be published again (`Release`).
`IsManifest` says which fields a manifest has and which of them are lists and maps.
`PackageProofs` holds what is proved of releases, and of lockfiles.

### VersionLists; ArtifactRetrieval; BinaryPublication, BinaryPublicationProofs

`VersionLists` begins with the rules of `version.rs`, which parses tolerant spellings,
orders and matches them, sorts and resolves.  In it one package is listed by the
registry in order of publication, and by its tags in any order and with a `v` or not.

`ArtifactRetrieval` (`source.rs`, `recovery.rs`, `mirror.rs`) begins with the locators of
every scheme, the order of recovery, and mirror descriptors.  In it a publisher puts bytes
in those places one by one, places go down, and a client asks the registry and then tries
one place after the other.  `IsQuery` and `IsMirror` say which fields a query and a
descriptor have.  What is proved of version lists and of searches stands in
`BinaryPublicationProofs`.

`BinaryPublication` (`binary_artifact.rs`) begins with the rules of descriptors,
metadata, lists and lock records and with `IsIdempotentWith`.  Its actions are two
publishers whose requests and answers are lost and sent again (`Put`, `Lose`, `Hear`),
the registry (`Handle`, `Yank`), and installers that read a list, freeze a record and
unpack the archive on a file system that folds case (`Read`, `Freeze`, `Install`).
The rules of a descriptor keep two files from one place there
(`CommandsFindTheirFiles`).  They do not keep a file from lying below another one
(`bin/tool` and `bin/tool/data`): nobody can extract such an archive (`Unpacks`, external),
and it is published, listed and locked all the same.

### NativeRequirements, NativeInterop; OciDistribution; NamespaceClaims; NixExports; Interop, InteropProofs

`NativeRequirements` (`native_dependency.rs`) translates npm and Cargo requirements
word by word and locks a dependency.  `NativeInterop` begins with the record of a
family of packages (`native_registry.rs`); in it a registry's versions come and go,
a project resolves, edits its declaration under the lock and restores; a family is
uploaded one package after the other, meta package last, and installed per platform.
`NpmMatches` restates node-semver from its intervals, independently of the translation;
`Fits` is what the semver crate makes of a comparator, the partial ones included.

`OciDistribution` (`oci.rs`) parses references, and validates and orders records; its
publishers push and move tags, and a client pulls later.
`NamespaceClaims` (`namespace_claim.rs`) has two planners, an adapter per provider that
does the steps of an entry and reports, and others who take a name first.  What a receipt
says of a name is the adapter's word: `validate` compares it with nothing, so the promise is
not that receipts are true but that whatever an adapter meets can be reported
(`EveryProviderIsAnswered`).  `NixExports` (`nix.rs`, `nix_plan.rs`) has planners that
write plans in any order, builders that realize outputs again and report references in
any order, a sealer that gathers evidence late and twice, and importers.  They share no
variable: `Interop` extends them all, `InteropSpec` is the conjunction of their
specifications, and `SameMeaningSameBytes` the promise that all their documents make.

## 3. Runs

All runs are exhaustive, and all but three pass.  `tlc -workers 2 -config <cfg> <module>`.
Components that do not interact share a run as *scenes*: the variable `scene` is
chosen in the initial state and never changes, each scene runs one component with its own
bounds, and the variables of the others keep their initial or no value.  A property that
names several is the conjunction of the named parts that stand before it in the module.

| Run | Bounds | Shows |
|---|---|---|
| `edge_admission` | lifetime 2 s, 4 or 5 instants, 1 session, 2 keys, epochs 0..1, 1 capability, clock error 1 s; scene `sessions`: epochs, claims refused on sight, policies within the contract; scene `contract`: key rotations, defective issuers, policies beyond it | revoked sessions, retired keys and superseded epochs are served no longer than the ages; a dark edge goes quiet; refinement of `RevocableAccess` |
| `task_graphs` | all 4096 reference relations on three tasks and an alias; one or two tasks with patterns, unknown names and clashing aliases | termination; refinement of `TaskVerdict` |
| `graph_documents` | 1 producer, lists of 2 items, features in both orders, a declared, a resolved and a projected start, edits, projections, every alteration on the way, 1 accepted message beside the one in transit | a digest names the meaning of a document; what is sent is accepted, and no other encoding of it is |
| `trust_documents` | scene `ceremony`: 3 roots, threshold 2, a draft, its revision, an unsound one, 4 approvals; `chain`: 2 roots, 2 versions, 2 checkpoints of 2 index roots, a neighbour, damaged copies; `snapshots`: 2 packages, 3 archives, 2 snapshots, parts in two orders, leftover entries, 2-bit sums (`MaxU64 = 3`) | a threshold of different roots saw what a reader goes by, and good signatures suffice in any order; the next document can be followed; refinement of `RegistryHistory`; readers see one whole state of the server and finish |
| `trust_rotation` | 1 root, 2 versions, 2 keys, instants 0..3, one stray checkpoint, a key list with a key in both states | retired keys are dead to readers that know; a lagging signer's influence ends with the last document that has its key active |
| `environment_files` | scenes `spellings` and `provenance`: 2 hosts hold any two of some 70 plans (versions, groups, references, paths; sources, checksums, packages, origins); `installs`: 2 hosts of 2 platforms, 3 plans, 2 resolutions, at most 2 resolved (`MaxResolved`); `locks`: 2 resolvers, 17 resolutions, digests in both cases | a digest is that of the meaning; a stored plan is read back, and is as frozen as before; written locks are read back and do not show their order; refinement of `FrozenEnvironment` |
| `package_release` | scene `release`: 1 save (`MaxSaves`), 2 uploads (`MaxUploads`), candidates 0..2; a package for every registry, some 20 polyglot packages, and one sound and one unsound form of every section; `lock`: 2 identities, 3 digests, offers to all four arrays; merged, unsorted, hand-assembled and future files | a slice parses, builds, installs and is routed as its target; planned releases land; channels stay apart; files written are canonical; failures leave no trace; refinement of `PinnedLock` |
| `artifacts` | scene `binary`: 2 publishers, 1 installer, 4 sound and 6 defective uploads and one with a file below another, 1 loss; `retrieval`: 4 repositories, 5 sections, 1 copy beside the registry's (`MaxCopies`), registry, CDN and mirror unreliable; `lists`: 2 published of 11 spellings, 6 requirements | publishers are told the truth and one record never hides a list; commands find their files; the search loses no copy; lists resolve alike in any order; everyone is served, but for archives with a file below another |
| `interop` | scenes `dependency` (numbers to 2, 2 releases of 10 candidates, every operator with every kind of body), `family` (2 platforms), `oci` (7 records), `claims` (4 providers), `nix` (3 outputs realized and gathered, plans in two orders and with each defect) | npm's own choice; restored is declared; platforms get their packages; records lead to one layer; every provider is answered; translations hold; same meaning, same bytes |
| `plan_dot_slash_dir` | 2 plans, one with the directory `./` | ends in the first counterexample below |
| `widget_ecosystem` | a target whose key is no language | ends in the second |
| `npm_prereleases` | the requirement `>=1.0.0-1 ^1` | ends in the third |

`plan_dot_slash_dir` states what the round-trip tests of the crate say, on an input
that the passing runs leave out: a task with `dir = "./"` is valid, and
`to_toml_string` writes `dir = ""`, which `parse_toml` refuses.
`widget_ecosystem` states what the comments of `manifest_for_target` say: a target
whose key does not determine its ecosystem declares one, and the artifact of that
target must carry it for the install guard.  It carries it only when the key is the token
of a language.  `SlicesParse` therefore speaks of targets whose keys name a language.
`npm_prereleases` states what the documentation of `NativeVersionRequirement::parse`
says, that what is translated is the lossless subset.  Node-semver refuses a prerelease
unless a word names one of the same numbers, and reads `^1` as `>=1.0.0 <2.0.0-0` all the
same; in the semver crate `^1` is every version whose major number is 1.  With
`>=1.0.0-1` beside it, Zed locks 1.0.0-2 and npm would not.  `PROJECT.json` quotes the
lines that all three contradict under `findings`.

Relatives and exceptions that the passing runs leave out, each by an input or a
condition that can be put back:

- A source `./` is normalized to the empty string and dropped, so a task that declares
  it and one without sources have one digest (`KeptWhole`).
- The revision of a plan's source is lowercased even where it is a moving branch
  (authoring mode): two plans that differ in the case of a branch name share a
  digest.  The branches of the runs are lower case (`KeptWhole`).
- Only the `./` at the beginning of a path is stripped.  `src/./main` and `src/main` are
  one place and two digests: the lock of one plan is refused for the other
  (`StraightPlan`).
- What is behind the `./` is validated only when the plan is read again: `./~` and
  `./C:` are valid and are stored as `~` and `C:`, which are not.  This is the first
  counterexample again, with other remainders (`PlainPlan`).
- A lock with two path sources that differ in the slash only is valid and is written,
  but normalization makes their identities equal, and the written lock is refused
  (`SpelledOnce`).
- Conan and Hackage keep one version for all candidates of a package: a second
  candidate is planned and refused there (`OneVersionForAllCandidates`).
- Of npm requirements, a partial bound other than a lower one (`^1`, `~1`, `1`, `<2`,
  `<=1`) stands for other prereleases in the semver crate than in node-semver, which
  shows only when another word admits prereleases; this is the third counterexample, with
  its relatives.  `Lossless` leaves such declarations out.
- An archive that lists a file below another is accepted and can be locked, and is never
  installed.  The run publishes one; `EveryoneIsServed` makes an exception for locks
  of such archives and for nothing else (`LockedNested`).  No document of the repository
  says whether they are valid.
- Two places of one mirror may coincide and be tried twice; `InventoryIsExhausted`
  speaks of the other places only.

Why the bounds suffice.  The edge properties compare pairs of stamps with one
limit each; a lifetime of 2 s has a first, an interior and a last second, and
four or five instants let every pair of events be separated by more than the
lifetime.  One session and one capability are enough because no action of the
edge relates two of them.  Three tasks have cycles of length one, two and three,
entered from on and off the cycle, and shared dependencies; the proofs remove the
bound.  A sort-and-deduplicate bug, a duplicate identity or a lost entry shows
with two entries of one array; two arrays are needed for the conflict rule.  For
graphs, items that differ only in the order of their features are the smallest
witness of the order in which the two sorts must run.  A threshold of two of three
roots lets a document be one signature short, have one to spare, or have one root
twice; two versions have one predecessor link, and two checkpoints are the least
that can be taken out of order.  Registry clocks only compare: four instants hold an
early expiry, a late one, and a moment after each.  Two snapshots of two packages are
the least in which a reader can mix an old record with a new one, and sums of two bits
have values at, below and above their limit.  Two hosts hold any two plans at
once, which is what the plan properties compare; three plans, of which two mean the
same, and two resolutions let a lock be of this plan, of its other spelling, of
another plan, and older or newer than the plan at hand.  Two uploads are the least
that can take each other's place, and each is of any registry, channel and candidate.
One lost message lets every exchange of a publisher be repeated once, before or after
the other publisher's; a second repetition meets the state of the first.  Requirements
compare numbers with their successors: 0, 1 and 2 are a number, one below and one
above.  Documents that are compared pairwise need two makers and two orders.

Deadlock is checked except where the system really stops: validation returns, the
edge and registry runs end at their horizons, publishers, clients and adapters finish.

**Fairness.**  Nothing in the crate schedules anybody, so fairness is stated only of
actors that carry on with what they began, and each time of the weakest kind:
`WF_vars(Next)` of task validation, which is one sequential computation; a reader that
took a checkpoint goes on (`Find`, `FetchRecord`, `Expand`), while the exporter may stop
for ever; a publisher sends and hears (`Progress`), while only boundedly many messages
are lost, and an installer that froze a record unpacks it; a client that began to
retrieve goes on; and an adapter that has a plan goes on with it.  No fairness is assumed
of loss, outages, yanking, editing, revocation or clocks.

## 4. Proofs

`tlapm` proves the theorems of `EdgeFallbackProofs`, `EnvironmentProofs`,
`RegistryTrustProofs`, `PackageProofs`, `DependencyGraphProofs`,
`BinaryPublicationProofs` and `InteropProofs`, and the lemmas of `Arrangements`, for
every value of the constants that satisfies the assumption of the module (`ConstantsAssumption`, `PlansAssumption`, `PlanAssumption` and
`HostsAssumption`, `TrustAssumption`, `LockfileAssumption`, `DocumentsAssumption`,
`BinaryAssumption`, `SpellingsAreTexts`, `RetrievalAssumption`, `PackageReleaseAssumption`) and the hypotheses that the theorem names.

*EdgeFallback.*  `ConstantsAssumption` asks for naturals where the code has
unsigned integers and that clock errors do not take a stamp below zero; nothing
is assumed of the number of sessions, keys, policies or of the lifetime.  A
bound on what was served is not inductive: it depends on when the served
capability was minted and checked.  The invariant is

    IInv == TypeOK /\ CheckInv /\ EpochInv /\ KeyInv /\ ServedInv

where `CheckInv` places every check, in the issuer's memory and in every minted
capability, before the session's revocation; `EpochInv` and `KeyInv` place every
mint before the epoch it carries was superseded and before its key was retired,
and say that the edge's key snapshot holds only keys still published when it was
taken; `ServedInv` says that the latest admission met `Validate`,
`PolicyWithinContract` and the ages at its moment.  Each safety property follows
from `IInv` by arithmetic on the stamps.  The refinement of `RevocableAccess` is
proved step by step: every action but `Revoke`, `Tick` and `Serve` is a stutter.

*EnvironmentTasks.*  `PlansAssumption` says that a plan's task set is finite.
The invariant is `TypeOK`, `AliasInv`, `ReferenceInv`, `StackInv`, `FollowedInv`,
`VisitedInv`, `ProgressInv` and `VerdictInv`.  Its core is `VisitedInv`: the visited set is
closed under successors and every nonempty part of it has a task that waits for
none of that part; a task joins the set only when all its successors are in it,
so the statement is kept, and at `Accept` every task is visited.
`FollowedInv` says that what an active call has already followed is visited or is
the next call on the stack, which makes the reported suffix of the stack a cycle.
The refinement theorem covers all four verdicts.

*RegistryTrust.*  `TrustAssumption` gives constants their types, makes the set of
roots finite and the threshold positive; keys, readers, drafts and bounds are
arbitrary.  The invariant is `ShapeInv`, `ApprovalInv`, `DraftInv`, `ReleasedInv`,
`TrustedInv`, `SignerInv` and `ViewInv`.  Every signature in any document was made
(`Document`), its bytes tell what its root saw (`ApprovalInv`), and a reader's
document verifies (`TrustedInv`).  The threshold counts positions of an array;
`validate` makes the identifiers at different positions different, so mapping a
position to its root is injective into the roots that saw that very meaning, and
their number is at least the threshold.  For the refinement, a copy of a checkpoint
with a good signature equals the original, because the payload covers every field,
the registry with it; with no stray checkpoints (`MaxStrays = 0` is the theorem's
only further hypothesis) what a reader takes up is in the history, ahead of its view.

For the three remaining invariants, `OriginInv` says where documents come from.
`KnownApprovals`: an approval covers what its root was shown, without the signatures.
`ChainedDraft`, `ChainedReleases`: the link of each document is to the bytes of the one
before.  `CopiesTrusted`: a reader goes by a copy of some released document, its arrays
turned round, or one signature lost or doubled, or one field altered.  `CeremonySuffices`
counts positions of good signatures again, now from below: the roots that approved are
at most as many as the positions that their signatures have in the draft.  For
`ChainCanBeFollowed`, a copy that lost or doubled a signature does not verify when none is
to spare, and an altered one covers another payload; what is left has the released
document's own bytes, which the next one links to.  For `LaggingSignerWindow`, the good
positions of an altered copy and those of the original are two majorities of the same
array (`TrustedIsReleased`): they share a signature, so both documents have one payload
and say the same, expiry and keys included.

*RegistryPublication.*  Its theorems stand in `RegistryTrustProofs` too.
`GivenPublication` says of what types packages, requests, contents and parts of records
are, and that a refusal is no number and nothing no record.  The invariant
(`PublicationInv`) says what every snapshot is, the one that is selected, the one that is
being written, those that were built and the one that a reader took (`IsRoot`): the
records of all packages held at one moment, each once and in order, made of parts that
were found in some order.  That is not in the validation as it stands: a snapshot is
refused when two entries have one path, not when one is of an earlier snapshot.  But a
package that was held is held (`StillHeld`), so a leftover entry has a path that is taken
by the new record, and a list that is strictly ascending cannot have both
(`EntriesAreBuilt`).  Objects of a snapshot are in the store or still to be written, of a
selected one in the store.  From there, what a reader finds is the record of its package
or there was none (`NamedInRoot`), and sums that are not refused are the sums
(`SumsAgree`).  For `RebuildIsTheSame`, two findings of the parts that a record accepts
are sorted to one list (`SameDependenciesSorted`): validation wants no package and no
feature twice, and what is twice nowhere has one order only.  `OneRelease` is the only
further hypothesis of `PublicationIsWhole`: the findings are of one release, so they have
the same parts in whatever order.  `MCRegistryTrust` assumes it and the types of its
instance (`AsTheTheoremsAssume`), so TLC evaluates both.  `NothingIsMissing` needs no hypothesis
about parts: a reader that has begun finds everything, and accepts it, wherever the
exporter stopped.  That it finishes is liveness and stays with TLC (`ReadersFinish`).

*Arrangements.*  What sorting a sequence step by step computes is an induction over it,
which the prover cannot do.  A sort that is specified by rank needs one induction, that
ranks are the numbers from 1 to the size of the set (`RanksNumber`); it is made from
the least counterexample (`LeastNumber`).  `OnlyArrangement` then says that any list
with the same elements, each once and in order, is this one, which is what every
"the same whatever the order of the input" below comes down to.

*Lockfile.*  `LockfileAssumption` types the constants and says that the revision
derived from a canonical digest is immutable, which `artifact_revision` guarantees by
its form.  The invariant is `TypesHold /\ WrittenFileIsCanonical`.  Lemmas show that
`retain`, `push` and the stable `sort_by` change what a search finds at one key only
(`UpsertedList`), although a vector may hold a key twice when a caller assembled it; so
`Pins` of the vectors are `PinnedLock`'s maps, and each operation is a step of it.  A
list of distinct keys sorts to the only arrangement of its entries, and a sorted one to
itself (`SortedAlready`), so the document that is written is canonical, keeps the pins,
and is written again as it is (`CanonicalDocument`).

*PackageRelease.*  `PackageReleaseAssumption` says that what authors save has the fields of
a manifest, whatever they hold, and that no key is the mark of the whole repository.  Of
releases the invariant is `ReleasesHold`: each was planned (`Planned`), snapshots meet only
snapshots, and what was refused found another in its place.  The rest is what a version
tells: in each of the eight syntaxes of prereleases a version that a host accepts gives
away its base, its channel and its number (`Spelled`, `MarksDiffer`), except on Conan and
Hackage, where the label or the place does so.  Two marks of PEP 440 are the same, that of a
nightly and that of a snapshot; PyPI has no snapshots, and `channel_route` refuses them.
Nothing is assumed of hosts.  Of artifacts the invariant is `ShelfHolds`: each is a valid
manifest or the slice of one.  That the slice parses is shown check by check
(`SliceIsValid`): its route was checked for the ecosystem that it is stamped with, at its
own directory, and is checked again at `.`; its packages are those of two lists without
repetition, joined without what was seen (`JoinedLists`).

*DependencyGraph.*  `DocumentsAssumption` asks for documents of any length.  The
derived order on vectors is shown to be a strict total order (`VectorOrder`, from the
first difference), hence the one on items (`OrdersAreTotal`).  `sort` followed by
`dedup` is then a function of the set of items (`SortDedupKeeps`), and normalization
is idempotent, keeps the meaning and is determined by it (`NormalForm`,
`MeaningNamesPayload`).  These are facts about documents; the invariant adds that
everyone holds documents and that what was accepted would be accepted again.

*BinaryPublication.*  `BinaryAssumption` says that the order of targets lists each
once, that sound uploads name targets of that order, and that archives are lists.  The
invariant says where everything comes from: `RecordsStem` (every record is that of an
acceptable upload, yanked or not, and no two have one package and target),
`AnswersStem` (a publisher's answer, on the wire or heard, agrees with the record of
its artifact) and `InstallersStem` (list, lock and archive of an installer stem from
such records, and the archive has the digest of the lock).  What a publisher was told
stays true because records are yanked but never replaced, and `Plain`, the record
without its yank flag, is all that `is_idempotent_with` compares.

*VersionLists.*  `SpellingsAreTexts` says what a spelling may be: a tag, or any segments
with a prerelease and a suffix of the forms that are modelled.  The invariant is
`ListsAgree`: the registry's list and the tags hold the same texts but for a `v`, each in
its own order.  A text and the text without its `v` are read as one version
(`TextsAreRead`), and a range looks at nothing else; versions are compared by six numbers
in lexicographic order, which is shown to be strict and total (`KeysInOrder`), so among
those that fit there is a greatest (`ResolvesToGreatest`), from two such lists the same one
(`ResolvedAlike`), and nothing that fits stands before it in the sorted list unless it
compares as equal (`FirstOfSorted`).

*ArtifactRetrieval.*  `RetrievalAssumption` says that releases have the fields of a query,
with an organization that is not empty, and that declared mirrors have a whole number for
their priority; of how many there are, of sections and of URLs it says nothing.  That a
client failed tells nothing about copies unless its list is known: the invariant says that
what was tried, followed by the plan, is the search that follows from what the client knows
(`PlanIsTheSearch`), that the publisher fills the places of a kind together
(`CopiesAreWhole`), and that what was tried without success held nothing or was down
(`TriedInVain`).  What remains is about lists.  Retaining and sorting lose nothing and repeat
nothing, and the priorities put the three kinds of GitHub first.  No two locators of the
inventory are the same: keys are unrepeated, the two asset names are told apart by the
organization, manifests and blobs by the path.  And a client that knows less than the
publisher still finds a copy of each kind that is up: without the digest one of the CDN's
keys, an asset, the manifest or the archive; at a mirror the same keys under the same
addresses; by the bare name the coordinate key of the CDN.

*EnvironmentFiles.*  `PlanAssumption` says that `~` and a drive are names of their own;
`HostsAssumption` gives every plan and resolution the type of what can be parsed.  They
may be of any number and length, and so may hosts.  Most of the proof is about documents.
A plan's normal form means what the plan means (`PlanNormal`), plans that mean the same
have one normal form (`PlanTold`), the normal form is as valid as the plan, in each mode
(`PlanStaysValid`), and is its own normal form (`PlanAgain`); `LockNormal`, `LockTold` and
`LockStaysValid` say so of locks, and `PinsForTarget` says what a host takes out of one.
Each is put together from the same facts about a path, a source, a tool and a task.

The refinement of `FrozenEnvironment` is not a matter of the digest check alone: the check
compares a digest in a file with a digest of a plan, and says nothing about what was
resolved.  The invariant `Held` adds it: the plans that hosts hold are valid, and the pins
of every lock, in memory or stored, were chosen by a resolution for a valid plan that has
the digest the lock names.  Only `Resolve` makes pins, and `ReadLock` and `WriteLock` keep
them because normalization does.  At `Install` the two digests are equal, hence the normal
forms, hence the meanings.

The theorems are stated with hypotheses on what authors and resolvers write, each where
the code does not keep more: `PlansKept` wherever a digest must tell meanings apart,
`PlansStraight` for plans that mean the same to have one digest, `PlansPlain` for a
stored plan to be readable, `SpellingsDiffer` for a written lock.  `MCEnvironmentFiles`
assumes the same of the plans and resolutions of its runs (`AsTheTheoremsAssume`), so TLC
shows that plans and resolutions of that kind exist; what each leaves out is listed in
section 3.  `Refinement` also asks that `Nothing` is no installation.

*Interop.*  The modules have no assumption; what a theorem asks of the documents that
actors may write is among its hypotheses, which say what the types of the code say
(`TypedPlan`, `TypedFamilies`, `TypedOci`, `TypedNix`)
and that a refusal is no list and no map.  Three say more, and what they say is what the
thing is for: `DigestsDecide`, that a digest of a manifest decides its layers; `PathsDecide`,
that a store path decides whether it refers to others; `OnePlatformEach`, that families
publish one version of a package for one platform (registries take a version once).  The
instance of `MCInterop` satisfies them (`AsTheTheoremsAssume`).  Documents may be of any
length and number.

Each part has an invariant of its own.

- `PlannersAgree`, `FamilyHasOneRecord` and `RecordsOfOneArtifactAgree` have one shape:
  whatever was written is the normal form of a valid document (`SettledPlan`,
  `SettledFamily`, `KeptOf`), and two normal forms with the same parts are equal.  A sorted
  list is determined by what it holds, as often as it holds it, when the order tells
  different elements apart (`SameElementsSameList` of `Arrangements`); entries, selections
  and layers are told apart by what validation wants to be unique.  The inner lists are
  settled first, for the outer sort keeps them.
- `NixHeld`: plans are normal forms of valid plans, each gathered result was realized, and
  sealed and imported records come of results that were.  Sealing moves lists inside
  lists: `SettledRecordsAgree` settles references and signatures, then outputs, then the
  record.  For `CommandsStayInside`, a safe path has no segment that is empty, `.`, `..` or
  holds a backslash; splitting at backslashes leaves it alone (`OneSegmentEach`) and the
  walk along it is the path (`PlainWalk`), both by induction along the segments.
- `FamilyHeld` and `InstalledHeld`: what a registry has are the publications of families
  that were valid, selections and publications in another order at most.
- `OciHeld` and `PullHeld`: kept records lead to manifests that were pushed.  `Parse` finds
  the last `:` after the last `/`, and the first `@`, in a text that `Display` put together;
  a registry with a port, a tag and a digest are three places where the same signs stand
  (`ReferenceIsRead`).

`BoundedRevocation`, `ContractCeiling`, `BoundedRetiredKey`, `BoundedStaleEpoch`,
`AcceptedIsAcyclic`, `ReportedCycleIsReal` and the type invariants of the task and trust
modules are proved although no run lists them by name: the runs check the refinements
and the conjunctions (`BoundedStaleness`) that imply them.

Only model-checked:

- every liveness property (termination of task validation, readers that finish,
  `EveryoneIsServedThere`, adapters that answer), which is out of this prover's reach;
- `ResolvesAsNpm` and `RestoresWhatIsDeclared`: they compare the translation of a requirement,
  which goes through its words one after the other, with the intervals of node-semver.

## 5. Not modelled, and why

Parsing of TOML and JSON, text bounds, identifier grammars, regular expressions
and rendering: they concern one value at a time and unit tests reach them.
Types without operations (`sync.rs`, REST DTOs), generated slices and repository
scripts keep no state.  `signing.rs`, `package_security.rs` and `retirement.rs` build
preimages or validate one value field by field; the programs that verify, rotate and
retire are not in this repository.  `src/src/environment*.rs` and `src/src/nix.rs` are
older copies that no crate compiles.

Of the modelled components, these parts are left out.

- *Environment.*  Values, variables, options and extensions of a plan are one field;
  the normalization of version 1 plans, which version 2 does not use; install roots and
  search directories of a lock.  Directories are compared as the code spells them, so
  `./clients` and `clients` are two.
- *Manifest.*  Grammars of names and URLs; the detection of ecosystems by marker
  files, publish credentials, and the exclusion patterns.  Forge mirrors of two
  registries of one protocol (PyPI with TestPyPI, Maven Central with Clojars) may meet
  at one place and are not checked against each other.  The configuration of flags-2-env
  is checked against the outputs of the common host kind only, as in the code.
- *Sources.*  Cache paths, archive formats, raw branches, index and metadata URLs of
  mirrors and the defaults for public ones, `from_locator` and `serves`.
- *Versions.*  Of versions that compare equal `resolve` takes the last of the list and
  `sort_desc` keeps the first: `ListsResolveAlike` compares versions, not spellings.
- *Nix, OCI, claims.*  A record is not tied to a plan by the crate: a sealed record needs
  one realized output for every announced system, not for every system and output, and a
  receipt is checked by itself.  The models say no more than that.
- *Dependents.*  `dependents.rs` validates registrations, impact requests and plans, one
  document at a time.  The registry that keeps registrations, the planner that decides
  whom a release concerns and the notices are other programs, and no check of the crate
  relates a plan to the registrations it was made from: a model could only say of the
  planner what it assumed of it.
- *Registry trust.*  Re-released documents and surplus signatures, see section 2.

## 6. Plan

What further work would add, in order:

1. Attestations and key states of `signing.rs` among publishers, registry and clients,
   composed with `BinaryPublication`.
2. The editor of a manifest's dependencies beside the manifest's validation.
