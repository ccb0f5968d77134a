--------------------------- MODULE ArtifactRetrieval ---------------------------
(***************************************************************************)
(* Where the bytes of a published version may be found                     *)
(* (src/rust/source.rs), the order in which they are looked for once the   *)
(* registry has failed (src/rust/recovery.rs), and the mirrors a package   *)
(* declares (src/rust/mirror.rs, and resolved_mirrors of manifest.rs);     *)
(* then one version between its publisher and a client, through outages:   *)
(* the publisher puts the bytes in the places that follow from its         *)
(* manifest, one at a time; the registry, the CDN and the mirrors may go   *)
(* down; the client asks the registry, then tries the places of            *)
(* artifact_recovery_locators and of the package's mirrors until one gives *)
(* the bytes.  Publisher and client are programs outside this repository.  *)
(*                                                                         *)
(* A name, a version, a tag and a path segment are sequences of words, so  *)
(* that joining two names with "-" is \o; a version and a tag are <<v,     *)
(* number>>, v being "v" or "".  A URL is [host, user, path]: user, whether *)
(* it names an account before the host; path, the sequence of its          *)
(* segments.  A place is <<base, path>>.  The archive format and the       *)
(* wording of paths are left out.                                          *)
(***************************************************************************)
EXTENDS Absence, Arrangements, SequencesExt

Url(host, path) == [host |-> host, user |-> FALSE, path |-> path]
GithubWeb == Url("github.com", <<>>)
DefaultR2Base == Url("cdn.zpkg.net", <<>>)
Given(value) == value \notin {Absent, Malformed}
FirstGiven(values) ==
    LET given == SelectSeq(values, LAMBDA v : v # Absent)
    IN  IF given = <<>> THEN Absent ELSE Head(given)

(* parse_repo_ref takes any host; parse_github_identity takes GitHub only, *)
(* and no account before an http host.                                     *)
RepoRef(url) ==
    IF Given(url) /\ Len(url.path) = 2 /\ Malformed \notin ToSet(url.path)
    THEN [host |-> url.host, owner |-> url.path[1], repo |-> url.path[2]]
    ELSE Absent
GithubIdentity(url) ==
    LET ref == RepoRef(url)
    IN  IF ref # Absent /\ ref.host = "github.com" /\ ~url.user
        THEN [owner |-> ref.owner, repo |-> ref.repo] ELSE Absent
GithubIdentityFor(org, name, url) ==
    IF GithubIdentity(url) # Absent THEN GithubIdentity(url)
    ELSE [owner |-> org, repo |-> name]

-----------------------------------------------------------------------------
(* [package.artifacts]: [base, key, prefix, release, packages], each       *)
(* Absent or given.  A key template and a prefix are sequences of          *)
(* segments, some of them placeholders.                                    *)
EmptySection ==
    [base |-> Absent, key |-> Absent, prefix |-> Absent, release |-> Absent,
     packages |-> Absent]
SectionOf(q) == IF q.section = Absent THEN EmptySection ELSE q.section
Enabled(flag, repo) ==
    IF flag = Absent THEN GithubIdentity(repo) # Absent ELSE flag

ValidTemplate(template) ==
    /\ template # Malformed /\ template # <<>>
    /\ ToSet(template) \cap {"..", "", "{unknown}"} = {}
ValidSection(section) ==
    /\ section.base # Malformed
    /\ section.key # Absent => ValidTemplate(section.key)
    /\ section.prefix # Absent => ValidTemplate(section.prefix)

R2PublicBase(declared, envBase, envKey) ==
    LET base == FirstGiven(<<declared, envBase, envKey>>)
    IN  IF base = Absent THEN DefaultR2Base ELSE base

(* A query is [org, name, version, tag, sha, repo, section, registry,      *)
(* base].  A placeholder that has no value leaves an empty segment, which  *)
(* is dropped from either end of the key and kept inside it.               *)
Segment(token, q) ==
    CASE token = "{org}" -> q.org
      [] token = "{name}" -> q.name
      [] token = "{version}" -> q.version
      [] token = "{tag}" -> q.tag
      [] token = "{sha256}" -> IF q.sha = Absent THEN <<>> ELSE <<q.sha>>
      [] OTHER -> <<token>>
Expand(template, q) ==
    LET key == [i \in DOMAIN template |-> Segment(template[i], q)]
        kept == {i \in DOMAIN key : key[i] # <<>>}
    IN  IF kept = {} THEN <<>>
        ELSE SubSeq(key, CHOOSE i \in kept : \A j \in kept : i <= j,
                         CHOOSE i \in kept : \A j \in kept : i >= j)

(* A prefix is taken as it stands, placeholders and all. *)
Verbatim(prefix) == [i \in DOMAIN prefix |-> <<prefix[i]>>]

ContentKey(sha) == <<<<"artifacts">>, <<sha>>>>
FileName(q) == q.name \o q.version
GithubKey(q) ==
    LET github == GithubIdentityFor(q.org, q.name, q.repo)
    IN  <<<<"github">>, github.owner, github.repo, q.tag, FileName(q)>>
PackageKey(q) == <<<<"packages">>, q.org, q.name, q.version, FileName(q)>>

(* push_unique: of equal keys the first is kept. *)
Unrepeated(keys) ==
    Arranged(keys,
             {i \in 1..Len(keys) : \A j \in 1..(i - 1) : keys[j] # keys[i]},
             ByPosition(keys))
R2ObjectKeys(q) ==
    LET section == SectionOf(q)
        content == IF q.sha = Absent THEN <<>> ELSE <<ContentKey(q.sha)>>
        declared ==
            IF section.key # Absent THEN <<Expand(section.key, q)>>
            ELSE IF section.prefix # Absent
            THEN <<Append(Verbatim(section.prefix), FileName(q))>> ELSE <<>>
    IN  Unrepeated(content \o declared \o <<GithubKey(q), PackageKey(q)>>)

-----------------------------------------------------------------------------
(* Release assets, the container registry and the archive of a tag. *)
AssetNames(org, name, version) ==
    <<<<"zpkg">> \o org \o name \o version, <<"zpkg">> \o name \o version>>
ReleaseAsset(identity, tag, asset) ==
    <<GithubWeb, <<identity.owner, identity.repo, <<"releases">>, tag, asset>>>>
ArchiveOf(identity, tag) ==
    <<GithubWeb, <<identity.owner, identity.repo, <<"archive">>, tag>>>>
Ghcr == Url("ghcr.io", <<>>)
GhcrManifest(identity, tag) ==
    <<Ghcr, <<identity.owner, identity.repo, <<"manifests">>, tag>>>>
GhcrBlob(identity, sha) ==
    <<Ghcr, <<identity.owner, identity.repo, <<"blobs">>, <<sha>>>>>>

At(kind, place) == [kind |-> kind, place |-> place]
AllAt(kind, places) == [i \in DOMAIN places |-> At(kind, places[i])]
StoredAt(base, keys) == [i \in DOMAIN keys |-> <<base, keys[i]>>]
Provided(condition, list) == IF condition THEN list ELSE <<>>

(* artifact_locators: everything known, in the historical order. *)
RegistryPlaces(q) ==
    Provided(q.registry # Absent /\ q.sha # Absent,
             <<At("registry", <<q.registry, ContentKey(q.sha)>>)>>)
R2Places(q) ==
    AllAt("r2", StoredAt(R2PublicBase(SectionOf(q).base, q.base, Absent),
                         R2ObjectKeys(q)))
ReleasePlaces(q) ==
    LET identity == GithubIdentityFor(q.org, q.name, q.repo)
        assets == AssetNames(q.org, q.name, q.version)
        urls == [i \in DOMAIN assets |->
                    ReleaseAsset(identity, q.tag, assets[i])]
    IN  Provided(Enabled(SectionOf(q).release, q.repo), AllAt("release", urls))
PackagesPlaces(q) ==
    LET identity == GithubIdentityFor(q.org, q.name, q.repo)
    IN  Provided(Enabled(SectionOf(q).packages, q.repo),
                 <<At("packages", GhcrManifest(identity, q.tag))>>
                 \o Provided(q.sha # Absent,
                             <<At("packages", GhcrBlob(identity, q.sha))>>))
ArchivePlaces(q) ==
    LET identity == GithubIdentityFor(q.org, q.name, q.repo)
    IN  Provided(q.tag # <<>>, <<At("archive", ArchiveOf(identity, q.tag))>>)
ArtifactLocators(q) ==
    RegistryPlaces(q) \o R2Places(q) \o ReleasePlaces(q) \o PackagesPlaces(q)
    \o ArchivePlaces(q)

(* artifact_recovery_locators: a stable sort of what is not the registry;  *)
(* before it, what it would be without the sort, and without the archive.  *)
RecoveryPriority ==
    [release |-> 0, packages |-> 1, archive |-> 2, r2 |-> 3, registry |-> 4]
OfKinds(locators, kinds) ==
    Arranged(locators, {i \in 1..Len(locators) : locators[i].kind \in kinds},
             ByPosition(locators))
NotTheRegistry == {"r2", "release", "packages", "archive"}
RecoveryUnsorted(q) == OfKinds(ArtifactLocators(q), NotTheRegistry)
RecoveryWithoutArchive(q) ==
    OfKinds(ArtifactLocators(q), NotTheRegistry \ {"archive"})
RecoveryLocators(q) ==
    SortedBy(OfKinds(ArtifactLocators(q), NotTheRegistry),
             LAMBDA a, b : RecoveryPriority[a.kind] < RecoveryPriority[b.kind])

(* A version is looked for under two tags, its own spelling last.          *)
GitTagsForVersion(version) ==
    IF version[1] = "v" THEN <<version>> ELSE <<<<"v", version[2]>>, version>>

-----------------------------------------------------------------------------
(* Mirrors: [kind, url, path, repository, prefix, priority, alternates].   *)
(* The raw branch and the switches of what a mirror serves are left out:   *)
(* nothing in this module reads the latter.                                *)
ObjectStore(url) ==
    [kind |-> "object-store", url |-> url, path |-> Absent,
     repository |-> Absent, prefix |-> <<"zpkg">>, priority |-> 100,
     alternates |-> <<>>]
GithubReleaseOf(repo) ==
    [ObjectStore(repo) EXCEPT !.kind = "github-release", !.repository = repo]

BaseUrls(mirror) ==
    LET urls == <<mirror.url>> \o mirror.alternates
    IN  Arranged(urls, {i \in 1..Len(urls) : Given(urls[i])}, ByPosition(urls))
MirrorRepository(mirror) == FirstGiven(<<mirror.repository, mirror.url>>)
ValidMirror(mirror) ==
    CASE mirror.kind = "directory" -> mirror.path # Absent
      [] mirror.kind \in {"github-release", "github-raw"} ->
            RepoRef(MirrorRepository(mirror)) # Absent
      [] OTHER -> mirror.url # Absent

(* A coordinate is [org, name, version, sha, tag].  The content key comes  *)
(* twice, as in the source.                                                *)
MirrorArtifactUrls(mirror, c) ==
    LET repo == MirrorRepository(mirror)
        identity == GithubIdentityFor(c.org, c.name, repo)
        keys == R2ObjectKeys([org |-> c.org, name |-> c.name,
                              version |-> c.version, sha |-> c.sha,
                              tag |-> IF c.tag = <<>> THEN c.version ELSE c.tag,
                              repo |-> repo, section |-> Absent])
                \o Provided(c.sha # Absent, <<ContentKey(c.sha)>>)
        bases == BaseUrls(mirror)
        assets == <<Append(mirror.prefix, c.sha)>>
                  \o AssetNames(c.org, c.name, c.version)
        tags == GitTagsForVersion(c.version)
        Tagged(tag) == [i \in DOMAIN assets |->
                            ReleaseAsset(identity, tag, assets[i])]
    IN  IF ~ValidMirror(mirror) \/ mirror.kind = "directory" THEN <<>>
        ELSE IF mirror.kind \in {"object-store", "zed-registry"}
        THEN FlattenSeq([i \in DOMAIN bases |-> StoredAt(bases[i], keys)])
        ELSE FlattenSeq([i \in DOMAIN tags |-> Tagged(tags[i])])

(* Manifest::resolved_mirrors; Malformed when it is an error. *)
MaxMirrors == 16
ResolvedMirrors(mirrors, repo, section) ==
    LET isGithub(m) == m.kind \in {"github-release", "github-raw"}
        guessed == Provided(/\ Enabled(section.release, repo)
                            /\ RepoRef(repo) # Absent
                            /\ \A i \in DOMAIN mirrors : ~isGithub(mirrors[i]),
                            <<GithubReleaseOf(repo)>>)
        withGithub == mirrors \o guessed
        stored == Provided(/\ section.base # Absent
                           /\ \A i \in DOMAIN withGithub :
                                 withGithub[i].url # section.base,
                           <<ObjectStore(section.base)>>)
        all == withGithub \o stored
    IN  IF Len(all) > MaxMirrors \/ \E i \in DOMAIN all : ~ValidMirror(all[i])
        THEN Malformed ELSE all

-----------------------------------------------------------------------------
(* What a query and a mirror are, as far as anything depends on it. *)
IsQuery(q) ==
    /\ q = [org |-> q.org, name |-> q.name, version |-> q.version,
            tag |-> q.tag, sha |-> q.sha, repo |-> q.repo,
            section |-> q.section, registry |-> q.registry, base |-> q.base]
    /\ IsList(q.org) /\ q.org # <<>> /\ IsList(q.name) /\ IsList(q.version)
IsMirror(mirror) == mirror.priority \in Int /\ IsList(mirror.alternates)

CONSTANTS
    Releases,       \* what is published: queries that know everything
    Mirrors,        \* the mirrors a manifest may declare
    Unreliable,     \* the kinds of places that may go down
    MaxCopies       \* bound: kinds of places the publisher comes to fill

ASSUME RetrievalAssumption ==
    /\ \A r \in Releases : IsQuery(r)
    /\ \A mirrors \in Mirrors :
          IsList(mirrors) /\ \A i \in 1..Len(mirrors) : IsMirror(mirrors[i])

VARIABLES
    release,        \* the publisher's query
    declared,       \* the mirrors of its manifest
    query,          \* what the client knows
    held,           \* the places that hold the bytes
    ready,          \* those that held them when the client began
    down,           \* the kinds that are down
    plan, tried,    \* the places the client will try, and has tried
    retrieval       \* "publishing", "trying", "installed" or "failed"

retrievalVars == <<release, declared, query, held, ready, down, plan, tried,
                   retrieval>>

ResolvedMirrorsOf(r) == ResolvedMirrors(declared, r.repo, SectionOf(r))

(* A client has the lock of the version, or has only heard its name. *)
Knowledge(r) ==
    {r, [r EXCEPT !.sha = Absent],
     [r EXCEPT !.sha = Absent, !.repo = Absent, !.section = Absent]}

RetrievalInit ==
    /\ release \in {r \in Releases : ValidSection(SectionOf(r))}
    /\ declared \in Mirrors
    /\ ResolvedMirrorsOf(release) # Malformed
    /\ query \in Knowledge(release)
    /\ held = {} /\ ready = {} /\ down = {}
    /\ plan = <<>> /\ tried = <<>>
    /\ retrieval = "publishing"

-----------------------------------------------------------------------------
(* The publisher: the release asset under its full name, both names in     *)
(* GHCR, every key of the CDN, and the keys of the object stores among its *)
(* mirrors.                                                                *)
MirrorCopies ==
    LET mirrors == ResolvedMirrorsOf(release)
        keys == R2ObjectKeys(release)
        stores == {i \in DOMAIN mirrors : mirrors[i].kind = "object-store"
                                         /\ Given(mirrors[i].url)}
    IN  {At("mirror", <<mirrors[i].url, keys[k]>>) :
            i \in stores, k \in DOMAIN keys}
PlacesOf(kind) ==
    IF kind = "mirror" THEN MirrorCopies
    ELSE LET places == OfKinds(ArtifactLocators(release), {kind})
         IN  IF kind = "release" /\ places # <<>> THEN {Head(places)}
             ELSE ToSet(places)
Kinds == {"registry", "r2", "release", "packages", "archive", "mirror"}

Upload(kind) ==
    /\ PlacesOf(kind) \cap held = {}
    /\ Cardinality({l.kind : l \in held}) < MaxCopies
    /\ retrieval \in {"publishing", "trying"}
    /\ held' = held \union PlacesOf(kind)
    /\ held' # held
    /\ UNCHANGED <<release, declared, query, ready, down, plan, tried,
                   retrieval>>

GoDown(kind) ==
    /\ kind \in Unreliable \ down
    /\ down' = down \union {kind}
    /\ UNCHANGED <<release, declared, query, held, ready, plan, tried,
                   retrieval>>

-----------------------------------------------------------------------------
(* The client. *)
MirrorPlaces(q, mirrors) ==
    LET c == [org |-> q.org, name |-> q.name, sha |-> q.sha,
              version |-> q.version, tag |-> q.tag]
        inOrder == SortedBy(mirrors, LAMBDA a, b : a.priority < b.priority)
    IN  FlattenSeq([i \in DOMAIN inOrder |->
                       AllAt("mirror", MirrorArtifactUrls(inOrder[i], c))])
Search ==
    OfKinds(ArtifactLocators(query), {"registry"})
    \o RecoveryLocators(query)
    \o Provided(query.repo # Absent,
                MirrorPlaces(query, ResolvedMirrorsOf(query)))
Begin ==
    /\ retrieval = "publishing"
    /\ plan' = Search
    /\ ready' = held
    /\ retrieval' = "trying"
    /\ UNCHANGED <<release, declared, query, held, down, tried>>

(* Some bytes are there: those of this version, for a digest is compared,  *)
(* and the places of other packages hold other bytes.                      *)
Try ==
    /\ retrieval = "trying" /\ plan # <<>>
    /\ tried' = Append(tried, Head(plan))
    /\ IF Head(plan) \in held /\ Head(plan).kind \notin down
       THEN /\ retrieval' = "installed"
            /\ UNCHANGED plan
       ELSE /\ plan' = Tail(plan)
            /\ UNCHANGED retrieval
    /\ UNCHANGED <<release, declared, query, held, ready, down>>

GiveUp ==
    /\ retrieval = "trying" /\ plan = <<>>
    /\ retrieval' = "failed"
    /\ UNCHANGED <<release, declared, query, held, ready, down, plan, tried>>

RetrievalNext ==
    \/ \E kind \in Kinds : Upload(kind) \/ GoDown(kind)
    \/ Begin \/ Try \/ GiveUp

(* The client carries on once it has begun. *)
Retrieve == Try \/ GiveUp
RetrievalFairness == WF_retrievalVars(Retrieve)
RetrievalSpec ==
    RetrievalInit /\ [][RetrievalNext]_retrievalVars /\ RetrievalFairness

-----------------------------------------------------------------------------
Github == {"release", "packages", "archive"}
Inventory == ToSet(ArtifactLocators(query))

(* The CDN and the mirrors are asked only when every place on GitHub has   *)
(* been tried (recovery.rs lines 7-8: GitHub first, so that a public       *)
(* restore works while nothing operated by Zed does).                      *)
GithubBeforeCdn ==
    \A i \in DOMAIN tried : tried[i].kind \in {"r2", "mirror"} =>
        {l \in Inventory : l.kind \in Github}
            \subseteq {tried[j] : j \in 1..(i - 1)}

(* No place of the inventory is tried twice, and a client that has given   *)
(* up has tried them all: the second order loses nothing of the first.     *)
InventoryIsExhausted ==
    /\ \A i, j \in DOMAIN tried :
          tried[i] = tried[j] /\ tried[i].kind # "mirror" => i = j
    /\ retrieval = "failed" => Inventory \subseteq ToSet(tried)

(* A client that knows the manifest fails only when every kind of place    *)
(* that held the bytes when it began is down; one that has only heard the  *)
(* name still reaches the CDN's copies, by the coordinate key every        *)
(* publisher writes (unless the manifest moves the CDN elsewhere).         *)
FailsOnlyWithoutCopies ==
    retrieval = "failed" =>
        \A l \in ready :
            \/ l.kind \in down
            \/ l.kind = "registry" /\ query.sha = Absent
            \/ /\ query.repo = Absent
               /\ l.kind # "r2" \/ SectionOf(release).base # Absent

(* The search is in order and complete, and the order loses no copy.       *)
SearchIsThorough ==
    GithubBeforeCdn /\ InventoryIsExhausted /\ FailsOnlyWithoutCopies

=============================================================================
