---------------------------- MODULE NativeHosts ----------------------------
(***************************************************************************)
(* Languages and their ecosystems (src/rust/language.rs), the public       *)
(* package registries of each and the forges that mirror them              *)
(* (src/rust/native_host.rs, src/rust/manifest.rs): how a release on a     *)
(* channel becomes the coordinate that a registry stores.                  *)
(*                                                                         *)
(* A language names a package; its ecosystem decides who may install it.   *)
(* Tokens are in their normal form: trimmed, in lower case, with "-" for   *)
(* "_" and blanks.                                                         *)
(***************************************************************************)
EXTENDS Naturals, FiniteSets

(* The languages, each with the tokens that name it. *)
TokensOf ==
    [universal |-> {"universal", "any", "none", "polyglot", "yaml", "yml"},
     attolang |-> {"attolang", "oreslang"}, c |-> {"c"},
     clojure |-> {"clojure", "clj"}, cpp |-> {"cpp", "c++", "cxx"},
     crystal |-> {"crystal"},
     csharp |-> {"csharp", "c#", "cs", "dotnet", "net"}, dart |-> {"dart"},
     elixir |-> {"elixir", "ex"}, erlang |-> {"erlang", "erl"},
     flutter |-> {"flutter"}, fsharp |-> {"fsharp", "f#", "fs"},
     gleam |-> {"gleam"}, golang |-> {"golang", "go"},
     haskell |-> {"haskell", "hs"}, java |-> {"java"},
     julia |-> {"julia", "jl"}, kotlin |-> {"kotlin", "kt"},
     lua |-> {"lua"}, matlab |-> {"matlab"}, nim |-> {"nim"},
     nodejs |-> {"nodejs", "node", "javascript", "js", "typescript", "ts",
                 "astro"},
     ocaml |-> {"ocaml", "ml"}, php |-> {"php"},
     powershell |-> {"powershell", "pwsh", "ps1"},
     python |-> {"python", "py"}, r |-> {"r"}, ruby |-> {"ruby", "rb"},
     rust |-> {"rust", "rs"}, rust_wasm |-> {"rust-wasm", "rustwasm", "wasm"},
     scala |-> {"scala"}, shell |-> {"shell", "sh", "bash"},
     swift |-> {"swift"}, zig |-> {"zig"}]
Languages == DOMAIN TokensOf

Universal == "universal"
NoLanguage == "no language"

FromToken(token) ==
    IF \E l \in Languages : token \in TokensOf[l]
    THEN CHOOSE l \in Languages : token \in TokensOf[l]
    ELSE NoLanguage

(* Language::as_str: the canonical token. *)
Canonical(language) ==
    IF language = "rust_wasm" THEN "rust-wasm" ELSE language

(* Language::ecosystem. *)
LanguagesOf ==
    [universal |-> {Universal}, attolang |-> {"attolang"},
     cmake |-> {"c", "cpp"}, jvm |-> {"clojure", "java", "kotlin", "scala"},
     shards |-> {"crystal"}, nuget |-> {"csharp", "fsharp"},
     pub |-> {"dart", "flutter"}, hex |-> {"elixir", "erlang", "gleam"},
     gomod |-> {"golang"}, hackage |-> {"haskell"}, julia |-> {"julia"},
     luarocks |-> {"lua"}, matlab |-> {"matlab"}, nimble |-> {"nim"},
     npm |-> {"nodejs", "rust_wasm"}, opam |-> {"ocaml"},
     composer |-> {"php"}, psgallery |-> {"powershell"},
     pypi |-> {"python"}, cran |-> {"r"}, gem |-> {"ruby"},
     cargo |-> {"rust"}, shell |-> {"shell"}, swiftpm |-> {"swift"},
     zig |-> {"zig"}]
Ecosystems == DOMAIN LanguagesOf
Ecosystem(language) == CHOOSE e \in Ecosystems : language \in LanguagesOf[e]

-----------------------------------------------------------------------------
(* The hosts, by the protocol that each one speaks. *)
HostsOf ==
    [npm |-> {"npm"}, cargo_sparse |-> {"crates-io"},
     maven_central_portal |-> {"maven-central"}, maven2 |-> {"clojars"},
     pypi_legacy_upload |-> {"pypi", "test-pypi"},
     rubygems_api |-> {"rubygems"}, nuget_v3 |-> {"nuget"},
     powershell_gallery |-> {"powershell-gallery"}, hex_api |-> {"hex"},
     pub_dev |-> {"pub-dev"}, hackage_api |-> {"hackage", "stackage"},
     luarocks_api |-> {"luarocks"}, cpan_pause |-> {"cpan"},
     cran_submit |-> {"cran"}, conan_rest |-> {"conan-center"},
     swift_registry |-> {"swift-package-index"},
     cocoapods_trunk |-> {"cocoapods"}, julia_general |-> {"julia-general"},
     opam_repository |-> {"opam"}, go_proxy |-> {"go-proxy"},
     vcs_indexed |-> {"packagist", "dub", "nimble", "shards", "racket"},
     direct_url |-> {"zig", "vcs"}]
Protocols == DOMAIN HostsOf
Hosts == UNION {HostsOf[p] : p \in Protocols}
Protocol(host) == CHOOSE p \in Protocols : host \in HostsOf[p]

(* NativeHost::ecosystem; a host that is in none of these is universal. *)
HostsIn ==
    [npm |-> {"npm"}, cargo |-> {"crates-io"},
     jvm |-> {"maven-central", "clojars"}, pypi |-> {"pypi", "test-pypi"},
     gem |-> {"rubygems"}, composer |-> {"packagist"}, nuget |-> {"nuget"},
     gomod |-> {"go-proxy"}, cmake |-> {"conan-center"},
     swiftpm |-> {"swift-package-index", "cocoapods"}, pub |-> {"pub-dev"},
     hex |-> {"hex"}, cran |-> {"cran"},
     hackage |-> {"hackage", "stackage"}, luarocks |-> {"luarocks"},
     julia |-> {"julia-general"}, opam |-> {"opam"}, nimble |-> {"nimble"},
     shards |-> {"shards"}, psgallery |-> {"powershell-gallery"},
     zig |-> {"zig"}]
HostEcosystem(host) ==
    IF \E e \in DOMAIN HostsIn : host \in HostsIn[e]
    THEN CHOOSE e \in DOMAIN HostsIn : host \in HostsIn[e]
    ELSE "universal"

IsModerated(protocol) ==
    protocol \in {"cran_submit", "julia_general", "opam_repository"}
MirrorFamily(protocol) ==
    IF protocol = "maven_central_portal" THEN "maven2" ELSE protocol

(* Stackage publishes nothing: it curates Hackage. *)
IsMirrorOfAnotherRegistry(host) == host = "stackage"
(* Whether one version may be published again with other content. *)
AllowsRepublish(host) == host \in {"maven-central", "clojars"}

-----------------------------------------------------------------------------

(* The places a host publishes to and reads from: its own, a separate      *)
(* one, or none.                                                           *)
NoEndpoint == "none"
Endpoints(host) ==
    [publish |-> IF host \in {"go-proxy", "conan-center", "stackage",
                              "swift-package-index", "julia-general", "opam",
                              "dub", "nimble", "shards", "racket", "zig",
                              "vcs"}
                 THEN NoEndpoint ELSE host,
     index |-> IF host \in {"zig", "vcs"} THEN NoEndpoint ELSE host]
(* Mutant: candidates go where releases go. *)
ChannelEndpointsSame(host, channel) == Endpoints(host)
ChannelEndpoints(host, channel) ==
    CASE host = "hackage" /\ channel # "stable"
              -> [publish |-> "hackage candidates", index |-> "hackage"]
      [] host = "maven-central" /\ channel = "snapshot"
              -> [publish |-> "maven snapshots", index |-> "maven snapshots"]
      [] OTHER -> Endpoints(host)

-----------------------------------------------------------------------------
Channels == {"stable", "rc", "beta", "alpha", "nightly", "snapshot"}
IsMutable(channel) == channel = "snapshot"

(* How a host spells a prerelease. *)
PrereleaseSyntax(host) ==
    CASE host = "hackage" -> "endpoint only"
      [] host \in {"pypi", "test-pypi"} -> "pep440"
      [] host = "rubygems" -> "rubygems dotted"
      [] host \in {"maven-central", "clojars"} -> "maven qualifier"
      [] host = "cpan" -> "cpan trial"
      [] host = "conan-center" -> "reference channel"
      [] host \in {"luarocks", "powershell-gallery", "racket", "opam",
                   "cran", "stackage"} -> "unsupported"
      [] OTHER -> "semver"

(* PrereleaseSyntax::apply.  A version is its base with a mark that names  *)
(* the channel and a number; NoVersion is the refusal.                     *)
Version(base, mark, number) ==
    [base |-> base, mark |-> mark, number |-> number]
NoVersion == Version("none", "none", 0)
Pep440Mark ==
    [rc |-> "rc", beta |-> "b", alpha |-> "a", nightly |-> "dev",
     snapshot |-> "dev"]
(* Mutant: a snapshot is spelled as the release it precedes. *)
ApplySnapshotPlain(syntax, base, channel, iteration) ==
    IF syntax = "unsupported" /\ channel # "stable" THEN NoVersion
    ELSE IF channel \in {"stable", "snapshot"} THEN Version(base, "", 0)
    ELSE Version(base, channel, iteration)
Apply(syntax, base, channel, iteration) ==
    CASE channel = "stable" \/ syntax \in {"reference channel",
                                           "endpoint only"}
              -> Version(base, "", 0)
      [] channel # "stable" /\ syntax = "pep440"
              -> Version(base, Pep440Mark[channel], iteration)
      [] channel # "stable" /\ syntax = "cpan trial"
              -> IF channel = "rc" THEN Version(base, "_", iteration)
                 ELSE NoVersion
      [] channel = "snapshot" /\ syntax = "rubygems dotted"
              -> Version(base, "pre", iteration)
      [] channel = "snapshot" /\ syntax \in {"semver", "maven qualifier"}
              -> Version(base, "SNAPSHOT", 0)
      [] channel \notin {"stable", "snapshot"}
         /\ syntax \in {"semver", "rubygems dotted", "maven qualifier"}
              -> Version(base, channel, iteration)
      [] channel # "stable" /\ syntax = "unsupported" -> NoVersion

(* The label a host applies besides the version. *)
NoTag == "no tag"
DistTag(host, channel) ==
    CASE host = "npm" -> IF channel = "stable" THEN "latest" ELSE channel
      [] host = "conan-center"
              -> IF channel = "stable" THEN "stable" ELSE "testing"
      [] OTHER -> NoTag

(* NativeHost::channel_route: where a release goes, or that it cannot. *)
(* Mutant: every registry is taken to have a mutable track. *)
UnroutableIfUnspelled(host, channel, iteration) ==
    \/ channel # "stable" /\ iteration = 0
    \/ Apply(PrereleaseSyntax(host), "base", channel, iteration) = NoVersion
Unroutable(host, channel, iteration) ==
    \/ channel # "stable" /\ iteration = 0
    \/ IsMutable(channel) /\ ~AllowsRepublish(host)
    \/ Apply(PrereleaseSyntax(host), "base", channel, iteration) = NoVersion

ChannelRoute(host, base, channel, iteration) ==
    [host |-> host, protocol |-> Protocol(host), channel |-> channel,
     version |-> Apply(PrereleaseSyntax(host), base, channel, iteration),
     dist_tag |-> DistTag(host, channel),
     endpoints |-> ChannelEndpoints(host, channel),
     requires_opt_in |-> channel # "stable",
     mutable |-> IsMutable(channel),
     moderated |-> IsModerated(Protocol(host))]

-----------------------------------------------------------------------------
(* The forges and binary repositories, with the protocols they re-serve. *)
Binary == {"npm", "cargo_sparse", "maven2", "pypi_legacy_upload",
           "rubygems_api", "nuget_v3", "conan_rest", "go_proxy",
           "powershell_gallery", "luarocks_api", "cocoapods_trunk",
           "swift_registry"}
ServedBy ==
    [artifactory |-> Binary, nexus |-> Binary,
     github_packages |-> {"npm", "maven2", "rubygems_api", "nuget_v3"},
     gitlab_packages |-> {"npm", "maven2", "pypi_legacy_upload",
                          "rubygems_api", "nuget_v3", "go_proxy",
                          "conan_rest", "vcs_indexed"},
     bitbucket_packages |-> {"npm", "maven2"},
     aws_codeartifact |-> {"npm", "maven2", "pypi_legacy_upload",
                           "nuget_v3", "cargo_sparse", "go_proxy",
                           "rubygems_api", "swift_registry"},
     cloudsmith |-> {"npm", "cargo_sparse", "maven2", "pypi_legacy_upload",
                     "rubygems_api", "nuget_v3", "go_proxy", "conan_rest",
                     "hex_api", "luarocks_api", "cpan_pause",
                     "cran_submit"},
     azure_artifacts |-> {"npm", "maven2", "pypi_legacy_upload", "nuget_v3",
                          "cargo_sparse"}]
Supports(forge, protocol) == MirrorFamily(protocol) \in ServedBy[forge]
=============================================================================
