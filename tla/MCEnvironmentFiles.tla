------------------------- MODULE MCEnvironmentFiles -------------------------
(***************************************************************************)
(* Small instances of EnvironmentFiles in one state graph, a scene each.   *)
(* In "spellings" and "provenance" two hosts hold any two of many plans; in *)
(* "installs" one host locks three plans and both install; in "locks" two  *)
(* hosts resolve one plan in every way.                                    *)
(***************************************************************************)
EXTENDS EnvironmentFiles

CONSTANTS h1, h2, Scenes

VARIABLE scene

MCTaskNames == {"build", "test", "all", "b"}
MCFloating == {"latest"}
MCOutside == {"outside"}
MCTargetOf == [h \in Hosts |-> IF h = h1 THEN "linux" ELSE "darwin"]

Text(is) == [is |-> is, padded |-> FALSE]
Padded(text) == [text EXCEPT !.padded = TRUE]

Version(exact, platforms) ==
    [requirement |-> Text("^1"), resolved |-> exact, source |-> NoSource,
     checksums |-> <<>>, platforms |-> platforms]
V1 == Version("1.0", <<>>)
V2 == Version("1.1", <<>>)

One(version) == [many |-> FALSE, versions |-> <<version>>]
Many(versions) == [many |-> TRUE, versions |-> versions]

NoPackages == [name \in {} |-> V1]
NoTools == [tool \in {} |-> One(V1)]
Node(spec) == [tool \in {"node"} |-> spec]

Command(name) == [kind |-> "command", tasks |-> <<name>>, parallel |-> FALSE]
Invoke(name) == [kind |-> "task", tasks |-> <<name>>, parallel |-> FALSE]
Group(tasks, parallel) ==
    [kind |-> "group", tasks |-> tasks, parallel |-> parallel]

Task(run) == [aliases |-> <<>>, depends |-> <<>>, run |-> run,
              tools |-> NoTools, dir |-> NoPath, sources |-> <<>>]

Plan(tools, tasks) ==
    [schema |-> 2, extras |-> "none", platforms |-> <<>>, origins |-> <<>>,
     tools |-> tools, packages |-> NoPackages, tasks |-> tasks]
NoTasks == [t \in {} |-> Task(<<>>)]
Build(task) == Plan(NoTools, [t \in {"build"} |-> task])

(* Versions in both orders, once, repeatedly, and with their platforms in  *)
(* both orders; on the plan and on a task.                                 *)
ToolSpecs ==
    {One(V1), Many(<<V1>>), Many(<<V1, V1>>),
     Many(<<V1, V2>>), Many(<<V2, V1>>), Many(<<V1, V2, V1>>),
     One(Version("1.0", <<"linux", "darwin">>)),
     One(Version("1.0", <<"darwin", "linux">>)),
     Many(<<Version("1.0", <<"darwin", "linux">>),
            Version("1.0", <<"linux", "darwin", "linux">>)>>),
     Many(<<>>)}

ToolPlans ==
    {Plan(Node(spec), NoTasks) : spec \in ToolSpecs}
    \cup {[Plan(Node(spec), NoTasks) EXCEPT !.schema = 1] :
             spec \in {One(V1), Many(<<V1>>)}}
    \cup {Build([Task(<<Command("make")>>) EXCEPT !.tools = Node(spec)]) :
             spec \in {One(V1), Many(<<V1, V2>>), Many(<<V2, V1>>)}}

(* Two tasks and one that runs both. *)
AllPlan(run) ==
    Plan(NoTools, [t \in {"build", "test", "all"} |->
        CASE t = "build" -> [Task(<<Command("make")>>) EXCEPT
                                !.aliases = <<"b">>]
          [] t = "test"  -> [Task(<<Command("check")>>) EXCEPT
                                !.depends = <<"b", "build">>]
          [] t = "all"   -> Task(run)])

StepPlans ==
    {AllPlan(<<Group(tasks, parallel)>>) :
        parallel \in BOOLEAN,
        tasks \in {<<"build", "test">>, <<"test", "build">>,
                   <<"test", "build", "test">>, <<>>}}
    \cup {AllPlan(<<Command("make"), Invoke("test")>>),
          AllPlan(<<Invoke("test"), Command("make")>>),
          AllPlan(<<Invoke("missing")>>), AllPlan(<<Invoke("all")>>)}

(* Directories and sources, below "./" and not. *)
Src == <<"src">>
DotSrc == <<".", "src">>
Lib == <<"lib">>
PathPlans ==
    {Build([Task(<<Command("make")>>) EXCEPT !.dir = dir]) :
        dir \in {NoPath, Src, DotSrc, <<".", ".", "src">>, <<"src", "">>,
                 <<".">>, <<".", ".">>, <<"..", "src">>, <<"", "src">>}}
    \cup {Build([Task(<<Command("make")>>) EXCEPT !.sources = sources]) :
             sources \in {<<Src, Lib>>, <<Lib, Src>>, <<DotSrc, Lib, Src>>,
                          <<Lib>>, <<<<Home>>>>}}

OtherPlans ==
    {[Plan(Node(One(V1)), NoTasks) EXCEPT !.extras = extras] :
        extras \in {"some", "null", "infinite"}}
    \cup {[Plan(Node(One(V1)), NoTasks) EXCEPT !.platforms = platforms] :
             platforms \in {<<"linux", "darwin">>, <<"darwin", "linux">>}}

(* Where a tool, a package or the plan itself comes from. *)
Checksum(of) == [algorithm |-> "sha256", of |-> of, whole |-> TRUE,
                 upper |-> FALSE, padded |-> FALSE]
LoudSum(of) == [Checksum(of) EXCEPT !.upper = TRUE, !.padded = TRUE]
Commit(is) == [is |-> is, immutable |-> TRUE, upper |-> FALSE, padded |-> FALSE]
Branch(is) == [Commit(is) EXCEPT !.immutable = FALSE]
From(url, revision) ==
    [url |-> Text(url), revision |-> revision, subdir |-> NoPath,
     checksums |-> <<>>]
Commit1 == From("git", Commit("c1"))
Sourced(source) == [V1 EXCEPT !.source = source]
Package(version) == [name \in {"curl"} |-> version]
Origin(path, digest) == [manager |-> "mise", path |-> path, lock |-> NoPath,
                         digest |-> digest]

ProvenancePlans ==
    {Plan(Node(One(version)), NoTasks) :
        version \in
            {Sourced(Commit1),
             Sourced([Commit1 EXCEPT !.revision.upper = TRUE,
                                     !.url = Padded(@)]),
             Sourced(From("git", Branch("main"))),
             Sourced(From(LocalPath, Commit("c1"))),
             Sourced(From(BlankText, Commit("c1"))),
             Sourced([Commit1 EXCEPT !.subdir = Src]),
             Sourced([Commit1 EXCEPT !.subdir = DotSrc]),
             Sourced([Commit1 EXCEPT !.subdir = <<Drive, "src">>]),
             [V1 EXCEPT !.checksums = <<Checksum(1), Checksum(2)>>],
             [V1 EXCEPT !.checksums = <<LoudSum(2), Checksum(1), LoudSum(1)>>],
             [V1 EXCEPT !.checksums = <<[Checksum(1) EXCEPT !.whole = FALSE]>>],
             [V1 EXCEPT !.requirement = Padded(@)],
             [V1 EXCEPT !.requirement = Text(BlankText)],
             Version(Moving, <<>>), Version(LocalPath, <<>>),
             Version(Unresolved, <<>>), Version(BlankText, <<>>),
             Version("1.0", <<Spaced>>)}}
    \cup {[Plan(NoTools, NoTasks) EXCEPT !.packages = Package(version)] :
             version \in {V1, [V1 EXCEPT !.requirement = Padded(@)],
                          Version(Moving, <<>>)}}
    \cup {[Plan(NoTools, NoTasks) EXCEPT !.origins = origins] :
             origins \in
                {<<Origin(Src, <<Checksum(1)>>), Origin(Lib, <<>>)>>,
                 <<Origin(Lib, <<>>), Origin(Src, <<LoudSum(1)>>),
                   Origin(Lib, <<>>)>>,
                 <<Origin(DotSrc, <<>>)>>, <<Origin(NoPath, <<>>)>>}}
    \cup {Build(Task(<<Command(BlankText)>>)),
          Build([Task(<<Command("make")>>) EXCEPT !.aliases = <<Spaced>>])}

SpelledPlans == ToolPlans \cup StepPlans \cup PathPlans \cup OtherPlans

(* A directory that is only a dot and a slash. *)
DotSlashDirectory ==
    {Build([Task(<<Command("make")>>) EXCEPT !.dir = <<".", "">>]),
     Build(Task(<<Command("make")>>))}

-----------------------------------------------------------------------------
(* Three plans: one, one that is spelled in another way, one whose tool    *)
(* versions are in another order.                                          *)
OnePlan == {Plan(Node(Many(<<V1, V2>>)), NoTasks)}

InstalledPlans ==
    {Plan(Node(Many(<<V1, V2>>)), NoTasks),
     Plan(Node(Many(<<V1, V2, V1>>)), NoTasks),
     Plan(Node(Many(<<V2, V1>>)), NoTasks)}

File(name) == [file |-> name, backslash |-> FALSE]
Backslash(name) == [file |-> name, backslash |-> TRUE]
Loud(digest) == [digest EXCEPT !.upper = TRUE]

Executable(key, spelling, path) ==
    [name |-> [key |-> key, spelling |-> spelling], path |-> path,
     aliases |-> <<>>]
NodeExe == Executable("node", "node", File("bin/node"))
NpmExe == Executable("npm", "npm", File("bin/npm"))
Alias(executable, key) ==
    [executable EXCEPT !.aliases = <<[key |-> key, spelling |-> key]>>]

Variant(version, target, source, artifact, install) ==
    [resolved |-> version, target |-> target, sound |-> TRUE,
     source |-> source, artifact |-> artifact, install |-> install]

Registry(revision) ==
    [kind |-> "registry", locator |-> File("core:node"), revision |-> revision,
     immutable |-> TRUE, tree |-> NoDigest, portable |-> FALSE]
Vendored(locator) ==
    [kind |-> "path", locator |-> locator, revision |-> NoRevision,
     immutable |-> FALSE, tree |-> Sha256("tree"), portable |-> TRUE]
Archive(content, mirrors) ==
    [sha256 |-> Sha256(content), format |-> "tar_gz", mirrors |-> mirrors]
Tree(content) ==
    [sha256 |-> Sha256(content), format |-> Directory, mirrors |-> <<>>]

Linux == Variant("1.0", "linux", Registry("r1"),
                 Archive("linux-1.0", <<"near", "far">>),
                 <<NodeExe, NpmExe>>)
LinuxAgain == Variant("1.0", "linux", Registry("r1"),
                      [Archive("linux-1.0", <<"far", "near", "far">>) EXCEPT
                          !.sha256 = Loud(@)],
                      <<NpmExe, [NodeExe EXCEPT
                                    !.path = Backslash("bin/node")]>>)
Darwin == Variant("1.0", "darwin", Vendored(File("vendor/node")),
                  Tree("darwin-1.0"), <<NodeExe>>)
DarwinAgain == Variant("1.0", "darwin",
                       [Vendored(Backslash("vendor/node")) EXCEPT
                           !.tree = Loud(@)],
                       Tree("darwin-1.0"), <<NodeExe>>)
LinuxLater == [Linux EXCEPT !.resolved = "1.1",
                            !.artifact = Archive("linux-1.1", <<>>)]

Choice(variants) == [tool \in {"node"} |-> variants]

(* Two choices for the platforms of both hosts. *)
TwoResolutions ==
    {Choice(<<DarwinAgain, LinuxAgain>>),
     Choice(<<LinuxLater, Darwin, Linux>>)}

(* The same variants in other orders and spellings, and one more. *)
SoundResolutions ==
    {Choice(<<Linux, Darwin>>), Choice(<<DarwinAgain, LinuxAgain>>),
     Choice(<<LinuxLater, Darwin, Linux>>),
     Choice(<<LinuxAgain, LinuxLater, Darwin>>)}

(* Every way a resolution can be refused, and two that cannot: a source of *)
(* each kind, and two sources of one version.                              *)
Http == [Registry(NoRevision) EXCEPT !.kind = "http", !.immutable = FALSE,
                                     !.locator = File("https:node")]
Oci == [Registry("sha256") EXCEPT !.kind = "oci", !.locator = File("oci:node")]
Vcs == [Registry("r1") EXCEPT !.kind = "vcs", !.locator = File("git:node")]

CheckedResolutions ==
    SoundResolutions \cup
    {Choice(<<Linux, [Linux EXCEPT !.source = Http],
              [Linux EXCEPT !.source = Oci]>>),
     Choice(<<[Linux EXCEPT !.source = Vcs], Darwin>>),
     Choice(<<Linux, LinuxAgain>>),
     Choice(<<[Linux EXCEPT !.source = Registry("latest")]>>),
     Choice(<<[Linux EXCEPT !.source.portable = TRUE]>>),
     Choice(<<[Linux EXCEPT !.source.tree = Sha256("tree")]>>),
     Choice(<<[Linux EXCEPT !.resolved = "latest"]>>),
     Choice(<<[Linux EXCEPT !.artifact.sha256.whole = FALSE]>>),
     Choice(<<[Linux EXCEPT !.install = <<NodeExe, Alias(NpmExe, "node")>>]>>),
     Choice(<<[Linux EXCEPT !.sound = FALSE]>>),
     Choice(<<[Darwin EXCEPT !.source = Vendored(File("outside"))]>>),
     Choice(<<[Darwin EXCEPT !.artifact = Archive("darwin-1.0", <<>>)]>>),
     Choice(<<>>)}

-----------------------------------------------------------------------------
AllPlans == SpelledPlans \cup ProvenancePlans \cup OnePlan \cup InstalledPlans
PlansOf ==
    [spellings |-> SpelledPlans, provenance |-> ProvenancePlans,
     installs |-> InstalledPlans,
     locks |-> OnePlan, directory |-> DotSlashDirectory]

(* Nobody resolves, and once both hosts have loaded a plan the file is     *)
(* only stored; one host resolves, in two ways; both do, in every way.     *)
Resolved(h) == locks'[h] \notin {locks[h], lock_file}
Stored == {NormalizedPlan(plans[h]) : h \in {g \in Hosts : plans[g] # Nothing}}
WithStored(some) == some \cup {NormalizedPlan(plan) : plan \in some}
Kept == [installs |-> WithStored(InstalledPlans), locks |-> WithStored(OnePlan)]
InScene ==
    /\ scene \in {"spellings", "provenance", "directory"} =>
          /\ locks' = locks
          /\ \/ plan_file' = plan_file
             \/ plans[h2] = Nothing /\ plan_file' \in PlansOf[scene]
             \/ plan_file' \in Stored
    /\ scene \in {"installs", "locks"} => plan_file' \in Kept[scene]
    /\ scene = "installs" =>
          \A h \in Hosts : Resolved(h) =>
             /\ h = h1 /\ locks'[h].plan.upper
             /\ locks'[h].tools \in TwoResolutions
    /\ scene = "locks" => installed' = Nothing

(* The plans and resolutions are ones the theorems speak of, but for the   *)
(* directory whose normal form is refused.                                 *)
ASSUME AsTheTheoremsAssume ==
    /\ PlansKept /\ PlansStraight /\ SpellingsDiffer
    /\ "directory" \in Scenes \/ PlansPlain

MCInit == scene \in Scenes /\ Init /\ plan_file \in PlansOf[scene]
MCSpec == MCInit /\ [][Next /\ UNCHANGED scene /\ InScene]_<<vars, scene>>
=============================================================================
