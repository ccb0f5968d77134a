-------------------------- MODULE EnvironmentPlan --------------------------
(***************************************************************************)
(* EnvironmentPlanV2 (src/rust/environment_v2.rs, with the checks of       *)
(* src/rust/environment.rs it reuses): when a plan is valid, and the       *)
(* normalized form that is stored, and hashed to tell whether a plan is    *)
(* still the one a lock was made for.                                      *)
(*                                                                         *)
(* A path is the sequence of its segments between slashes, so "./src" is   *)
(* <<".", "src">> and "./" is <<".", "">>.  A text is what it says and     *)
(* whether blanks surround it.  What is not modelled of a tool version, a  *)
(* system package or a task is copied or treated like a field that is;     *)
(* `extras` stands for every environment value, variable, option and       *)
(* extension of the plan.                                                  *)
(***************************************************************************)
EXTENDS Arrangements, SequencesExt

CONSTANTS TaskNames, Home

(* The path segment a home directory begins with is `Home`, that of a      *)
(* drive `Drive`; the values a tool resolves to are exact except these.    *)
Unresolved == "unresolved"
BlankText == ""
LocalPath == "local"
Moving == "moving"
Drive == "C:"
Spaced == "spaced"

NoPath == <<>>
NoSource == [url |-> BlankText]

Modes == {"authoring", "frozen_portable", "frozen_local"}

ASSUME PlanAssumption == Home \notin {".", "..", "", Drive}

-----------------------------------------------------------------------------
(* The types of the values of a plan; a path has a segment unless it is    *)
(* NoPath.                                                                 *)
IsText(text) == text = [is |-> text.is, padded |-> text.padded]

IsChecksum(checksum) ==
    /\ checksum = [algorithm |-> checksum.algorithm, of |-> checksum.of,
                   whole |-> checksum.whole, upper |-> checksum.upper,
                   padded |-> checksum.padded]
    /\ checksum.whole \in BOOLEAN
AreChecksums(s) == IsList(s) /\ \A i \in 1..Len(s) : IsChecksum(s[i])

IsRevision(revision) ==
    /\ revision = [is |-> revision.is, immutable |-> revision.immutable,
                   upper |-> revision.upper, padded |-> revision.padded]
    /\ revision.immutable \in BOOLEAN /\ revision.upper \in BOOLEAN

IsSource(source) ==
    /\ source = [url |-> source.url, revision |-> source.revision,
                 subdir |-> source.subdir, checksums |-> source.checksums]
    /\ IsText(source.url) /\ IsRevision(source.revision)
    /\ IsList(source.subdir) /\ AreChecksums(source.checksums)

IsVersion(version) ==
    /\ version = [requirement |-> version.requirement,
                  resolved |-> version.resolved, source |-> version.source,
                  checksums |-> version.checksums,
                  platforms |-> version.platforms]
    /\ IsText(version.requirement)
    /\ version.source = NoSource \/ IsSource(version.source)
    /\ AreChecksums(version.checksums) /\ IsList(version.platforms)

IsTool(spec) ==
    /\ spec = [many |-> spec.many, versions |-> spec.versions]
    /\ IsList(spec.versions)
    /\ \A i \in 1..Len(spec.versions) : IsVersion(spec.versions[i])
    /\ spec.many \in BOOLEAN
    /\ ~spec.many => Len(spec.versions) = 1
AreTools(tools) ==
    IsMap(tools) /\ \A tool \in DOMAIN tools : IsTool(tools[tool])

IsOrigin(origin) ==
    /\ origin = [manager |-> origin.manager, path |-> origin.path,
                 lock |-> origin.lock, digest |-> origin.digest]
    /\ IsList(origin.path) /\ IsList(origin.lock)
    /\ AreChecksums(origin.digest)

(* A command and a task are one text; a group is a list of tasks. *)
IsStep(step) ==
    /\ step = [kind |-> step.kind, tasks |-> step.tasks,
               parallel |-> step.parallel]
    /\ IsList(step.tasks)
    /\ step.kind # "group" => Len(step.tasks) = 1

IsTask(task) ==
    /\ task = [aliases |-> task.aliases, depends |-> task.depends,
               run |-> task.run, tools |-> task.tools, dir |-> task.dir,
               sources |-> task.sources]
    /\ IsList(task.aliases) /\ IsList(task.depends) /\ IsList(task.dir)
    /\ IsList(task.run) /\ \A i \in 1..Len(task.run) : IsStep(task.run[i])
    /\ AreTools(task.tools)
    /\ IsList(task.sources)
    /\ \A i \in 1..Len(task.sources) :
          IsList(task.sources[i]) /\ task.sources[i] # NoPath

IsPlan(plan) ==
    /\ plan = [schema |-> plan.schema, extras |-> plan.extras,
               platforms |-> plan.platforms, origins |-> plan.origins,
               tools |-> plan.tools, packages |-> plan.packages,
               tasks |-> plan.tasks]
    /\ IsList(plan.platforms)
    /\ IsList(plan.origins)
    /\ \A i \in 1..Len(plan.origins) : IsOrigin(plan.origins[i])
    /\ AreTools(plan.tools)
    /\ IsMap(plan.packages)
    /\ \A name \in DOMAIN plan.packages : IsVersion(plan.packages[name])
    /\ IsMap(plan.tasks)
    /\ \A t \in DOMAIN plan.tasks : IsTask(plan.tasks[t])

-----------------------------------------------------------------------------
(* validate_project_pattern: nothing that leaves the project, no empty     *)
(* segment but a last one.                                                 *)
ValidPattern(path) ==
    /\ path # <<"">> /\ path[1] \notin {Home, Drive}
    /\ \A i \in 1..Len(path) : path[i] # ".."
    /\ \A i \in 1..(Len(path) - 1) : path[i] # ""

(* Mutant: "./" is stripped once. *)
ProjectPathOnce(path) ==
    IF Len(path) > 1 /\ path[1] = "." THEN Tail(path) ELSE path

(* normalize_project_path: leading "./" are stripped, as long as there is  *)
(* a slash.                                                                *)
ProjectPath(path) ==
    LET Stripped(n) == \A i \in 1..n : path[i] = "."
        n == CHOOSE n \in 0..(Len(path) - 1) :
                Stripped(n) /\ (n + 1 < Len(path) => ~Stripped(n + 1))
    IN  SubSeq(path, n + 1, Len(path))

(* The same of a path that may be missing. *)
NormalizedPath(path) == IF path = NoPath THEN NoPath ELSE ProjectPath(path)

(* str::trim *)
Trimmed(text) == [is |-> text.is, padded |-> FALSE]

(* Mutant: the repetitions stay. *)
SortedWithRepetitions(values) ==
    FlattenSeq([i \in 1..Cardinality(ToSet(values)) |->
        LET value == SetToSeq(ToSet(values))[i]
        IN  SelectSeq(values, LAMBDA other : other = value)])

(* sort and dedup: one fixed order of the values. *)
SortedStrings(values) == SetToSeq(ToSet(values))

(* normalize_strings on paths: an empty one disappears. *)
SortedPaths(paths) ==
    SetToSeq({ProjectPath(path) : path \in ToSet(paths)} \ {<<"">>})

(* stable_dedup_strings and stable_dedup_by_json: the first of equal       *)
(* values stays, in its place.                                             *)
Firsts(values) ==
    {i \in 1..Len(values) : \A j \in 1..(i - 1) : values[j] # values[i]}

StableDedup(values) == Arranged(values, Firsts(values), ByPosition(values))

-----------------------------------------------------------------------------
(* validate_name, and validate_relative_path: no segment that is empty or  *)
(* says where it starts.                                                   *)
ValidName(name) == name \notin {BlankText, Spaced}
ValidRelativePath(path) ==
    \A i \in 1..Len(path) : path[i] \notin {"", ".", "..", Drive}

(* A checksum is [algorithm, of, whole, upper, padded]. *)
ValidChecksum(checksum) == checksum.whole
NormalizedChecksum(checksum) ==
    [algorithm |-> checksum.algorithm, of |-> checksum.of,
     whole |-> checksum.whole, upper |-> FALSE, padded |-> FALSE]
ValidChecksums(checksums) ==
    \A i \in 1..Len(checksums) : ValidChecksum(checksums[i])

(* Mutant: checksums that are written with capital letters stay so. *)
ChecksumsAsWritten(checksums) == SortedStrings(checksums)
NormalizedChecksums(checksums) ==
    SortedStrings([i \in 1..Len(checksums) |->
                      NormalizedChecksum(checksums[i])])

(* A source is [url, revision, subdir, checksums]; a revision is a text    *)
(* that is immutable (the digits of a commit or of a digest) or not, in    *)
(* capital letters or not.                                                 *)
ValidImmutableSource(source, mode) ==
    /\ source.url.is # BlankText
    /\ mode = "frozen_portable" => source.url.is # LocalPath
    /\ mode # "authoring" => source.revision.immutable
    /\ source.subdir # NoPath => ValidRelativePath(source.subdir)
    /\ ValidChecksums(source.checksums)

NormalizedImmutableSource(source) ==
    [url |-> Trimmed(source.url),
     revision |-> [is |-> source.revision.is,
                   immutable |-> source.revision.immutable,
                   upper |-> FALSE, padded |-> FALSE],
     subdir |-> NormalizedPath(source.subdir),
     checksums |-> NormalizedChecksums(source.checksums)]

(* validate_requirement: frozen modes want an exact version, and only the  *)
(* local one takes a path.                                                 *)
ValidResolution(requirement, resolved, mode) ==
    /\ requirement.is # BlankText
    /\ mode # "authoring" => resolved \notin {Unresolved, BlankText, Moving}
    /\ mode = "frozen_portable" => resolved # LocalPath

(* ToolRequirement, and SystemPackageRequirement, which has these fields   *)
(* too and is checked and normalized alike.                                *)
ValidVersion(version, mode) ==
    /\ ValidResolution(version.requirement, version.resolved, mode)
    /\ version.source # NoSource =>
          ValidImmutableSource(version.source, mode)
    /\ ValidChecksums(version.checksums)
    /\ \A i \in 1..Len(version.platforms) : ValidName(version.platforms[i])

NormalizedVersion(version) ==
    [requirement |-> Trimmed(version.requirement),
     resolved |-> IF version.resolved = BlankText THEN Unresolved
                  ELSE version.resolved,
     source |-> IF version.source = NoSource THEN NoSource
                ELSE NormalizedImmutableSource(version.source),
     checksums |-> NormalizedChecksums(version.checksums),
     platforms |-> SortedStrings(version.platforms)]

ValidPackage(package, mode) == ValidVersion(package, mode)
NormalizedPackage(package) == NormalizedVersion(package)

(* ToolSpec::validate *)
ValidTool(spec, mode) ==
    /\ spec.versions # <<>>
    /\ \A i \in 1..Len(spec.versions) : ValidVersion(spec.versions[i], mode)

(* ToolSpec::normalized: the order of versions says which is the default;  *)
(* a list of one is that one.                                              *)
NormalizedTool(spec) ==
    LET versions == StableDedup([i \in 1..Len(spec.versions) |->
                        NormalizedVersion(spec.versions[i])])
    IN  [many |-> Len(versions) # 1, versions |-> versions]
NormalizedTools(tools) ==
    [tool \in DOMAIN tools |-> NormalizedTool(tools[tool])]

(* validate_tool_map *)
ValidTools(tools, mode) ==
    \A tool \in DOMAIN tools : ValidName(tool) /\ ValidTool(tools[tool], mode)

(* EnvironmentSource: where a manager's files are, [manager, path, lock,   *)
(* digest] with at most one digest.                                        *)
ValidOrigin(origin) ==
    /\ origin.path # NoPath /\ ValidRelativePath(origin.path)
    /\ ValidRelativePath(origin.lock)
    /\ ValidChecksums(origin.digest)

NormalizedOrigin(origin) ==
    [manager |-> origin.manager, path |-> NormalizedPath(origin.path),
     lock |-> NormalizedPath(origin.lock),
     digest |-> NormalizedChecksums(origin.digest)]

(* TaskStep::validate: a command says something, a group has tasks.        *)
ValidStep(step) ==
    /\ step.kind = "command" => step.tasks[1] # BlankText
    /\ step.kind = "group" => step.tasks # <<>>
    /\ step.kind # "command" =>
          \A i \in 1..Len(step.tasks) : ValidName(step.tasks[i])

(* Mutant: every group is sorted. *)
NormalizedStepSorted(step) ==
    [kind |-> step.kind, tasks |-> SortedStrings(step.tasks),
     parallel |-> step.parallel]

(* TaskStep::normalized: the tasks of a sequential group keep their order. *)
NormalizedStep(step) ==
    IF step.kind # "group" THEN step
    ELSE [kind |-> step.kind, parallel |-> step.parallel,
          tasks |-> IF step.parallel THEN SortedStrings(step.tasks)
                    ELSE StableDedup(step.tasks)]

(* TaskSpec::validate *)
ValidTask(task, mode) ==
    /\ \A i \in 1..Len(task.run) : ValidStep(task.run[i])
    /\ \A name \in ToSet(task.aliases) \cup ToSet(task.depends) :
          ValidName(name)
    /\ ValidTools(task.tools, mode)
    /\ task.dir # NoPath => ValidPattern(task.dir)
    /\ \A i \in 1..Len(task.sources) : ValidPattern(task.sources[i])

(* TaskSpec::normalized *)
NormalizedTask(task) ==
    [aliases |-> SortedStrings(task.aliases),
     depends |-> SortedStrings(task.depends),
     run |-> [i \in 1..Len(task.run) |-> NormalizedStep(task.run[i])],
     tools |-> NormalizedTools(task.tools),
     dir |-> NormalizedPath(task.dir),
     sources |-> SortedPaths(task.sources)]

(* TaskSpec::referenced_tasks *)
ReferencedTasks(task) ==
    ToSet(task.depends) \cup
    UNION {ToSet(task.run[i].tasks) :
              i \in {i \in 1..Len(task.run) : task.run[i].kind # "command"}}

(* validate_tasks, by what EnvironmentTasks shows it to decide. *)
Graph(plan, verdict) ==
    INSTANCE TaskVerdict WITH Names <- TaskNames, Patterns <- {}, Plans <- {}

ValidTaskGraph(plan) ==
    LET graph ==
            [tasks |-> DOMAIN plan.tasks,
             aliases |-> [t \in DOMAIN plan.tasks |->
                             ToSet(plan.tasks[t].aliases)],
             references |-> [t \in DOMAIN plan.tasks |->
                                ReferencedTasks(plan.tasks[t])]]
    IN  /\ ~Graph(graph, "ok")!Ambiguous
        /\ ~Graph(graph, "ok")!Dangling
        /\ Graph(graph, "ok")!Acyclic

(* uses_v2_features *)
UsesV2Features(plan) ==
    \/ plan.extras # "none" \/ DOMAIN plan.tasks # {}
    \/ \E tool \in DOMAIN plan.tools : plan.tools[tool].many

(* validate_value_map and validate_extension_map: no null, no number that  *)
(* is not finite, no blank key, however deep.                              *)
ValidExtras(extras) == extras \in {"none", "some"}

(* validate_legacy_plan_shell: what version 1 checks besides the tools.    *)
ValidShell(plan) ==
    /\ \A i \in 1..Len(plan.platforms) : ValidName(plan.platforms[i])
    /\ \A i \in 1..Len(plan.origins) : ValidOrigin(plan.origins[i])

(* EnvironmentPlanV2::validate; how the tasks refer to each other depends  *)
(* on no mode.                                                             *)
ValidFields(plan, mode) ==
    /\ plan.schema \in 1..2
    /\ plan.schema < 2 => ~UsesV2Features(plan)
    /\ ValidShell(plan)
    /\ ValidTools(plan.tools, mode)
    /\ \A name \in DOMAIN plan.packages :
          ValidName(name) /\ ValidPackage(plan.packages[name], mode)
    /\ ValidExtras(plan.extras)
    /\ \A t \in DOMAIN plan.tasks :
          ValidName(t) /\ ValidTask(plan.tasks[t], mode)

ValidPlan(plan, mode) == ValidFields(plan, mode) /\ ValidTaskGraph(plan)

(* EnvironmentPlanV2::normalized.  A valid plan's canonical_json_bytes and *)
(* its TOML document stand for this value.                                 *)
NormalizedPlan(plan) ==
    [schema |-> plan.schema, extras |-> plan.extras,
     platforms |-> SortedStrings(plan.platforms),
     origins |-> SortedStrings([i \in 1..Len(plan.origins) |->
                                   NormalizedOrigin(plan.origins[i])]),
     tools |-> NormalizedTools(plan.tools),
     packages |-> [name \in DOMAIN plan.packages |->
                      NormalizedPackage(plan.packages[name])],
     tasks |-> [t \in DOMAIN plan.tasks |-> NormalizedTask(plan.tasks[t])]]
=============================================================================
