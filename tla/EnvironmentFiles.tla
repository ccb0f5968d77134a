-------------------------- MODULE EnvironmentFiles --------------------------
(***************************************************************************)
(* An environment plan and its lock in a project that several hosts share. *)
(* The plan is edited at any time and stored again in normalized form;     *)
(* hosts read both files, resolve plans into locks, write those, and       *)
(* install from a lock that names the plan they hold.  Nothing orders the  *)
(* hosts: what one holds may be older than the files, or belong to another *)
(* revision of the plan.                                                   *)
(*                                                                         *)
(* The documents and their checks are the crate's (EnvironmentPlan,        *)
(* EnvironmentLock); the hosts, which call it, are not part of it.         *)
(***************************************************************************)
EXTENDS EnvironmentPlan, EnvironmentLock

CONSTANTS
    Hosts,
    TargetOf,       \* the platform of each host
    Resolvers,      \* the hosts that resolve plans; all of them install
    Plans,          \* what authors may write as a plan, valid or not
    Resolutions,    \* the tools' variants a resolver may choose
    MaxResolved,    \* a bound: so many different resolutions
    Cases,          \* the cases, upper or not, resolvers write digests in
    Nothing         \* the absence of a plan, a lock or an installation

ASSUME HostsAssumption ==
    /\ DOMAIN TargetOf = Hosts /\ Resolvers \subseteq Hosts
    /\ Cases \subseteq BOOLEAN /\ MaxResolved \in Nat
    /\ \A plan \in Plans : IsPlan(plan)
    /\ \A tools \in Resolutions : IsResolution(tools)

VARIABLES
    plan_file, lock_file,
    plans, locks,   \* what each host holds in memory
    installed,      \* the last installation: its host, its plan, its pins
    resolved        \* history: each digest that was resolved for, what its
                    \* plan meant, and the pins

vars == <<plan_file, lock_file, plans, locks, installed, resolved>>

-----------------------------------------------------------------------------
(* What a path means: which name it has at which depth, if "." stays where *)
(* it is.  "src" and "src/" differ, as patterns.                           *)
Place(path) ==
    LET Names(n) == {i \in 1..n : path[i] # "."}
    IN  {<<Cardinality(Names(i)), path[i]>> : i \in Names(Len(path))}

(* Which of a list's values are met no later than which others. *)
Order(values) ==
    {pair \in ToSet(values) \X ToSet(values) :
        \E i \in 1..Len(values) :
           /\ values[i] = pair[1]
           /\ \A j \in 1..(i - 1) : values[j] # pair[2]}

ChecksumMeaning(checksums) == {<<c.algorithm, c.of>> : c \in ToSet(checksums)}

(* The digits of a commit or a digest mean the same in either case; the    *)
(* name of a branch does not.                                              *)
SourceMeaning(source) ==
    IF source = NoSource THEN source
    ELSE [url |-> source.url.is, subdir |-> source.subdir,
          revision |-> [is |-> source.revision.is,
                        immutable |-> source.revision.immutable,
                        upper |-> /\ source.revision.upper
                                  /\ ~source.revision.immutable],
          checksums |-> ChecksumMeaning(source.checksums)]

VersionMeaning(version) ==
    [requirement |-> version.requirement.is,
     resolved |-> IF version.resolved = BlankText THEN Unresolved
                  ELSE version.resolved,
     source |-> SourceMeaning(version.source),
     checksums |-> ChecksumMeaning(version.checksums),
     platforms |-> ToSet(version.platforms)]

ToolMeaning(spec) ==
    Order([i \in 1..Len(spec.versions) |-> VersionMeaning(spec.versions[i])])

ToolsMeaning(tools) == [tool \in DOMAIN tools |-> ToolMeaning(tools[tool])]

OriginMeaning(origin) ==
    [manager |-> origin.manager, path |-> origin.path, lock |-> origin.lock,
     digest |-> ChecksumMeaning(origin.digest)]

(* Parallel tasks have no order, the others run where they are first named. *)
StepMeaning(step) ==
    [kind |-> step.kind, parallel |-> step.parallel,
     tasks |-> IF step.kind = "group" /\ step.parallel
               THEN ToSet(step.tasks) ELSE Order(step.tasks)]

TaskMeaning(task) ==
    [aliases |-> ToSet(task.aliases), depends |-> ToSet(task.depends),
     run |-> [i \in 1..Len(task.run) |-> StepMeaning(task.run[i])],
     tools |-> ToolsMeaning(task.tools), has_dir |-> task.dir # NoPath,
     dir |-> Place(task.dir),
     sources |-> {Place(path) : path \in ToSet(task.sources)}]

(* What a plan says, whatever its spelling: the order of tool versions and *)
(* of steps matters, that of platforms and dependencies does not.          *)
Meaning(plan) ==
    [schema |-> plan.schema, extras |-> plan.extras,
     platforms |-> ToSet(plan.platforms),
     origins |-> {OriginMeaning(origin) : origin \in ToSet(plan.origins)},
     tools |-> ToolsMeaning(plan.tools),
     packages |-> [name \in DOMAIN plan.packages |->
                      VersionMeaning(plan.packages[name])],
     tasks |-> [t \in DOMAIN plan.tasks |-> TaskMeaning(plan.tasks[t])]]

(* The digest of a valid plan: of its canonical_json_bytes. *)
PlanDigest(plan) == Sha256(NormalizedPlan(plan))

(* A digest as a resolver writes it, in capital letters or not. *)
WrittenIn(digest, upper) ==
    [of |-> digest.of, upper |-> upper, whole |-> digest.whole]

Pin(tool, variant) ==
    [tool |-> tool, target |-> variant.target, version |-> variant.resolved,
     content |-> variant.artifact.sha256.of]

(* The variants of every tool that satisfy some host. *)
Pins(tools) ==
    UNION {{Pin(tool, variant) : variant \in ToSet(tools[tool])} :
              tool \in DOMAIN tools}

PinsFor(lock, h) ==
    UNION {{Pin(tool, variant) :
               variant \in ToSet(VariantsForTarget(lock, tool, TargetOf[h]))} :
              tool \in DOMAIN lock.tools}

(* What a variant and its source say, whatever their spelling. *)
LockedMeaning(source) ==
    [kind |-> source.kind, revision |-> source.revision,
     immutable |-> source.immutable, portable |-> source.portable,
     tree |-> IF source.tree = NoDigest THEN source.tree ELSE source.tree.of,
     has_tree |-> source.tree # NoDigest,
     locator |-> IF source.kind = "path" THEN source.locator.file
                 ELSE source.locator]

VariantMeaning(variant) ==
    [resolved |-> variant.resolved, target |-> variant.target,
     sound |-> variant.sound, source |-> LockedMeaning(variant.source),
     artifact |-> [of |-> variant.artifact.sha256.of,
                   format |-> variant.artifact.format,
                   mirrors |-> ToSet(variant.artifact.mirrors)],
     install |-> {[name |-> executable.name, file |-> executable.path.file,
                   aliases |-> ToSet(executable.aliases)] :
                      executable \in ToSet(variant.install)}]

LockMeaning(lock) ==
    [plan |-> lock.plan.of,
     tools |-> [tool \in DOMAIN lock.tools |->
                   {VariantMeaning(v) : v \in ToSet(lock.tools[tool])}]]

-----------------------------------------------------------------------------
(* What normalizing would not keep, and where it stops short.  Nothing in  *)
(* the code rules these spellings out; the theorems of EnvironmentFiles-   *)
(* Proofs are about plans and resolutions without them.                    *)

(* Every revision is written in small letters, so a branch whose name has  *)
(* capital letters is confused with one that has none.                     *)
WholeSource(source) ==
    source # NoSource => (source.revision.upper => source.revision.immutable)
WholeTool(spec) ==
    \A i \in 1..Len(spec.versions) : WholeSource(spec.versions[i].source)
WholeTools(tools) == \A tool \in DOMAIN tools : WholeTool(tools[tool])

(* A source file that is only "./" is dropped from its task. *)
WholeTask(task) ==
    /\ WholeTools(task.tools)
    /\ \A i \in 1..Len(task.sources) : ProjectPath(task.sources[i]) # <<"">>

KeptWhole(plan) ==
    /\ WholeTools(plan.tools)
    /\ \A name \in DOMAIN plan.packages :
          WholeSource(plan.packages[name].source)
    /\ \A t \in DOMAIN plan.tasks : WholeTask(plan.tasks[t])

(* The dots that lead a path are stripped, and no others: "src/./main" and *)
(* "src/main" have different digests.                                      *)
Straight(path) ==
    \A i \in 2..Len(path) : path[i] = "." => path[i - 1] = "."
StraightTask(task) ==
    /\ Straight(task.dir)
    /\ \A i \in 1..Len(task.sources) : Straight(task.sources[i])
StraightPlan(plan) == \A t \in DOMAIN plan.tasks : StraightTask(plan.tasks[t])

(* What is left of "./", "./~" or "./C:" is no valid path. *)
Plain(path) ==
    \A i \in 2..Len(path) :
        path[i - 1] = "." => path[i] \notin {"", Home, Drive}
PlainTask(task) ==
    /\ Plain(task.dir)
    /\ \A i \in 1..Len(task.sources) : Plain(task.sources[i])
PlainPlan(plan) == \A t \in DOMAIN plan.tasks : PlainTask(plan.tasks[t])

(* Two variants of a path that only backslashes tell apart are written as  *)
(* the same.                                                               *)
SpelledOnce(tools) ==
    \A tool \in DOMAIN tools : \A i, j \in 1..Len(tools[tool]) :
        Identity(NormalizedVariant(tools[tool][i]))
           = Identity(NormalizedVariant(tools[tool][j]))
        => Identity(tools[tool][i]) = Identity(tools[tool][j])

PlansKept == \A plan \in Plans : KeptWhole(plan)
PlansStraight == \A plan \in Plans : StraightPlan(plan)
PlansPlain == \A plan \in Plans : PlainPlan(plan)
SpellingsDiffer == \A tools \in Resolutions : SpelledOnce(tools)

-----------------------------------------------------------------------------
Init ==
    /\ plan_file \in Plans
    /\ lock_file = Nothing
    /\ plans = [h \in Hosts |-> Nothing]
    /\ locks = [h \in Hosts |-> Nothing]
    /\ installed = Nothing
    /\ resolved = {}

(* An author, a merge or a checkout. *)
EditPlan ==
    /\ plan_file' \in Plans
    /\ UNCHANGED <<lock_file, plans, locks, installed, resolved>>

(* parse_toml *)
LoadPlan(h) ==
    /\ ValidPlan(plan_file, "authoring")
    /\ plans' = [plans EXCEPT ![h] = plan_file]
    /\ UNCHANGED <<plan_file, lock_file, locks, installed, resolved>>

(* to_toml_string; what is held was validated when it was read. *)
StorePlan(h) ==
    /\ plans[h] # Nothing
    /\ plan_file' = NormalizedPlan(plans[h])
    /\ UNCHANGED <<lock_file, plans, locks, installed, resolved>>

Resolve(h) ==
    /\ h \in Resolvers
    /\ plans[h] # Nothing
    /\ \E for \in {[digest |-> PlanDigest(plans[h]),
                  meaning |-> Meaning(plans[h])]} :
       \E tools \in Resolutions, upper \in Cases :
          LET chosen == [digest |-> for.digest, meaning |-> for.meaning,
                         pins |-> Pins(tools)]
          IN  /\ Cardinality(resolved \cup {chosen}) <= MaxResolved
              /\ resolved' = resolved \cup {chosen}
              /\ locks' = [locks EXCEPT ![h] =
                     [plan |-> WrittenIn(for.digest, upper), tools |-> tools]]
    /\ UNCHANGED <<plan_file, lock_file, plans, installed>>

(* to_toml_string *)
WriteLock(h) ==
    /\ locks[h] # Nothing
    /\ ValidLock(locks[h], "local")
    /\ lock_file' = NormalizedLock(locks[h])
    /\ UNCHANGED <<plan_file, plans, locks, installed, resolved>>

(* parse_toml *)
ReadLock(h) ==
    /\ lock_file # Nothing
    /\ ValidLock(lock_file, "local")
    /\ locks' = [locks EXCEPT ![h] = lock_file]
    /\ UNCHANGED <<plan_file, lock_file, plans, installed, resolved>>

(* A frozen install. *)
Install(h) ==
    /\ plans[h] # Nothing /\ locks[h] # Nothing
    /\ VerifyPlanDigest(locks[h], PlanDigest(plans[h]))
    /\ installed' =
           [host |-> h, plan |-> plans[h], pins |-> PinsFor(locks[h], h)]
    /\ UNCHANGED <<plan_file, lock_file, plans, locks, resolved>>

Next ==
    \/ EditPlan
    \/ \E h \in Hosts : \/ LoadPlan(h) \/ StorePlan(h)
                        \/ Resolve(h) \/ WriteLock(h) \/ ReadLock(h)
                        \/ Install(h)

Spec == Init /\ [][Next]_vars

-----------------------------------------------------------------------------
(* Whatever order plans are edited, resolved and read in, what a host      *)
(* installs for the plan it holds was chosen by one resolution of a plan   *)
(* that means the same, for the host's platform (verify_plan_digest,       *)
(* canonical_json_bytes, variants_for_target).                             *)
Frozen == INSTANCE FrozenEnvironment WITH
    resolutions <- {[meaning |-> r.meaning, pins |-> r.pins] :
                       r \in resolved},
    installed <-
        IF installed = Nothing THEN Nothing
        ELSE [installed EXCEPT !.plan = Meaning(@)]

ImplementsFrozenEnvironment == Frozen!Spec

(* A digest names one meaning: two hosts whose plans have the same digest  *)
(* hold plans that say the same, to the order of tool versions and of      *)
(* sequential tasks (the normalizations sort nothing that is ordered).     *)
DigestNamesMeaning ==
    \A g, h \in Hosts :
        /\ g # h /\ plans[g] # Nothing /\ plans[h] # Nothing
        /\ PlanDigest(plans[g]) = PlanDigest(plans[h])
        => Meaning(plans[g]) = Meaning(plans[h])

(* A plan that is spelled in another way (sets in another order, with      *)
(* repetitions, paths below "./") keeps its digest and so its lock.        *)
SpellingKeepsDigest ==
    \A g, h \in Hosts :
        /\ g # h /\ plans[g] # Nothing /\ plans[h] # Nothing
        /\ Meaning(plans[g]) = Meaning(plans[h])
        => VerifyPlanDigest([plan |-> PlanDigest(plans[g])],
                            PlanDigest(plans[h]))

(* The digest is that of the meaning: neither less than it nor more.       *)
DigestIsOfMeaning == DigestNamesMeaning /\ SpellingKeepsDigest

(* Storing a plan leaves a file that is read back, and keeps the digest:   *)
(* parse_toml accepts what to_toml_string writes, as the round-trip tests  *)
(* have it, and normalizing again changes nothing.  Nor does storing make  *)
(* a plan fit for a frozen install that was not, or the other way round.   *)
StoredPlanIsReadable ==
    \A h \in Hosts : plans[h] # Nothing =>
        LET stored == NormalizedPlan(plans[h])
        IN  /\ ValidPlan(stored, "authoring")
            /\ \A mode \in Modes :
                  ValidFields(stored, mode) <=> ValidFields(plans[h], mode)
            /\ NormalizedPlan(stored) = stored

(* A lock that was written is read back by every host, and says what was   *)
(* resolved (to_toml_string, parse_toml and the round-trip tests).         *)
WrittenLockIsReadable ==
    lock_file # Nothing =>
        /\ ValidLock(lock_file, "local")
        /\ \E r \in resolved : /\ r.digest = lock_file.plan
                               /\ Pins(lock_file.tools) = r.pins

(* Two hosts that chose the same variants in another order, with other     *)
(* spellings, write the same file (EnvironmentLock::normalized).           *)
LockOrderDoesNotMatter ==
    \A g, h \in Hosts :
        /\ g # h /\ locks[g] # Nothing /\ locks[h] # Nothing
        /\ ValidLock(locks[g], "local") /\ ValidLock(locks[h], "local")
        /\ LockMeaning(locks[g]) = LockMeaning(locks[h])
        => NormalizedLock(locks[g]) = NormalizedLock(locks[h])

(* A lock file says what was resolved, and in one way.                     *)
LockFilesHold == WrittenLockIsReadable /\ LockOrderDoesNotMatter
=============================================================================
