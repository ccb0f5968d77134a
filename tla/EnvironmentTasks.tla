-------------------------- MODULE EnvironmentTasks --------------------------
(***************************************************************************)
(* EnvironmentPlanV2::validate_tasks and visit_task                        *)
(* (src/rust/environment_v2.rs): the three passes over a plan's tasks that *)
(* collect the aliases, look up every reference and search the dependency  *)
(* graph depth first.  A step is one iteration of a pass or one call of    *)
(* visit_task; `stack`, `visiting` and `visited` are the code's variables, *)
(* and `pending` is the position of each active call in its loop.          *)
(*                                                                         *)
(* The order in which a pass meets tasks, and a task its references, is    *)
(* left open: the code's (sorted keys, declaration order) is one of them.  *)
(***************************************************************************)
EXTENDS Integers, Sequences, FiniteSets

CONSTANTS
    Names,      \* names: of tasks, aliases and references alike
    Patterns,   \* the names is_task_pattern accepts
    NoTask,     \* the absence of an alias
    TaskPlans       \* plans that may be validated

(* A plan's tasks, the aliases each declares, and what referenced_tasks    *)
(* returns for each: its dependencies, post-dependencies, waits and the    *)
(* tasks its run steps invoke.                                             *)
Plan == [tasks : SUBSET Names, aliases : [Names -> SUBSET Names],
         references : [Names -> SUBSET Names]]

ASSUME PlansAssumption ==
    /\ Patterns \subseteq Names
    /\ NoTask \notin Names
    /\ TaskPlans \subseteq Plan
    /\ \A p \in TaskPlans : IsFiniteSet(p.tasks)

VARIABLES
    given,       \* the plan under validation; never changes
    pass,       \* "aliases", "references", "visit" or "done"
    todo,       \* tasks the current pass has not reached
    aliasOf,    \* the task each alias stands for
    stack,      \* the active calls of visit_task, outermost first
    pending,    \* references each task has still to follow
    visiting,
    visited,
    verdict     \* the result: see Verdict

taskVars ==
    <<given, pass, todo, aliasOf, stack, pending, visiting, visited, verdict>>

(* Ok, or the error; a cycle comes with the tasks the error names. *)
Verdict ==
    {[kind |-> k, cycle |-> <<>>] :
        k \in {"running", "ok", "duplicate_alias", "unknown_dependency"}}
    \cup [kind : {"cycle"}, cycle : Seq(Names)]

Running == [kind |-> "running", cycle |-> <<>>]

TypeOK ==
    /\ given \in Plan
    /\ pass \in {"aliases", "references", "visit", "done"}
    /\ todo \subseteq given.tasks
    /\ aliasOf \in [Names -> given.tasks \cup {NoTask}]
    /\ stack \in Seq(given.tasks)
    /\ pending \in [Names -> SUBSET Names]
    /\ visiting \subseteq given.tasks
    /\ visited \subseteq given.tasks
    /\ verdict \in Verdict

-----------------------------------------------------------------------------
(* aliases.get(task).unwrap_or(task) *)
Canonical(name) == IF aliasOf[name] = NoTask THEN name ELSE aliasOf[name]

(* Mutant: an alias that is another task's name goes unnoticed. *)
ClashesOnlyAliases(t, alias) == aliasOf[alias] \notin {NoTask, t}

(* An alias that is another task's name, or that another task declared. *)
Clashes(t, alias) ==
    \/ alias \in given.tasks /\ alias # t
    \/ aliasOf[alias] \notin {NoTask, t}

(* A reference validate_tasks rejects: not a pattern, a task or an alias. *)
Dangling(name) ==
    /\ name \notin Patterns
    /\ name \notin given.tasks
    /\ aliasOf[name] = NoTask

(* Mutant: a task being visited counts as visited. *)
SkippedWhenVisiting(name) ==
    \/ name \in Patterns
    \/ Canonical(name) \in visited \cup visiting
    \/ Canonical(name) \notin given.tasks

(* References visit_task returns from at once, without an error.  The last *)
(* case cannot follow a successful second pass.                            *)
Skipped(name) ==
    \/ name \in Patterns
    \/ Canonical(name) \in visited
    \/ Canonical(name) \notin given.tasks

(* Mutant: the whole stack is reported. *)
CycleToWhole(t) == Append(stack, t)

(* The cycle the error reports: the stack from the first occurrence of the *)
(* task on, and the task again.                                            *)
CycleTo(t) ==
    LET start == CHOOSE i \in 1..Len(stack) : stack[i] = t
    IN  Append(SubSeq(stack, start, Len(stack)), t)

Finish(kind, cycle) ==
    /\ pass' = "done"
    /\ verdict' = [kind |-> kind, cycle |-> cycle]

-----------------------------------------------------------------------------
TaskInit ==
    /\ given \in TaskPlans
    /\ pass = "aliases"
    /\ todo = given.tasks
    /\ aliasOf = [name \in Names |-> NoTask]
    /\ stack = <<>>
    /\ pending = [name \in Names |-> {}]
    /\ visiting = {}
    /\ visited = {}
    /\ verdict = Running

(* First pass: one task's aliases. *)
CollectAliases(t) ==
    /\ pass = "aliases" /\ t \in todo
    /\ \A alias \in given.aliases[t] : ~Clashes(t, alias)
    /\ aliasOf' = [name \in Names |->
                      IF name \in given.aliases[t] THEN t ELSE aliasOf[name]]
    /\ todo' = todo \ {t}
    /\ UNCHANGED <<given, pass, stack, pending, visiting, visited, verdict>>

RejectAlias(t) ==
    /\ pass = "aliases" /\ t \in todo
    /\ \E alias \in given.aliases[t] : Clashes(t, alias)
    /\ Finish("duplicate_alias", <<>>)
    /\ UNCHANGED <<given, todo, aliasOf, stack, pending, visiting, visited>>

(* Second pass: one task's references. *)
CheckReferences(t) ==
    /\ pass = "references" /\ t \in todo
    /\ \A name \in given.references[t] : ~Dangling(name)
    /\ todo' = todo \ {t}
    /\ UNCHANGED <<given, pass, aliasOf, stack, pending, visiting, visited,
                   verdict>>

RejectReference(t) ==
    /\ pass = "references" /\ t \in todo
    /\ \E name \in given.references[t] : Dangling(name)
    /\ Finish("unknown_dependency", <<>>)
    /\ UNCHANGED <<given, todo, aliasOf, stack, pending, visiting, visited>>

(* The end of the first or second pass. *)
NextPass ==
    /\ pass \in {"aliases", "references"} /\ todo = {}
    /\ pass' = IF pass = "aliases" THEN "references" ELSE "visit"
    /\ todo' = given.tasks
    /\ UNCHANGED <<given, aliasOf, stack, pending, visiting, visited, verdict>>

(* Third pass.  A call of visit_task that enters the loop on t. *)
Enter(t) ==
    /\ visiting' = visiting \cup {t}
    /\ stack' = Append(stack, t)

(* Mutant: a task another one led to is never crossed off. *)
VisitFreshTask(t) ==
    /\ pass = "visit" /\ stack = <<>> /\ t \in todo
    /\ Canonical(t) \notin visited
    /\ todo' = todo \ {t}
    /\ Enter(Canonical(t))
    /\ pending' = [pending EXCEPT
           ![Canonical(t)] = given.references[Canonical(t)]]
    /\ UNCHANGED <<given, pass, aliasOf, visited, verdict>>

(* The outermost call, for each task of the plan. *)
VisitTask(t) ==
    /\ pass = "visit" /\ stack = <<>> /\ t \in todo
    /\ todo' = todo \ {t}
    /\ IF Canonical(t) \in visited
       THEN UNCHANGED <<stack, pending, visiting>>
       ELSE /\ Enter(Canonical(t))
            /\ pending' = [pending EXCEPT
                   ![Canonical(t)] = given.references[Canonical(t)]]
    /\ UNCHANGED <<given, pass, aliasOf, visited, verdict>>

(* The loop of the innermost call, on its reference `name`. *)
Follow(name) ==
    /\ pass = "visit" /\ stack # <<>>
    /\ LET t == stack[Len(stack)]
           next == Canonical(name)
       IN  /\ name \in pending[t]
           /\ \/ /\ Skipped(name)
                 /\ pending' = [pending EXCEPT ![t] = @ \ {name}]
                 /\ UNCHANGED <<pass, stack, visiting, verdict>>
              \/ /\ ~Skipped(name) /\ next \in visiting
                 /\ Finish("cycle", CycleTo(next))
                 /\ UNCHANGED <<stack, pending, visiting>>
              \/ /\ ~Skipped(name) /\ next \notin visiting
                 /\ Enter(next)
                 /\ pending' = [pending EXCEPT ![t] = @ \ {name},
                                       ![next] = given.references[next]]
                 /\ UNCHANGED <<pass, verdict>>
    /\ UNCHANGED <<given, todo, aliasOf, visited>>

(* The innermost call has followed every reference and returns. *)
Return ==
    /\ pass = "visit" /\ stack # <<>>
    /\ LET t == stack[Len(stack)]
       IN  /\ pending[t] = {}
           /\ stack' = SubSeq(stack, 1, Len(stack) - 1)
           /\ visiting' = visiting \ {t}
           /\ visited' = visited \cup {t}
    /\ UNCHANGED <<given, pass, todo, aliasOf, pending, verdict>>

Accept ==
    /\ pass = "visit" /\ stack = <<>> /\ todo = {}
    /\ Finish("ok", <<>>)
    /\ UNCHANGED <<given, todo, aliasOf, stack, pending, visiting, visited>>

TaskNext ==
    \/ \E t \in todo : \/ CollectAliases(t) \/ RejectAlias(t)
                       \/ CheckReferences(t) \/ RejectReference(t)
                       \/ VisitTask(t)
    \/ NextPass
    \/ \E name \in Names : Follow(name)
    \/ Return
    \/ Accept

TaskSpec == TaskInit /\ [][TaskNext]_taskVars

(* Validation is a sequential computation: it runs until it returns. *)
FairSpec == TaskSpec /\ WF_taskVars(TaskNext)

-----------------------------------------------------------------------------
(* The three passes reach exactly the declared verdict: an accepted plan   *)
(* is unambiguous, closed and acyclic, and a refused one is refused for a  *)
(* reason that is there (validate_tasks, visit_task).                      *)
Decision == INSTANCE TaskVerdict WITH Plans <- TaskPlans, plan <- given

ImplementsTaskVerdict == Decision!Spec

(* Validation returns, whatever the graph: visit_task recurses only into   *)
(* tasks it has not met.                                                   *)
Terminates == Decision!Decides

(* An accepted plan can be run: its tasks can be ordered so that each one  *)
(* follows everything it depends on, waits for or invokes, its aliases     *)
(* resolved (visit_task's visiting and visited sets).                      *)
AcceptedIsAcyclic == verdict.kind = "ok" => Decision!Acyclic

(* The cycle a TaskDependencyCycle error prints is one of the plan, not    *)
(* the path that led to it: the stack is cut at the first occurrence.      *)
ReportedCycleIsReal ==
    verdict.kind = "cycle" => Decision!IsCycle(verdict.cycle)

=============================================================================
