---------------------------- MODULE TaskVerdict ----------------------------
(***************************************************************************)
(* What validating a plan's tasks decides, with no search: a plan whose    *)
(* names are ambiguous or dangling is refused, a plan whose tasks wait for *)
(* each other is refused with such a cycle, every other plan is accepted.  *)
(* EnvironmentTasks implements it.                                         *)
(***************************************************************************)
EXTENDS Integers, Sequences

CONSTANTS Names, Patterns, Plans

VARIABLES plan, verdict

vars == <<plan, verdict>>

Running == [kind |-> "running", cycle |-> <<>>]

(* The tasks a name may stand for: itself, and every task with that alias. *)
Owners(name) ==
    {t \in plan.tasks : t = name \/ name \in plan.aliases[t]}

Ambiguous ==
    \E name \in Names : \E t, u \in Owners(name) :
        t # u /\ name \in plan.aliases[u]

Dangling ==
    \E t \in plan.tasks : \E name \in plan.references[t] \ Patterns :
        Owners(name) = {}

(* Patterns are resolved when a task runs and impose no order here. *)
Successors(t) ==
    UNION {Owners(name) : name \in plan.references[t] \ Patterns}

(* Every set of tasks has one that waits for no task of the set: the tasks *)
(* can be run in some order, dependencies first.                           *)
Acyclic ==
    \A S \in SUBSET plan.tasks :
        S # {} => \E t \in S : Successors(t) \cap S = {}

(* A sequence of tasks, each a successor of the one before, that ends      *)
(* where it begins and passes nowhere else twice.                          *)
IsCycle(c) ==
    /\ Len(c) > 1 /\ c[1] = c[Len(c)]
    /\ \A i \in 1..Len(c) : c[i] \in plan.tasks
    /\ \A i \in 1..(Len(c) - 1) : c[i + 1] \in Successors(c[i])
    /\ \A i, j \in 1..(Len(c) - 1) : i # j => c[i] # c[j]

Init == plan \in Plans /\ verdict = Running

RefuseAlias ==
    /\ Ambiguous
    /\ verdict' = [kind |-> "duplicate_alias", cycle |-> <<>>]

RefuseReference ==
    /\ ~Ambiguous /\ Dangling
    /\ verdict' = [kind |-> "unknown_dependency", cycle |-> <<>>]

RefuseCycle ==
    /\ ~Ambiguous /\ ~Dangling
    /\ verdict' = [kind |-> "cycle", cycle |-> verdict'.cycle]
    /\ IsCycle(verdict'.cycle)

AcceptPlan ==
    /\ ~Ambiguous /\ ~Dangling /\ Acyclic
    /\ verdict' = [kind |-> "ok", cycle |-> <<>>]

Next ==
    /\ verdict = Running
    /\ RefuseAlias \/ RefuseReference \/ RefuseCycle \/ AcceptPlan
    /\ UNCHANGED plan

Spec == Init /\ [][Next]_vars

(* Some verdict is reached. *)
Decides == <>(verdict # Running)
=============================================================================
