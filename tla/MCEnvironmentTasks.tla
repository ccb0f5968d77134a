------------------------- MODULE MCEnvironmentTasks -------------------------
(***************************************************************************)
(* TLC instance of EnvironmentTasks.   Graphs: every dependency graph on   *)
(* three tasks, one of which also answers to the alias x.  NamePlans: one  *)
(* or two tasks, with patterns, unknown names, and aliases that clash.     *)
(***************************************************************************)
EXTENDS EnvironmentTasks

MCNames == {"a", "b", "c", "x", "p*", "u"}
MCPatterns == {"p*"}

NoAliases == [n \in MCNames |-> {}]

PlanOf(tasks, aliases, references) ==
    [tasks |-> tasks, aliases |-> aliases,
     references |-> [n \in MCNames |->
                        IF n \in tasks THEN references[n] ELSE {}]]

Graphs ==
    {PlanOf({"a", "b", "c"}, [NoAliases EXCEPT !["a"] = {"x"}], r) :
        r \in [{"a", "b", "c"} -> SUBSET {"a", "b", "c", "x"}]}

NamePlans ==
    {PlanOf(tasks, [NoAliases EXCEPT !["a"] = x, !["b"] = y], r) :
        tasks \in {{"a"}, {"a", "b"}},
        x \in {{}, {"a"}, {"b"}, {"x"}, {"p*"}},
        y \in {{}, {"a"}, {"x"}, {"x", "p*"}},
        r \in [{"a", "b"} -> {{}, {"u"}, {"x"}, {"b"}, {"a"}, {"p*"},
                              {"x", "p*"}, {"b", "u"}, {"p*", "b"}}]}

MCPlans == Graphs \cup NamePlans
=============================================================================
