------------------------- MODULE MCDependencyGraph -------------------------
(***************************************************************************)
(* Small instances of DependencyGraph: two or three packages, two          *)
(* features, two registries.                                               *)
(***************************************************************************)
EXTENDS DependencyGraph

It(key, features) == [key |-> key, features |-> features]

Bare(view) ==
    [view |-> view, scalars |-> 1, completeness |-> "complete",
     parent_graph_digest |-> NoDigest, projection |-> NoProjection,
     lists |-> [name \in ListNames |-> <<>>], graph_digest |-> NoDigest]

NoOffers == [name \in ListNames |-> {}]

(* A declared document; a resolved one with unsorted and repeated items,   *)
(* and an edge whose end may be missing; a projection of two filters.      *)
Declared == Bare("declared")

Resolved ==
    [Bare("resolved") EXCEPT
        !.lists["nodes"] = <<It(<<2, 1>>, <<>>)>>,
        !.lists["roots"] = <<It(<<2>>, <<>>)>>,
        !.lists["edges"] = <<It(<<2, 1>>, <<2, 1, 2>>)>>,
        !.lists["registry_snapshots"] =
            <<It(<<2, 1>>, <<>>), It(<<1, 1>>, <<>>), It(<<2, 1>>, <<>>)>>]

Projected ==
    [Resolved EXCEPT
        !.completeness = "projected",
        !.lists["edges"] = <<>>,
        !.parent_graph_digest = Digest(Resolved),
        !.projection = [limited |-> FALSE, filters |-> <<2, 1>>]]

MCStarts == {Declared, Resolved, Projected}

(* The same dependency and the same edge with their features in either     *)
(* order, the node an edge needs, a node that contradicts another.         *)
MCOffered ==
    [NoOffers EXCEPT
        !["dependencies"] = {It(<<1>>, <<1, 2>>), It(<<1>>, <<2, 1>>)},
        !["edges"] = {It(<<2, 1>>, <<1, 2>>)},
        !["nodes"] = {It(<<1, 1>>, <<2, 1, 2>>), It(<<2, 2>>, <<>>)}]

(* A projection that says nothing, and one that does. *)
MCFilters ==
    {[limited |-> FALSE, filters |-> <<>>],
     [limited |-> TRUE, filters |-> <<>>]}
============================================================================
