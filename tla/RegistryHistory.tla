--------------------------- MODULE RegistryHistory ---------------------------
(***************************************************************************)
(* What a registry promises its readers: there is one history of index     *)
(* roots, and a reader's view is a place in it that only moves forward.    *)
(***************************************************************************)
EXTENDS Integers, Sequences

CONSTANTS Readers, IndexRoots

VARIABLES
    roots,      \* the index roots committed so far, in order
    place       \* for each reader, the length of the history it has seen and
                \* the index root it takes packages from

Nowhere == [sequence |-> 0, index_root |-> "none"]

At(n) == [sequence |-> n, index_root |-> roots[n]]

Init ==
    /\ roots = <<>>
    /\ place = [reader \in Readers |-> Nowhere]

Commit(root) ==
    /\ roots' = Append(roots, root)
    /\ UNCHANGED place

Advance(reader) ==
    /\ \E n \in place[reader].sequence + 1 .. Len(roots) :
          place' = [place EXCEPT ![reader] = At(n)]
    /\ UNCHANGED roots

Next ==
    \/ \E root \in IndexRoots : Commit(root)
    \/ \E reader \in Readers : Advance(reader)

Spec == Init /\ [][Next]_<<roots, place>>

=============================================================================
