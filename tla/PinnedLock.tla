----------------------------- MODULE PinnedLock -----------------------------
(***************************************************************************)
(* What a lockfile promises: each of its sections maps an identity to one  *)
(* pin, and a file that can be read holds acceptable pins only, none of    *)
(* them both a package and a tool.  Lockfile implements it with vectors.   *)
(***************************************************************************)
CONSTANTS
    Sections, Keys,
    Exclusive,          \* sections no two of which share an identity
    NoPin,
    Unreadable,         \* a file that is missing or that parse rejects
    Acceptable(_, _),   \* a section's pins fit for a file
    Explicit(_, _),     \* a section's pin as the file records it
    Built, Foreign      \* pins, and files, that come from elsewhere

VARIABLES
    pins,   \* in memory
    file    \* the pins a reader of the file finds, or Unreadable

vars == <<pins, file>>

Nothing == [section \in Sections |-> [key \in Keys |-> NoPin]]

Sealed(map) ==
    [section \in Sections |-> [key \in Keys |->
        IF map[section][key] = NoPin THEN NoPin
        ELSE Explicit(section, map[section][key])]]

Consistent(map) ==
    /\ \A section \in Sections : \A key \in Keys :
          map[section][key] # NoPin => Acceptable(section, map[section][key])
    /\ \A s, t \in Exclusive : \A key \in Keys :
          s # t => map[s][key] = NoPin \/ map[t][key] = NoPin

Init == pins = Nothing /\ file \in Foreign

(* One pin is added or replaced; no other changes. *)
Pin(section, key) ==
    /\ pins'[section][key] # NoPin
    /\ pins' = [pins EXCEPT ![section][key] = pins'[section][key]]
    /\ UNCHANGED file

Build == pins' \in Built /\ UNCHANGED file

Load == file # Unreadable /\ pins' = file /\ UNCHANGED file

Store ==
    /\ Consistent(Sealed(pins))
    /\ file' = Sealed(pins)
    /\ UNCHANGED pins

Replace == file' \in Foreign /\ UNCHANGED pins

Next ==
    \/ \E section \in Sections : \E key \in Keys : Pin(section, key)
    \/ Build \/ Load \/ Store \/ Replace

Spec == Init /\ [][Next]_vars
=============================================================================
