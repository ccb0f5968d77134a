------------------------- MODULE FrozenEnvironment -------------------------
(***************************************************************************)
(* What a plan and its lock promise: a host installs, for a plan, exactly  *)
(* what one resolution of a plan with that meaning chose for its platform. *)
(* EnvironmentFiles implements it.                                         *)
(***************************************************************************)
CONSTANTS Hosts, TargetOf, Nothing

VARIABLES
    resolutions,    \* what resolving plans has chosen, ever
    installed       \* the last installation: where, for which plan, what

vars == <<resolutions, installed>>

Init ==
    /\ resolutions = {}
    /\ installed = Nothing

Resolve ==
    /\ resolutions \subseteq resolutions'
    /\ UNCHANGED installed

Install(h) ==
    /\ \E r \in resolutions :
          installed' =
              [host |-> h, plan |-> r.meaning,
               pins |-> {pin \in r.pins : pin.target = TargetOf[h]}]
    /\ UNCHANGED resolutions

Next == Resolve \/ \E h \in Hosts : Install(h)

Spec == Init /\ [][Next]_vars
=============================================================================
