--------------------------- MODULE MCEdgeFallback ---------------------------
(***************************************************************************)
(* TLC instances of EdgeFallback in one state graph: a contract lifetime   *)
(* of 2 seconds, one session, one capability, four or five instants.  The  *)
(* scene says what varies.  In "contract" it is two keys, policies at the  *)
(* limits of the contract, and claims that the edge rejects by their       *)
(* times; in "sessions" epochs, policies within the contract, and claims   *)
(* that it rejects at once.                                                *)
(***************************************************************************)
EXTENDS EdgeFallback

VARIABLE scene

Signed(delay, ttl) ==
    [wellFormed |-> TRUE, assurance |-> 2, delay |-> delay, ttl |-> ttl]

MCClaims == {Signed(0, 2), Signed(1, 4)}

ClaimsRefused ==
    {[Signed(0, 2) EXCEPT !.wellFormed = FALSE],
     [Signed(0, 2) EXCEPT !.assurance = 0]}
ClaimsDefective == {Signed(-1, 1), Signed(0, 0)}
AllClaims == MCClaims \cup ClaimsRefused \cup ClaimsDefective

MinimumZero == [kind \in EpochKind |-> 0]
MinimumPolicyOne == [kind \in EpochKind |-> IF kind = "policy" THEN 1 ELSE 0]

(* A tight policy (a capability serves only in its first second), one at   *)
(* the contract's limit and one beyond it.                                 *)
Tight == [minimumAssurance |-> 1, minimumEpoch |-> MinimumPolicyOne,
          maxCapabilityAge |-> 0, maxRevocationAge |-> 1, maxJwksAge |-> 1,
          maxOutage |-> 2]
AtLimit == [minimumAssurance |-> 2, minimumEpoch |-> MinimumZero,
            maxCapabilityAge |-> 2, maxRevocationAge |-> 2, maxJwksAge |-> 2,
            maxOutage |-> 2]
BeyondLimit == [AtLimit EXCEPT !.maxRevocationAge = 4]

(* One that trusts a capability for longer than the key snapshot. *)
ShortSnapshot == [AtLimit EXCEPT !.maxJwksAge = 0]

PoliciesWithin == {Tight, AtLimit}
PoliciesBeyond == {ShortSnapshot, BeyondLimit}
AllPolicies == PoliciesWithin \cup PoliciesBeyond

-----------------------------------------------------------------------------
FirstKey == CHOOSE k \in Keys : TRUE

(* The claims a capability was minted from. *)
Claimed(c) == [wellFormed |-> c.wellFormed, assurance |-> c.assurance,
               delay |-> c.nbf - c.iat, ttl |-> c.exp - c.iat]

InScene ==
    /\ scene = "contract" =>
          /\ policy \in PoliciesBeyond
          /\ epoch = [kind \in EpochKind |-> 0]
          /\ \A c \in caps : Claimed(c) \in MCClaims \cup ClaimsDefective
    /\ scene = "sessions" =>
          /\ policy \in PoliciesWithin
          /\ activeKey = FirstKey
          /\ now < Horizon
          /\ \A c \in caps : Claimed(c) \in MCClaims \cup ClaimsRefused

(* Keys differ in nothing: the one that is active first may be any.        *)
MCInit ==
    /\ scene \in {"contract", "sessions"}
    /\ Init /\ activeKey = FirstKey /\ InScene
MCSpec == MCInit /\ [][Next /\ UNCHANGED scene /\ InScene']_<<vars, scene>>
=============================================================================
