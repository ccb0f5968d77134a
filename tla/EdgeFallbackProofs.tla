------------------------- MODULE EdgeFallbackProofs -------------------------
(***************************************************************************)
(* The safety properties of EdgeFallback hold for every set of sessions,   *)
(* keys, claims and policies, every contract lifetime and every clock      *)
(* error.  The properties bound an admission by a later event (a           *)
(* revocation, a rotation), so the inductive invariant follows the stamp   *)
(* the admission relies on from where it was taken to where it is compared.*)
(***************************************************************************)
EXTENDS EdgeFallback, TLAPS

(* A session's check, and the checkpoint of a capability, predate the      *)
(* session's revocation.                                                   *)
CheckInv ==
    /\ \A s \in Sessions : lastCheck[s] # Never =>
          /\ lastCheck[s] <= now + CheckSkew
          /\ revokedAt[s] # Never => lastCheck[s] <= revokedAt[s] + CheckSkew
    /\ \A c \in caps :
          /\ c.revocationCheckedAt <= now + CheckSkew
          /\ revokedAt[c.sid] # Never =>
                c.revocationCheckedAt <= revokedAt[c.sid] + CheckSkew

(* No epoch from the current one on is superseded; the mint of a           *)
(* capability predates the end of its epochs.                              *)
EpochInv ==
    \A kind \in EpochKind :
        /\ \A e \in Epoch : e >= epoch[kind] => supersededAt[kind][e] = Never
        /\ \A c \in caps :
              /\ c.iat <= now + MintSkew
              /\ supersededAt[kind][c.epoch[kind]] # Never =>
                    c.iat <= supersededAt[kind][c.epoch[kind]] + MintSkew

(* The key snapshot predates the retirement of every key in it, and the    *)
(* outage.                                                                 *)
KeyInv ==
    /\ retiredAt[activeKey] = Never
    /\ jwksRefreshedAt <= now
    /\ downSince # Never => jwksRefreshedAt <= downSince /\ downSince <= now
    /\ \A k \in jwks : retiredAt[k] # Never => jwksRefreshedAt <= retiredAt[k]

(* What the latest admission relied on. *)
ServedInv ==
    \A a \in served :
        /\ a.cap \in caps
        /\ a.at <= now
        /\ a.at <= a.cap.iat + a.under.maxCapabilityAge
        /\ a.at <= a.cap.revocationCheckedAt + a.under.maxRevocationAge
        /\ a.under.maxCapabilityAge <= MaxTtl
        /\ a.under.maxRevocationAge <= MaxTtl
        /\ retiredAt[a.cap.kid] # Never =>
              a.at <= retiredAt[a.cap.kid] + a.under.maxJwksAge

IInv == TypeOK /\ CheckInv /\ EpochInv /\ KeyInv /\ ServedInv

-----------------------------------------------------------------------------
USE DEF Never

(* A minted capability is well typed: its stamps are u64 values.           *)
LEMMA MintedType ==
    ASSUME TypeOK, NEW s \in Sessions, NEW claim \in Claims,
           lastCheck[s] # Never
    PROVE  Minted(s, claim) \in Capability
  BY ConstantsAssumption
  DEF TypeOK, Minted, Capability, Claim, Stamp

LEMMA InitIInv == Init => IInv
<1> SUFFICES ASSUME Init PROVE IInv
  OBVIOUS
<1>1. TypeOK
  <2>1. supersededAt \in [EpochKind -> [Epoch -> Stamp]]
    BY DEF Init, Stamp
  <2>2. epoch \in [EpochKind -> Epoch]
    BY ConstantsAssumption DEF Init, Epoch
  <2> QED
    BY <2>1, <2>2, ConstantsAssumption DEF Init, TypeOK, Stamp
<1>2. CheckInv
  BY DEF Init, CheckInv
<1>3. EpochInv
  BY DEF Init, EpochInv
<1>4. KeyInv
  BY ConstantsAssumption DEF Init, KeyInv
<1>5. ServedInv
  BY DEF Init, ServedInv
<1> QED
  BY <1>1, <1>2, <1>3, <1>4, <1>5 DEF IInv

(* Every step preserves the invariant.                                     *)
LEMMA StepIInv == IInv /\ [Next]_vars => IInv'
<1> SUFFICES ASSUME IInv, [Next]_vars PROVE IInv'
  OBVIOUS
<1> USE DEF IInv, authorityVars, issuerVars, edgeVars
<1>1. CASE Tick
  <2>1. TypeOK'
    BY <1>1, ConstantsAssumption DEF TypeOK, Tick, Stamp
  <2>2. CheckInv'
    BY <1>1, ConstantsAssumption
    DEF TypeOK, Tick, CheckInv, Stamp, Capability, Admission
  <2>3. EpochInv'
    BY <1>1, ConstantsAssumption
    DEF TypeOK, Tick, EpochInv, Stamp, Capability, Admission
  <2>4. KeyInv'
    BY <1>1, ConstantsAssumption
    DEF TypeOK, Tick, KeyInv, Stamp, Capability, Admission
  <2>5. ServedInv'
    BY <1>1, ConstantsAssumption
    DEF TypeOK, Tick, ServedInv, Stamp, Capability, Admission
  <2> QED
    BY <2>1, <2>2, <2>3, <2>4, <2>5
<1>2. ASSUME NEW s \in Sessions, Revoke(s) PROVE IInv'
  <2>1. TypeOK'
    BY <1>2, ConstantsAssumption DEF TypeOK, Revoke, Stamp
  <2>2. CheckInv'
    BY <1>2, ConstantsAssumption DEF TypeOK, Revoke, CheckInv
  <2>3. EpochInv'
    BY <1>2, ConstantsAssumption DEF TypeOK, Revoke, EpochInv
  <2>4. KeyInv'
    BY <1>2, ConstantsAssumption DEF TypeOK, Revoke, KeyInv
  <2>5. ServedInv'
    BY <1>2, ConstantsAssumption DEF TypeOK, Revoke, ServedInv
  <2> QED
    BY <2>1, <2>2, <2>3, <2>4, <2>5
<1>3. ASSUME NEW s \in Sessions, CheckSession(s) PROVE IInv'
  <2>1. TypeOK'
    BY <1>3, ConstantsAssumption DEF TypeOK, CheckSession, Stamp
  <2>2. CheckInv'
    BY <1>3, ConstantsAssumption DEF TypeOK, CheckSession, CheckInv
  <2>3. EpochInv'
    BY <1>3, ConstantsAssumption DEF TypeOK, CheckSession, EpochInv
  <2>4. KeyInv'
    BY <1>3, ConstantsAssumption DEF TypeOK, CheckSession, KeyInv
  <2>5. ServedInv'
    BY <1>3, ConstantsAssumption DEF TypeOK, CheckSession, ServedInv
  <2> QED
    BY <2>1, <2>2, <2>3, <2>4, <2>5
<1>4. ASSUME NEW kind \in EpochKind, SupersedeEpoch(kind) PROVE IInv'
  <2>1. TypeOK'
    <3>1. supersededAt' \in [EpochKind -> [Epoch -> Stamp]]
      BY <1>4 DEF TypeOK, SupersedeEpoch, Stamp
    <3>2. epoch' \in [EpochKind -> Epoch]
      BY <1>4, ConstantsAssumption DEF TypeOK, SupersedeEpoch, Epoch
    <3> QED
      BY <1>4, <3>1, <3>2 DEF TypeOK, SupersedeEpoch
  <2>2. CheckInv'
    BY <1>4, ConstantsAssumption DEF TypeOK, SupersedeEpoch, CheckInv
  <2>3. EpochInv'
    BY <1>4, ConstantsAssumption
    DEF TypeOK, SupersedeEpoch, EpochInv, Stamp, Capability, Epoch
  <2>4. KeyInv'
    BY <1>4, ConstantsAssumption DEF TypeOK, SupersedeEpoch, KeyInv
  <2>5. ServedInv'
    BY <1>4, ConstantsAssumption DEF TypeOK, SupersedeEpoch, ServedInv
  <2> QED
    BY <2>1, <2>2, <2>3, <2>4, <2>5
<1>5. ASSUME NEW s \in Sessions, NEW claim \in Claims, Mint(s, claim)
      PROVE  IInv'
  <2>1. TypeOK'
    BY <1>5, MintedType DEF TypeOK, Mint
  <2>2. CheckInv'
    BY <1>5, ConstantsAssumption DEF TypeOK, Mint, CheckInv, Minted
  <2>3. EpochInv'
    <3>1. \A kind \in EpochKind : supersededAt[kind][epoch[kind]] = Never
      BY ConstantsAssumption DEF TypeOK, EpochInv, Epoch
    <3> QED
      BY <1>5, <3>1, ConstantsAssumption DEF TypeOK, Mint, EpochInv, Minted
  <2>4. KeyInv'
    BY <1>5, ConstantsAssumption DEF TypeOK, Mint, KeyInv
  <2>5. ServedInv'
    BY <1>5, ConstantsAssumption DEF TypeOK, Mint, ServedInv
  <2> QED
    BY <2>1, <2>2, <2>3, <2>4, <2>5
<1>6. ASSUME NEW k \in Keys, RotateKey(k) PROVE IInv'
  <2>1. TypeOK'
    BY <1>6, ConstantsAssumption DEF TypeOK, RotateKey, Stamp
  <2>2. CheckInv'
    BY <1>6, ConstantsAssumption DEF TypeOK, RotateKey, CheckInv
  <2>3. EpochInv'
    BY <1>6, ConstantsAssumption DEF TypeOK, RotateKey, EpochInv
  <2>4. KeyInv'
    BY <1>6, ConstantsAssumption DEF TypeOK, RotateKey, KeyInv
  <2>5. ServedInv'
    BY <1>6, ConstantsAssumption
    DEF TypeOK, RotateKey, ServedInv, Admission, Policy, Capability, Stamp
  <2> QED
    BY <2>1, <2>2, <2>3, <2>4, <2>5
<1>7. CASE LoseOrigin
  <2>1. TypeOK'
    BY <1>7, ConstantsAssumption DEF TypeOK, LoseOrigin, Stamp
  <2>2. CheckInv'
    BY <1>7, ConstantsAssumption DEF TypeOK, LoseOrigin, CheckInv
  <2>3. EpochInv'
    BY <1>7, ConstantsAssumption DEF TypeOK, LoseOrigin, EpochInv
  <2>4. KeyInv'
    BY <1>7, ConstantsAssumption DEF TypeOK, LoseOrigin, KeyInv
  <2>5. ServedInv'
    BY <1>7, ConstantsAssumption DEF TypeOK, LoseOrigin, ServedInv
  <2> QED
    BY <2>1, <2>2, <2>3, <2>4, <2>5
<1>8. CASE RegainOrigin
  <2>1. TypeOK'
    BY <1>8, ConstantsAssumption DEF TypeOK, RegainOrigin, Stamp
  <2>2. CheckInv'
    BY <1>8, ConstantsAssumption DEF TypeOK, RegainOrigin, CheckInv
  <2>3. EpochInv'
    BY <1>8, ConstantsAssumption DEF TypeOK, RegainOrigin, EpochInv
  <2>4. KeyInv'
    BY <1>8, ConstantsAssumption DEF TypeOK, RegainOrigin, KeyInv
  <2>5. ServedInv'
    BY <1>8, ConstantsAssumption DEF TypeOK, RegainOrigin, ServedInv
  <2> QED
    BY <2>1, <2>2, <2>3, <2>4, <2>5
<1>9. CASE NoticeOutage
  <2>1. TypeOK'
    BY <1>9, ConstantsAssumption DEF TypeOK, NoticeOutage, Stamp
  <2>2. CheckInv'
    BY <1>9, ConstantsAssumption DEF TypeOK, NoticeOutage, CheckInv
  <2>3. EpochInv'
    BY <1>9, ConstantsAssumption DEF TypeOK, NoticeOutage, EpochInv
  <2>4. KeyInv'
    BY <1>9, ConstantsAssumption DEF TypeOK, NoticeOutage, KeyInv
  <2>5. ServedInv'
    BY <1>9, ConstantsAssumption DEF TypeOK, NoticeOutage, ServedInv
  <2> QED
    BY <2>1, <2>2, <2>3, <2>4, <2>5
<1>10. CASE NoticeRecovery
  <2>1. TypeOK'
    BY <1>10, ConstantsAssumption DEF TypeOK, NoticeRecovery, Stamp
  <2>2. CheckInv'
    BY <1>10, ConstantsAssumption DEF TypeOK, NoticeRecovery, CheckInv
  <2>3. EpochInv'
    BY <1>10, ConstantsAssumption DEF TypeOK, NoticeRecovery, EpochInv
  <2>4. KeyInv'
    BY <1>10, ConstantsAssumption DEF TypeOK, NoticeRecovery, KeyInv
  <2>5. ServedInv'
    BY <1>10, ConstantsAssumption DEF TypeOK, NoticeRecovery, ServedInv
  <2> QED
    BY <2>1, <2>2, <2>3, <2>4, <2>5
<1>11. CASE RefreshJwks
  <2>1. TypeOK'
    BY <1>11, ConstantsAssumption DEF TypeOK, RefreshJwks, Stamp
  <2>2. CheckInv'
    BY <1>11, ConstantsAssumption DEF TypeOK, RefreshJwks, CheckInv
  <2>3. EpochInv'
    BY <1>11, ConstantsAssumption DEF TypeOK, RefreshJwks, EpochInv
  <2>4. KeyInv'
    BY <1>11, ConstantsAssumption DEF TypeOK, RefreshJwks, KeyInv
  <2>5. ServedInv'
    BY <1>11, ConstantsAssumption DEF TypeOK, RefreshJwks, ServedInv
  <2> QED
    BY <2>1, <2>2, <2>3, <2>4, <2>5
<1>12. ASSUME NEW p \in Policies, DeployPolicy(p) PROVE IInv'
  <2>1. TypeOK'
    BY <1>12, ConstantsAssumption DEF TypeOK, DeployPolicy, Stamp
  <2>2. CheckInv'
    BY <1>12, ConstantsAssumption DEF TypeOK, DeployPolicy, CheckInv
  <2>3. EpochInv'
    BY <1>12, ConstantsAssumption DEF TypeOK, DeployPolicy, EpochInv
  <2>4. KeyInv'
    BY <1>12, ConstantsAssumption DEF TypeOK, DeployPolicy, KeyInv
  <2>5. ServedInv'
    BY <1>12, ConstantsAssumption DEF TypeOK, DeployPolicy, ServedInv
  <2> QED
    BY <2>1, <2>2, <2>3, <2>4, <2>5
<1>13. ASSUME NEW c \in caps, Serve(c) PROVE IInv'
  <2>1. TypeOK'
    BY <1>13, ConstantsAssumption DEF TypeOK, Serve, Stamp, Admission
  <2>2. CheckInv'
    BY <1>13, ConstantsAssumption DEF TypeOK, Serve, CheckInv
  <2>3. EpochInv'
    BY <1>13, ConstantsAssumption DEF TypeOK, Serve, EpochInv
  <2>4. KeyInv'
    BY <1>13, ConstantsAssumption DEF TypeOK, Serve, KeyInv
  <2>5. ServedInv'
    <3> DEFINE a == [cap |-> c, at |-> now, under |-> policy]
    <3>1. policy \in Policy /\ c \in Capability
      BY <1>13, ConstantsAssumption DEF TypeOK
    <3>2. /\ now - c.iat <= policy.maxCapabilityAge
          /\ now - c.revocationCheckedAt <= policy.maxRevocationAge
          /\ now - jwksRefreshedAt <= policy.maxJwksAge
          /\ PolicyWithinContract(policy)
      BY <1>13 DEF Serve, MayServe, AdmitOutage, Fresh, WithinAge
    <3>3. retiredAt[c.kid] # Never => jwksRefreshedAt <= retiredAt[c.kid]
      BY <1>13 DEF Serve, MayServe, KeyInv
    <3>4. /\ now <= c.iat + policy.maxCapabilityAge
          /\ now <= c.revocationCheckedAt + policy.maxRevocationAge
          /\ retiredAt[c.kid] # Never =>
                now <= retiredAt[c.kid] + policy.maxJwksAge
      BY <3>1, <3>2, <3>3 DEF TypeOK, Policy, Capability, Stamp
    <3>5. served' = {a} /\ UNCHANGED <<now, caps, retiredAt>>
      BY <1>13 DEF Serve
    <3> QED
      BY <1>13, <3>1, <3>2, <3>4, <3>5
      DEF TypeOK, ServedInv, PolicyWithinContract
  <2> QED
    BY <2>1, <2>2, <2>3, <2>4, <2>5
<1>14. CASE UNCHANGED vars
  <2>1. TypeOK'
    BY <1>14, ConstantsAssumption DEF TypeOK, vars, Stamp
  <2>2. CheckInv'
    BY <1>14, ConstantsAssumption DEF TypeOK, vars, CheckInv
  <2>3. EpochInv'
    BY <1>14, ConstantsAssumption DEF TypeOK, vars, EpochInv
  <2>4. KeyInv'
    BY <1>14, ConstantsAssumption DEF TypeOK, vars, KeyInv
  <2>5. ServedInv'
    BY <1>14, ConstantsAssumption DEF TypeOK, vars, ServedInv
  <2> QED
    BY <2>1, <2>2, <2>3, <2>4, <2>5
<1> QED
  BY <1>1, <1>2, <1>3, <1>4, <1>5, <1>6, <1>7, <1>8, <1>9, <1>10, <1>11, <1>12,
     <1>13, <1>14
  DEF Next
-----------------------------------------------------------------------------
(* The invariant holds in every reachable state.                           *)
THEOREM Invariance == Spec => []IInv
<1>1. Init => IInv
  BY InitIInv
<1>2. IInv /\ [Next]_vars => IInv'
  BY StepIInv
<1> QED
  BY <1>1, <1>2, PTL DEF Spec

(* The variables of the outage protocol keep their types.                  *)
THEOREM TypeCorrect == Spec => []TypeOK
<1>1. IInv => TypeOK
  BY DEF IInv
<1> QED
  BY <1>1, Invariance, PTL

(* A revoked session is not served later than the revocation age of the    *)
(* policy in force allows, for any delay between check, mint and use.      *)
THEOREM RevocationIsBounded == Spec => []BoundedRevocation
<1>1. IInv => BoundedRevocation
  BY ConstantsAssumption
  DEF IInv, TypeOK, CheckInv, ServedInv, BoundedRevocation, Admission,
      Capability, Policy, Stamp
<1> QED
  BY <1>1, Invariance, PTL

(* No deployed policy lets an admission exceed the contract's ceiling.     *)
THEOREM CeilingHolds == Spec => []ContractCeiling
<1>1. IInv => ContractCeiling
  BY ConstantsAssumption
  DEF IInv, TypeOK, CheckInv, ServedInv, ContractCeiling, Admission,
      Capability, Policy, Stamp
<1> QED
  BY <1>1, Invariance, PTL

(* A retired key serves no longer than the snapshot age allows.            *)
THEOREM RetiredKeyIsBounded == Spec => []BoundedRetiredKey
<1>1. IInv => BoundedRetiredKey
  BY DEF IInv, ServedInv, BoundedRetiredKey
<1> QED
  BY <1>1, Invariance, PTL

(* A superseded epoch serves no longer than the capability age allows.     *)
THEOREM StaleEpochIsBounded == Spec => []BoundedStaleEpoch
<1>1. IInv => BoundedStaleEpoch
  BY ConstantsAssumption
  DEF IInv, TypeOK, EpochInv, ServedInv, BoundedStaleEpoch, Admission,
      Capability, Policy, Stamp
<1> QED
  BY <1>1, Invariance, PTL

(* What an edge admits while it cannot ask the origin is out of date by at *)
(* most the two windows its policy names, for the keys it trusts and for   *)
(* the policy epochs it knows (edge_fallback.rs, admit_outage and          *)
(* validate).                                                              *)
THEOREM StalenessIsBounded == Spec => []BoundedStaleness
<1>1. BoundedRetiredKey /\ BoundedStaleEpoch => BoundedStaleness
  BY DEF BoundedStaleness
<1> QED
  BY <1>1, RetiredKeyIsBounded, StaleEpochIsBounded, PTL

(* An edge cut off for longer than the snapshot age serves nobody.         *)
THEOREM DarkEdgeIsQuiet == Spec => []DarkEdgeGoesQuiet
<1>1. IInv => DarkEdgeGoesQuiet
  BY ConstantsAssumption
  DEF IInv, TypeOK, KeyInv, DarkEdgeGoesQuiet, MayServe, AdmitOutage, Fresh,
      WithinAge, Policy, Stamp
<1> QED
  BY <1>1, Invariance, PTL

(* A step of EdgeFallback is a step of the abstract service or leaves it   *)
(* unchanged: only Tick, Revoke and Serve move it.                         *)
LEMMA StepImplements ==
    IInv /\ IInv' /\ [Next]_vars => [Contract!Next]_(Contract!vars)
<1> SUFFICES ASSUME IInv, IInv', [Next]_vars
             PROVE  [Contract!Next]_(Contract!vars)
  OBVIOUS
<1> USE DEF authorityVars, issuerVars, edgeVars
<1>1. CASE Tick
  BY <1>1 DEF Tick, Contract!Next, Contract!Tick
<1>2. ASSUME NEW s \in Sessions, Revoke(s) PROVE Contract!Next
  BY <1>2 DEF Revoke, Contract!Next, Contract!Revoke, Contract!Never
<1>3. ASSUME NEW c \in caps, Serve(c) PROVE Contract!Next
  <2> DEFINE s == c.sid
  <2>1. s \in Sessions
    BY <1>3 DEF IInv, TypeOK, Capability
  <2>2. served' = {[cap |-> c, at |-> now, under |-> policy]}
    BY <1>3 DEF Serve
  <2>3. {[sid |-> a.cap.sid, at |-> a.at] : a \in served'}
            = {[sid |-> s, at |-> now]}
    BY <2>2
  <2>4. revokedAt[s] # Never => now <= revokedAt[s] + (MaxTtl + CheckSkew)
    <3>1. ContractCeiling'
      BY ConstantsAssumption
      DEF IInv, TypeOK, CheckInv, ServedInv, ContractCeiling, Admission,
          Capability, Policy, Stamp
    <3>2. revokedAt' = revokedAt
      BY <1>3 DEF Serve
    <3>3. revokedAt[s] # Never => now <= revokedAt[s] + MaxTtl + CheckSkew
      BY <2>2, <3>1, <3>2 DEF ContractCeiling
    <3> QED
      BY <2>1, <3>3, ConstantsAssumption DEF IInv, TypeOK, Stamp
  <2>5. Contract!Serve(s)
    BY <1>3, <2>3, <2>4 DEF Serve, Contract!Serve, Contract!Never
  <2> QED
    BY <2>1, <2>5 DEF Contract!Next
<1>4. CASE UNCHANGED <<now, revokedAt, served>>
  BY <1>4 DEF Contract!vars
<1> QED
  BY <1>1, <1>2, <1>3, <1>4
  DEF Next, vars, SupersedeEpoch, CheckSession, Mint, RotateKey, LoseOrigin,
      RegainOrigin, NoticeOutage, NoticeRecovery, RefreshJwks, DeployPolicy

(* The outage protocol implements the contract's promise on revocation.    *)
THEOREM Refinement == Spec => ImplementsRevocableAccess
<1>1. Init => Contract!Init
  BY DEF Init, Contract!Init, Contract!Never
<1>2. IInv /\ IInv' /\ [Next]_vars => [Contract!Next]_(Contract!vars)
  BY StepImplements
<1> QED
  BY <1>1, <1>2, Invariance, PTL
  DEF Spec, Contract!Spec, ImplementsRevocableAccess
=============================================================================
