---------------------------- MODULE EdgeFallback ----------------------------
(***************************************************************************)
(* Outage admission with edge-fallback capabilities, version 3             *)
(* (src/rust/edge_fallback.rs).  `Validate` and `AdmitOutage` are the      *)
(* crate's two functions.  Everything that feeds them lives outside the    *)
(* crate: the session authority that revokes sessions and supersedes       *)
(* epochs, the issuer that checks a session and later mints, the key       *)
(* publication, and the edge, which keeps the verifier-local facts that    *)
(* admit_outage takes as arguments.                                        *)
(*                                                                         *)
(* Times are seconds of the edge's clock.  The stamps the issuer signs     *)
(* come from two other clocks, off by the constants CheckSkew (the session *)
(* check) and MintSkew (the mint).                                         *)
(***************************************************************************)
EXTENDS Integers, FiniteSets

CONSTANTS
    Sessions,       \* the values of `sid`
    Keys,           \* signing keys, by `kid`
    MaxTtl,         \* EDGE_FALLBACK_MAX_TTL_SECONDS_V3, 300 in the code
    CheckSkew,      \* clock that stamps revocation_checked_at minus edge clock
    MintSkew,       \* clock that stamps iat minus edge clock
    Claims,         \* the remaining claims an issuer may sign: see Claim
    Policies,       \* outage policies the operator may deploy
    Start,          \* the first instant
    Horizon,        \* bound: the last instant
    MaxEpoch,       \* bound: the last epoch of either kind
    MaxCaps         \* bound: capabilities minted

Never == -1
Stamp == Nat \cup {Never}
EpochKind == {"session", "policy"}
Epoch == 0..MaxEpoch

(* struct EdgeFallbackOutagePolicyV3; minimumEpoch holds both minima. *)
Policy == [minimumAssurance : Nat, minimumEpoch : [EpochKind -> Nat],
           maxCapabilityAge : Nat, maxRevocationAge : Nat,
           maxJwksAge : Nat, maxOutage : Nat]

(* struct EdgeFallbackCapabilityV3.  wellFormed abstracts the bounded      *)
(* texts, identifiers and grants; kid is the JOSE header's.                *)
Capability == [sid : Sessions, kid : Keys, wellFormed : BOOLEAN,
               assurance : Nat, epoch : [EpochKind -> Epoch],
               revocationCheckedAt : Nat, iat : Nat, nbf : Int, exp : Int]

(* What a mint chooses freely, a defective issuer's choices included; delay *)
(* and ttl are nbf and exp relative to iat.                                *)
Claim == [wellFormed : BOOLEAN, assurance : Nat, delay : Int, ttl : Int]

ASSUME ConstantsAssumption ==
    /\ MaxTtl \in Nat /\ CheckSkew \in Int /\ MintSkew \in Int
    /\ Start \in Nat /\ Start + CheckSkew >= 0 /\ Start + MintSkew >= 0
    /\ Horizon \in Nat /\ MaxEpoch \in Nat /\ MaxCaps \in Nat
    /\ Claims \subseteq Claim
    /\ Policies \subseteq Policy /\ Policies # {}
    /\ Keys # {}

VARIABLES
    now,              \* the edge's clock
    \* the session authority
    revokedAt,        \* when each session was revoked
    epoch,            \* the current epoch of each kind
    supersededAt,     \* when each epoch of each kind was superseded
    \* the issuer
    lastCheck,        \* revocation_checked_at of each session's latest check
    activeKey,        \* the key that signs, the only one published
    retiredAt,        \* when each key stopped being published
    caps,             \* capabilities minted: clients may present any of them
    \* the edge
    downSince,        \* when the origin became unreachable, Never if it is up
    outageStartedAt,  \* when the edge noticed, Never outside outage mode
    jwks,             \* the local trusted key snapshot
    jwksRefreshedAt,  \* when it was taken
    policy,           \* the deployed policy
    served            \* the latest admission, {} before the first

authorityVars == <<revokedAt, epoch, supersededAt>>
issuerVars == <<lastCheck, activeKey, retiredAt, caps>>
edgeVars ==
    <<downSince, outageStartedAt, jwks, jwksRefreshedAt, policy, served>>
vars == <<now, revokedAt, epoch, supersededAt, lastCheck, activeKey, retiredAt,
          caps, downSince, outageStartedAt, jwks, jwksRefreshedAt, policy,
          served>>

Admission == [cap : Capability, at : Nat, under : Policies]

TypeOK ==
    /\ now \in Nat /\ now >= Start
    /\ revokedAt \in [Sessions -> Stamp]
    /\ epoch \in [EpochKind -> Epoch]
    /\ supersededAt \in [EpochKind -> [Epoch -> Stamp]]
    /\ lastCheck \in [Sessions -> Stamp]
    /\ activeKey \in Keys
    /\ retiredAt \in [Keys -> Stamp]
    /\ caps \subseteq Capability
    /\ downSince \in Stamp
    /\ outageStartedAt \in Stamp
    /\ jwks \subseteq Keys
    /\ jwksRefreshedAt \in Nat
    /\ policy \in Policies
    /\ served \subseteq Admission

-----------------------------------------------------------------------------
(* The crate's decisions. *)

(* EdgeFallbackCapabilityV3::validate *)
Validate(c) ==
    /\ c.wellFormed
    /\ c.assurance \in {1, 2}
    /\ c.revocationCheckedAt <= c.iat
    /\ c.exp > c.iat /\ c.nbf >= c.iat /\ c.nbf <= c.exp
    /\ c.exp - c.iat <= MaxTtl

(* The contract's limits on a policy: the first check of admit_outage. *)
PolicyWithinContract(p) ==
    /\ p.minimumAssurance \in {1, 2}
    /\ p.maxCapabilityAge <= MaxTtl
    /\ p.maxRevocationAge <= MaxTtl
    /\ p.maxOutage <= MaxTtl
    /\ p.maxJwksAge <= MaxTtl

(* Mutant: one second too many. *)
WithinAgeOffByOne(stamp, max) == stamp <= now /\ now - stamp <= max + 1

(* checked_sub rejects a stamp of the future; an age has an upper bound. *)
WithinAge(stamp, max) == stamp <= now /\ now - stamp <= max

(* Mutants: one of the ages is not looked at. *)

FreshNoCapability(c, startedAt, refreshedAt, p) ==
    /\ WithinAge(c.revocationCheckedAt, p.maxRevocationAge)
    /\ WithinAge(refreshedAt, p.maxJwksAge)
    /\ WithinAge(startedAt, p.maxOutage)
FreshNoJwks(c, startedAt, refreshedAt, p) ==
    /\ WithinAge(c.iat, p.maxCapabilityAge)
    /\ WithinAge(c.revocationCheckedAt, p.maxRevocationAge)
    /\ WithinAge(startedAt, p.maxOutage)

(* The four ages of admit_outage. *)
Fresh(c, startedAt, refreshedAt, p) ==
    /\ WithinAge(c.iat, p.maxCapabilityAge)
    /\ WithinAge(c.revocationCheckedAt, p.maxRevocationAge)
    /\ WithinAge(refreshedAt, p.maxJwksAge)
    /\ WithinAge(startedAt, p.maxOutage)

(* EdgeFallbackCapabilityV3::admit_outage *)
AdmitOutage(c, startedAt, refreshedAt, p) ==
    /\ Validate(c)
    /\ PolicyWithinContract(p)
    /\ c.assurance >= p.minimumAssurance
    /\ \A kind \in EpochKind : c.epoch[kind] >= p.minimumEpoch[kind]
    /\ c.nbf <= now /\ now < c.exp
    /\ Fresh(c, startedAt, refreshedAt, p)

(* What the edge asks before serving: outage mode, a known kid, admission. *)
MayServe(c) ==
    /\ outageStartedAt # Never
    /\ c.kid \in jwks
    /\ AdmitOutage(c, outageStartedAt, jwksRefreshedAt, policy)

-----------------------------------------------------------------------------
Init ==
    /\ now = Start
    /\ revokedAt = [s \in Sessions |-> Never]
    /\ epoch = [kind \in EpochKind |-> 0]
    /\ supersededAt = [kind \in EpochKind |-> [e \in Epoch |-> Never]]
    /\ lastCheck = [s \in Sessions |-> Never]
    /\ activeKey \in Keys
    /\ retiredAt = [k \in Keys |-> Never]
    /\ caps = {}
    /\ downSince = Never
    /\ outageStartedAt = Never
    /\ jwks = {activeKey}
    /\ jwksRefreshedAt = Start
    /\ policy \in Policies
    /\ served = {}

Tick ==
    /\ now < Horizon
    /\ now' = now + 1
    /\ UNCHANGED <<authorityVars, issuerVars, edgeVars>>

(* The session authority. *)
Revoke(s) ==
    /\ revokedAt[s] = Never
    /\ revokedAt' = [revokedAt EXCEPT ![s] = now]
    /\ UNCHANGED <<now, epoch, supersededAt, issuerVars, edgeVars>>

SupersedeEpoch(kind) ==
    /\ epoch[kind] < MaxEpoch
    /\ epoch' = [epoch EXCEPT ![kind] = @ + 1]
    /\ supersededAt' = [supersededAt EXCEPT ![kind][epoch[kind]] = now]
    /\ UNCHANGED <<now, revokedAt, issuerVars, edgeVars>>

(* Mutant: the check does not see a revocation. *)
CheckSessionStale(s) ==
    /\ lastCheck' = [lastCheck EXCEPT ![s] = now + CheckSkew]
    /\ UNCHANGED <<now, authorityVars, activeKey, retiredAt, caps, edgeVars>>

(* The issuer reads the session's validity now and mints later. *)
CheckSession(s) ==
    /\ revokedAt[s] = Never
    /\ lastCheck' = [lastCheck EXCEPT ![s] = now + CheckSkew]
    /\ UNCHANGED <<now, authorityVars, activeKey, retiredAt, caps, edgeVars>>

Minted(s, claim) ==
    LET iat == now + MintSkew
    IN  [sid |-> s, kid |-> activeKey, wellFormed |-> claim.wellFormed,
         assurance |-> claim.assurance, epoch |-> epoch,
         revocationCheckedAt |-> lastCheck[s], iat |-> iat,
         nbf |-> iat + claim.delay, exp |-> iat + claim.ttl]

(* Mutant: the issuer mints for a session it never checked. *)
MintUnchecked(s, claim) ==
    /\ Cardinality(caps) < MaxCaps
    /\ caps' = caps \cup {Minted(s, claim)}
    /\ UNCHANGED <<now, authorityVars, lastCheck, activeKey, retiredAt,
                   edgeVars>>

Mint(s, claim) ==
    /\ lastCheck[s] # Never
    /\ Cardinality(caps) < MaxCaps
    /\ caps' = caps \cup {Minted(s, claim)}
    /\ UNCHANGED <<now, authorityVars, lastCheck, activeKey, retiredAt,
                   edgeVars>>

RotateKey(k) ==
    /\ k # activeKey /\ retiredAt[k] = Never
    /\ activeKey' = k
    /\ retiredAt' = [retiredAt EXCEPT ![activeKey] = now]
    /\ UNCHANGED <<now, authorityVars, lastCheck, caps, edgeVars>>

(* The edge. *)
LoseOrigin ==
    /\ downSince = Never
    /\ downSince' = now
    /\ UNCHANGED <<now, authorityVars, issuerVars, outageStartedAt, jwks,
                   jwksRefreshedAt, policy, served>>

RegainOrigin ==
    /\ downSince # Never
    /\ downSince' = Never
    /\ UNCHANGED <<now, authorityVars, issuerVars, outageStartedAt, jwks,
                   jwksRefreshedAt, policy, served>>

NoticeOutage ==
    /\ downSince # Never /\ outageStartedAt = Never
    /\ outageStartedAt' = now
    /\ UNCHANGED <<now, authorityVars, issuerVars, downSince, jwks,
                   jwksRefreshedAt, policy, served>>

NoticeRecovery ==
    /\ downSince = Never /\ outageStartedAt # Never
    /\ outageStartedAt' = Never
    /\ UNCHANGED <<now, authorityVars, issuerVars, downSince, jwks,
                   jwksRefreshedAt, policy, served>>

RefreshJwks ==
    /\ downSince = Never
    /\ jwks' = {activeKey}
    /\ jwksRefreshedAt' = now
    /\ UNCHANGED <<now, authorityVars, issuerVars, downSince, outageStartedAt,
                   policy, served>>

DeployPolicy(p) ==
    /\ policy' = p
    /\ UNCHANGED <<now, authorityVars, issuerVars, downSince, outageStartedAt,
                   jwks, jwksRefreshedAt, served>>

Serve(c) ==
    /\ MayServe(c)
    /\ served' = {[cap |-> c, at |-> now, under |-> policy]}
    /\ UNCHANGED <<now, authorityVars, issuerVars, downSince, outageStartedAt,
                   jwks, jwksRefreshedAt, policy>>

Next ==
    \/ Tick
    \/ \E s \in Sessions : Revoke(s) \/ CheckSession(s)
    \/ \E kind \in EpochKind : SupersedeEpoch(kind)
    \/ \E s \in Sessions, claim \in Claims : Mint(s, claim)
    \/ \E k \in Keys : RotateKey(k)
    \/ LoseOrigin \/ RegainOrigin \/ NoticeOutage \/ NoticeRecovery
    \/ RefreshJwks
    \/ \E p \in Policies : DeployPolicy(p)
    \/ \E c \in caps : Serve(c)

Spec == Init /\ [][Next]_vars

-----------------------------------------------------------------------------
(* A session revoked at r is not served later than r plus the revocation   *)
(* age of the policy in force (and the issuer's clock error), however long *)
(* the issuer waited between its check and the mint and however often it   *)
(* reused the check: revocation_age in admit_outage.                       *)
BoundedRevocation ==
    \A a \in served :
        LET r == revokedAt[a.cap.sid]
        IN  r # Never => a.at <= r + a.under.maxRevocationAge + CheckSkew

(* Whatever policies an operator deploys, nobody is served more than the   *)
(* contract's five minutes (plus clock error) after the revocation, nor    *)
(* with a capability older than that: the policy limits of admit_outage.   *)
ContractCeiling ==
    \A a \in served :
        /\ a.at - a.cap.iat <= MaxTtl
        /\ revokedAt[a.cap.sid] # Never =>
               a.at <= revokedAt[a.cap.sid] + MaxTtl + CheckSkew

(* A capability signed by a key retired at r is not served later than r    *)
(* plus the snapshot age of the policy in force, even when the edge cannot *)
(* learn of the rotation: jwks_age in admit_outage.                        *)
BoundedRetiredKey ==
    \A a \in served :
        LET r == retiredAt[a.cap.kid]
        IN  r # Never => a.at <= r + a.under.maxJwksAge

(* A capability that carries an epoch superseded at t is not served later  *)
(* than t plus the capability age of the policy in force (and the issuer's *)
(* clock error), even if no edge ever raises its minimum epochs:           *)
(* capability_age in admit_outage.                                         *)
BoundedStaleEpoch ==
    \A a \in served, kind \in EpochKind :
        LET t == supersededAt[kind][a.cap.epoch[kind]]
        IN  t # Never => a.at <= t + a.under.maxCapabilityAge + MintSkew

(* Rotations are heard late and have their limits all the same, whichever  *)
(* of the two kinds is asked for.                                          *)
BoundedStaleness == BoundedRetiredKey /\ BoundedStaleEpoch

(* An edge cut off from its origin goes quiet: once the outage has lasted  *)
(* longer than the policy's snapshot age, no capability is served, no      *)
(* matter how late the edge noticed or how many were minted meanwhile.     *)
DarkEdgeGoesQuiet ==
    (downSince # Never /\ now - downSince > policy.maxJwksAge)
        => \A c \in caps : ~MayServe(c)

(* EdgeFallback implements the contract's promise on revocation: the       *)
(* abstract service is admit_outage's acceptance, with the contract's      *)
(* lifetime limit (and the issuer's clock error) as the grace period.      *)
Contract == INSTANCE RevocableAccess WITH
    Grace <- MaxTtl + CheckSkew,
    served <- {[sid |-> a.cap.sid, at |-> a.at] : a \in served}

ImplementsRevocableAccess == Contract!Spec
=============================================================================
