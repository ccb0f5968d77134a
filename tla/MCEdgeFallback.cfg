CONSTANTS
    Sessions = {s1}
    Keys = {k1, k2}
    MaxTtl = 2
    CheckSkew = 1
    MintSkew = 0
    Claims <- AllClaims
    Policies <- AllPolicies
    Start = 1
    Horizon = 5
    MaxEpoch = 1
    MaxCaps = 1
SPECIFICATION MCSpec
INVARIANTS
    TypeOK
    BoundedStaleness
    DarkEdgeGoesQuiet
PROPERTIES
    ImplementsRevocableAccess
CHECK_DEADLOCK FALSE
