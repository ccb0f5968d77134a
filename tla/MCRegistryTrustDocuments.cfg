SPECIFICATION MCSpec
CONSTANTS
    RootIds <- ThreeRoots
    KeyIds <- MCKeyIds
    Registries <- MCRegistries
    NoDigest = NoDigest
    Refused = Refused
    Scenes = {"ceremony", "chain", "snapshots"}
    Home = Home
    Absent = Absent
    Malformed = Malformed
    MaxU64 = 3
    MaxSnapshots = 2
    Packages = {1, 2}
    Requests <- SomeRequests
    Assemblies <- SomeAssemblies
    Contents <- SomeContents
    Elsewhere = Elsewhere
    Readers = {r1}
    IndexRoots = {i1, i2}
    Threshold = 2
    Drafts <- CeremonyOrChain
    Expiries <- One
    MaxTime = 1
    MaxVersion = 2
    MaxSequence = 2
    MaxApprovals = 4
    MaxStrays = 0
INVARIANTS
    ThresholdHolds
    CeremonySuffices
    ChainCanBeFollowed
    PublishedAsHeld
PROPERTIES
    ImplementsRegistryHistory
    ReadersFinish
CHECK_DEADLOCK FALSE
