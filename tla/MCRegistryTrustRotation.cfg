SPECIFICATION MCSpec
CONSTANTS
    RootIds <- OneRoot
    KeyIds <- MCKeyIds
    Registries <- MCRegistries
    NoDigest = NoDigest
    Refused = Refused
    Scenes = {"rotation"}
    Home = Home
    Absent = Absent
    Malformed = Malformed
    MaxU64 = 3
    MaxSnapshots = 2
    Packages = {1, 2}
    Requests <- SomeRequests
    Assemblies <- SomeAssemblies
    Contents <- SomeContents
    Elsewhere = Elsewhere
    Readers = {r1}
    IndexRoots = {i1}
    Threshold = 1
    Drafts <- RotationDrafts
    Expiries <- Late
    MaxTime = 3
    MaxVersion = 2
    MaxSequence = 1
    MaxApprovals = 2
    MaxStrays = 1
INVARIANTS
    LaggingSignerWindow
PROPERTIES
    RetiredKeysAreDead
CHECK_DEADLOCK FALSE
