SPECIFICATION MCSpec
CONSTANTS
    h1 = h1
    h2 = h2
    Scenes = {"spellings", "provenance", "installs", "locks"}
    Hosts = {h1, h2}
    Resolvers = {h1, h2}
    TargetOf <- MCTargetOf
    TaskNames <- MCTaskNames
    Home = Home
    Floating <- MCFloating
    NoRevision = NoRevision
    OutsidePaths <- MCOutside
    Nothing = Nothing
    Plans <- AllPlans
    MaxResolved = 2
    Cases = {TRUE, FALSE}
    Resolutions <- CheckedResolutions
INVARIANTS
    DigestIsOfMeaning
    StoredPlanIsReadable
    LockFilesHold
PROPERTIES
    ImplementsFrozenEnvironment
