SPECIFICATION MCSpec
CONSTANTS
    h1 = h1
    h2 = h2
    Scenes = {"directory"}
    Hosts = {h1, h2}
    Resolvers = {}
    TargetOf <- MCTargetOf
    TaskNames <- MCTaskNames
    Home = Home
    Floating <- MCFloating
    NoRevision = NoRevision
    OutsidePaths <- MCOutside
    Nothing = Nothing
    Plans <- DotSlashDirectory
    MaxResolved = 4
    Cases = {FALSE}
    Resolutions = {}
INVARIANT
    StoredPlanIsReadable
