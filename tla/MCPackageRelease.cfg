SPECIFICATION MCSpec
CONSTANTS
    Absent = Absent
    Malformed = Malformed
    NativePackageManagers = {"apt", "brew"}
    Adapters = {"node", "java", "none"}
    ReservedPaths <- MCReserved
    Drafts <- MCDrafts
    KeyOrder <- MCKeyOrder
    Requests <- MCRequests
    Iterations = {0, 1, 2}
    MaxSaves = 1
    MaxUploads = 2
    Keys <- MCKeys
    Digests <- MCDigests
    CanonicalDigests <- MCCanonical
    Revisions <- MCRevisions
    ImmutableRevisions <- MCImmutable
    ArtifactRevision <- MCArtifactRevision
    Versions <- MCVersions
    NoRevision = NoRevision
    NoFile = NoFile
    Garbage = Garbage
    NoEntry = NoEntry
    Offered <- MCOffered
    Documents <- MCDocuments
    Assembled <- MCAssembled
INVARIANTS
    SlicesStandForTargets
    PlannedReleasesLand
    ChannelsStayApart
    WrittenFileIsCanonical
PROPERTIES
    FailureChangesNothing
    ImplementsPinnedLock
CHECK_DEADLOCK FALSE
