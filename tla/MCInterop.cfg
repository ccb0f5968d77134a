CONSTANTS
    Absent = Absent
    Refused = Refused
    Malformed = Malformed
    MaxRealized = 3
    MaxGathered = 3
    MaxComponent = 2
    MaxReleases = 2
    Candidates <- SomeCandidates
    Declarations <- SomeDeclarations
    Revisions <- SomeRevisions
    Package <- SomePackage
    Families <- SomeFamilies
    Records <- SomeOciRecords
    Hosts = {"host"}
    Ports = {"5000"}
    Components = {"acme", "tool"}
    Tags = {"v1"}
    Digests <- SomeDigests
    Layout <- SomeLayout
    Plans <- SomePlans
    NixOrder <- SomeNixWords
    NixSystems <- SomeNixSystems
    NixNames <- SomeNixNames
    StorePaths = {"s1", "s2", "s3", "s4"}
    SlugPieces = {"acme", "tool", "1"}
    Drafts <- SomeNixDrafts
    Results <- SomeResults
SPECIFICATION MCSpec
INVARIANTS
    ResolvesAsNpm
    RestoresWhatIsDeclared
    InstalledFitsPlatform
    RecordsLeadToOneLayer
    TranslationsHold
    SameMeaningSameBytes
PROPERTIES
    EveryProviderIsAnswered
CHECK_DEADLOCK FALSE
