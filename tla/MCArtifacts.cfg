CONSTANTS
    Absent = Absent
    Malformed = Malformed
    Refused = Refused
    NoVersion = NoVersion
    TargetOrder <- SomeTargets
    Uploads <- AllUploads
    Publishers = {p1, p2}
    Installers = {c1}
    MaxSize = 3
    MaxLosses = 1
    Unreliable = {"registry", "r2", "mirror"}
    MaxCopies = 1
    MaxPublished = 2
    Releases <- SomeReleases
    Mirrors <- SomeMirrors
    Spellings <- SomeSpellings
    Requirements <- SomeRequirements
SPECIFICATION MCSpec
INVARIANTS
    OutcomesHold
    CommandsFindTheirFiles
    SearchIsThorough
    ListsResolveAlike
PROPERTIES
    EveryoneIsServedThere
CHECK_DEADLOCK FALSE
