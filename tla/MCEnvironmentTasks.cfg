CONSTANTS
    Names <- MCNames
    Patterns <- MCPatterns
    NoTask = NoTask
    TaskPlans <- MCPlans
SPECIFICATION FairSpec
PROPERTIES
    Terminates
    ImplementsTaskVerdict
CHECK_DEADLOCK FALSE
