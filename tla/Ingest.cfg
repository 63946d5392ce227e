SPECIFICATION FairSpec
CONSTANTS
    Iterators = {s1}
    MaxRequests = 2
    Batches = {"empty", "some", "over"}
    MaxUpsets = 1
    MaxJobs = 2
CHECK_DEADLOCK FALSE
INVARIANTS
    TypeOK
    SeenIsCurrent
    OnlyLateOverwrites
    OrphansExplained
    MixOnlyFromOverlap
PROPERTIES
    ImplementsStream
    EventuallyHanded
    NobodyLeftWaiting
