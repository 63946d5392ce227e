SPECIFICATION FairSpec
CONSTANTS
    Exports = {e1, e2, e3}
    Sessions = {s1}
    SessionOf <- MCSessionOf
    Workers = {w1}
    Concurrency = 1
    MaxActive = 1
    MinDelta = 5
    RawPercents = {40}
    MaxStalls = 1
    MaxPosts = 2
    MaxCrashes = 1
    Faults = {"storage", "crash"}
INVARIANTS
    CompletedIsClean
    NoStuckRow
    AdmissionBound
PROPERTIES
    ImplementsPromise
    EventuallyOver
    ListenersCatchUp
