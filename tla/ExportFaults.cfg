SPECIFICATION Spec
CONSTANTS
    Exports = {e1}
    Sessions = {s1}
    SessionOf <- MCSessionOf
    Workers = {w1, w2}
    Concurrency = 1
    MaxActive = 1
    MinDelta = 5
    RawPercents = {0, 9, 40, 120}
    MaxStalls = 1
    MaxPosts = 1
    MaxCrashes = 1
    Faults = {"post", "db", "answer", "render", "storage", "publish", "crash", "stall"}
INVARIANTS
    TypeOK
    CompletedIsStored
    EventAfterCommit
PROPERTY
    CompletedIsFinal
