SPECIFICATION Spec
CONSTANTS
    Exports = {e1}
    Sessions = {s1}
    SessionOf <- MCSessionOf
    Workers = {w1}
    Concurrency = 1
    MaxActive = 1
    MinDelta = 5
    RawPercents = {40}
    MaxStalls = 0
    MaxPosts = 1
    MaxCrashes = 0
    Faults = {"render"}
INVARIANT
    NoStuckRow
