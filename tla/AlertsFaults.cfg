SPECIFICATION Spec
CONSTANTS
    Rules = {r1}
    Channels = {ch}
    Entities = {x, y}
    Events = {v1, v2, v3}
    Cycles = {c1, c2}
    ChannelOf <- MCChannelOf
    RateLimit <- MCRateLimit
    Cooldown <- MCCooldown
    Limit = 1
    Minutes = 0
    Hour = 1
    MaxTime = 2
    NoRule = NoRule
    NoEntity = NoEntity
    NoEvent = NoEvent
    Faults = {"send", "timeout", "db", "answer", "crash"}
SYMMETRY Interchangeable
CHECK_DEADLOCK FALSE
INVARIANTS
    TypeOK
    RateBound
