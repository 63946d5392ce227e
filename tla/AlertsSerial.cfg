SPECIFICATION Spec
CONSTANTS
    Rules = {r1, r2}
    Channels = {ch}
    Entities = {x, y}
    Events = {v1, v2, v3}
    Cycles = {c1}
    ChannelOf <- MCChannelOf
    RateLimit <- MCRateLimit
    Cooldown <- MCCooldown
    Limit = 2
    Minutes = 2
    Hour = 2
    MaxTime = 3
    NoRule = NoRule
    NoEntity = NoEntity
    NoEvent = NoEvent
    Faults = {"send", "crash"}
SYMMETRY Interchangeable
CHECK_DEADLOCK FALSE
INVARIANTS
    ReachedWithinLimit
    DedupeHonoured
    CooldownHonoured
