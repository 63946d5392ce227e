SPECIFICATION Spec
CONSTANTS
    Rules = {r1, r2}
    Channels = {ch}
    Entities = {x}
    Events = {v1, v2, v3}
    Cycles = {c1, c2}
    ChannelOf <- MCChannelOf
    RateLimit <- MCRateLimit
    Cooldown <- MCCooldown
    Limit = 1
    Minutes = 1
    Hour = 1
    MaxTime = 2
    NoRule = NoRule
    NoEntity = NoEntity
    NoEvent = NoEvent
    Faults = {}
SYMMETRY Interchangeable
CHECK_DEADLOCK FALSE
INVARIANTS
    RateLimitEnforced
