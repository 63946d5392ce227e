SPECIFICATION FairSpec
CONSTANTS
    Members = {m1, m2}
    Watchers = {m2}
    MaxTtl = 2
    Ttl = 2
    HeartbeatMs = 1
    PostTtls = {1}
    MaxSockets = 2
    MaxUpsets = 1
INVARIANTS
    TypeOK
    NoGhost
    KeptAlive
    ViewInStep
PROPERTIES
    ListedAgain
    GhostsExpire
