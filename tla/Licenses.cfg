SPECIFICATION FairSpec
CONSTANTS
    A = A
    B = B
    Scopes = {A, B}
    NoId = NoId
    Ids = {l1, l2}
    Requests = {q1}
    Passes = {p1, p2}
    Forms <- TwoScopes
    Asked = {"active", "revoked"}
    MaxDay = 2
INVARIANTS
    TypeOK
    OverlapBound
PROPERTIES
    EventuallyExpired
