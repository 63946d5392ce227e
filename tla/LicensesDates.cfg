SPECIFICATION Spec
CONSTANTS
    A = A
    B = B
    Scopes = {A, B}
    NoId = NoId
    Ids = {l1}
    Requests = {q1}
    Passes = {p1}
    Forms <- Touching
    Asked = {"active", "revoked"}
    MaxDay = 2
INVARIANTS
    EndsAfterItBegins
