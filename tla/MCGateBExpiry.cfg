SPECIFICATION Spec
CONSTANTS
    p1 = p1
    p2 = p2
    a1 = a1
    a2 = a2
    Pilots = {p1, p2}
    Approvals = {a1, a2}
    RequestLimit = 4
    ByteLimit = 3
    ReservedBytes = 2
    MaxBody = 1
    ApprovalExpiresAt = 1
    GrantExpiresAt = 1
    MaxTime = 1
INVARIANT
    NoRetryCrossesExpiry
