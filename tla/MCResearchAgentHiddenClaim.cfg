CONSTANTS
    Calls = {c1, c2}
    Requests = {r1, r2}
    NoRow = NoRow
    NoEvent = NoEvent
    NoRequest = NoRequest
    MaxUsers = 2
    MaxStray = 0
SPECIFICATION Spec
INVARIANT ClaimIsWrittenFirst
CHECK_DEADLOCK FALSE
