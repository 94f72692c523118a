SPECIFICATION NiSpec
CONSTANTS
    Requests = {p1, p2}
    MaxRestarts = 1
    NoRequest = NoRequest
INVARIANTS
    PayloadIsLive
CHECK_DEADLOCK FALSE
