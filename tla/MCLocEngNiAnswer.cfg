SPECIFICATION NiSpec
CONSTANTS
    Requests = {p1, p2}
    MaxRestarts = 1
    NoRequest = NoRequest
INVARIANTS
    AnswerIsForRequest
CHECK_DEADLOCK FALSE
