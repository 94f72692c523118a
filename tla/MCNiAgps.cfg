SPECIFICATION PartSpec
CONSTANTS
    p1 = p1
    p2 = p2
    Requests <- NiRequests
    MaxRestarts = 1
    NoRequest = NoRequest
    c1 = c1
    c2 = c2
    NULL = NULL
    Clients <- MCClients
    Settings <- MCSettings
    MaxRetries = 1
INVARIANTS
    AnsweredOnce
    EmergencyIsLater
    SubscribersMatchState
    ViewsAgree
    DataCallOwned
PROPERTIES
    SessionsEnd
    RequestsFreed
    RequestsAnswered
CHECK_DEADLOCK FALSE
