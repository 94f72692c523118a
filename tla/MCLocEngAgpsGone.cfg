SPECIFICATION Spec
CONSTANTS
    c1 = c1
    c2 = c2
    NULL = NULL
    Clients <- MCClients
    Settings <- MCSettings
    MaxRetries = 1
INVARIANTS
    UnsubscribedIsOff
CHECK_DEADLOCK FALSE
