SPECIFICATION FairSpec
CONSTANTS
    c1 = c1
    c2 = c2
    NULL = NULL
    Clients <- MCClients
    Settings <- MCSettings
    MaxRetries = 1
PROPERTIES
    AnswersInform
CHECK_DEADLOCK FALSE
