SPECIFICATION AllSpec
CONSTANTS
    Messages = {m1, m2, m3}
    Receivers = {r1, r2, r3}
    TaskMessages = {m1, m2, m3}
    NULL = NULL
    Daemons = {"QUIPC", "GPSONE"}
    MaxWritten = 2
    Capacity = 1
    Clients = {c1, c2}
    MaxRestarts = 2
INVARIANTS
    OneOwner
    NoLostWakeup
    ThreadSafe
    MessagesSafe
    DaemonsServed
    ContextsShared
PROPERTIES
    ImplementsChannel
    Progress
    StopReturns
    DestroyReturns
    EveryMessageHandled
    ServerProgress
CHECK_DEADLOCK FALSE
