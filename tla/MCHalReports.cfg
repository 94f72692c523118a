SPECIFICATION HalSpec
CONSTANTS
    Hosts = {h1, long}
    LongHosts = {long}
    Bounds <- CallsAndRestarts
    Data = {ephemeris}
    Fixes <- AllFixes
    EngLimits <- CallsOnly
    Adapters = {a1, a2, a3}
    Events = {e1, e2}
    mExcludedMask = {e2}
    MAX_ADAPTERS = 2
    Limits <- AdapterLimits
    NULL = NULL
    MaxSvs = 1
    MaxReports = 1
INVARIANT DeliveredToAll
CHECK_DEADLOCK FALSE
