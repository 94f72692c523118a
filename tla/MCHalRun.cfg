SPECIFICATION RunSpec
CONSTANTS
    Hosts = {h1, long}
    LongHosts = {long}
    Bounds <- CallsAndRestarts
    Data = {ephemeris, almanac}
    Fixes <- AllFixes
    EngLimits <- AllLimits
    a1 = a1
    a2 = a2
    a3 = a3
    Adapters <- RunAdapters
    Events = {e1, e2}
    mExcludedMask = {e2}
    MAX_ADAPTERS = 2
    Limits <- AdapterLimits
    NULL = NULL
    MaxSvs = 5
    MaxReports = 2
SYMMETRY Symmetry
INVARIANTS
    SessionIsWished
    ModemIsRestored
    MuteEndsWhenIdle
    DeletionsDone
    SettingsReachModem
    MasksMeet
    ReportsReachAll
    SentencesAgree
PROPERTIES
    CapabilitiesAnswered
CHECK_DEADLOCK FALSE
