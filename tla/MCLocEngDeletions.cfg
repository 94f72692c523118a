SPECIFICATION EngSpec
CONSTANTS
    Data = {ephemeris, almanac}
    Fixes <- AllFixes
    EngLimits <- CallsOnly
INVARIANT EveryDeletionDone
CHECK_DEADLOCK FALSE
