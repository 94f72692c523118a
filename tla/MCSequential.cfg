SPECIFICATION AllSpec
CONSTANTS
    Elements = {e1, e2, e3}
    Datas = {data1, data2, data3}
    NULL = NULL
    Stale = Stale
    Ranked = {h1, h2, h3, h4, h5}
    Ranks = {1, 2}
    MaxOpens = 2
    Random = {r1, r2}
    Factory = m
    MaxBoots = 3
    GpsFiles <- AllGpsFiles
    SapFiles <- AllSapFiles
    UpdateTexts <- AllTexts
    MaxUpdates = 2
    Timers = {t1, t2}
    d1 = d1
    d2 = d2
    d3 = d3
    Delegates <- TimerDelegates
    Delays = {1}
    MaxTime = 2
    Nil = Nil
INVARIANTS
    DelegatesSafe
    SoonestIsArmed
    StopCancels
    ListSafe
    HeapSafe
    VendorAgrees
    AddressSafe
    ConfigFollowsTexts
PROPERTIES
    EveryTimerFires
    SearchFindsNewest
    HeapImplementsQueue
CHECK_DEADLOCK FALSE
