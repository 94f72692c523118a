SPECIFICATION TimerSpec
CONSTANTS
    Timers = {t1, t2}
    Delegates = {d1, d2}
    Delays = {1, 2}
    MaxTime = 3
    Nil = Nil
INVARIANTS
    NoDeadClient
CHECK_DEADLOCK FALSE
