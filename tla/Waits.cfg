SPECIFICATION EverySpec
CONSTANTS
    t1 = t1
    t2 = t2
    w1 = w1
    w2 = w2
    Watch = {t1, t2}
    Worker = {w1, w2}
    Idle = 1
    MaxTime = 3
    Configs <- Cases
INVARIANTS OneClock OwnTimeoutHidden RegistrationEnds
PROPERTIES NoEarlyExpiry WaitsEnd
CHECK_DEADLOCK FALSE
