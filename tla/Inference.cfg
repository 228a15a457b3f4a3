\* Four messages, two at a time, one permit, an offline queue of two, one exception.
SPECIFICATION FairSpec
CONSTANTS
    m1 = m1
    m2 = m2
    m3 = m3
    m4 = m4
    NoTask = NoTask
    Msgs <- FourMsgs
    MaxConcurrent = 1
    MinInterval = 1
    MaxRetries = 1
    OfflineMax = 2
    MaxPending = 2
    MaxFaults = 1
INVARIANT TypeOK
INVARIANT Accounted
INVARIANT ReplayInOrder
PROPERTY GateSpaced
PROPERTY Finishes
CHECK_DEADLOCK FALSE
