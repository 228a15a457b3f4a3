\* Two nodes bridge the same two id-preserving buses.
SPECIFICATION Spec
CONSTANTS
    Nodes <- TwinNodes
    Buses <- TwinBuses
    Transports <- TwinTransports
    Codec <- JsonTwinCodec
    Msgs <- TwoMsgs
    Origin <- FromAB
    Kind <- Positions
    Second <- SameSecond
    CacheSize = 2
    QueueMax = 2
    MaxFaults = 1
    MaxNoise = 1
    MaxStops = 2
    MaxId = 3
INVARIANT TypeOK
INVARIANT DeliveredOnce
INVARIANT SentOnce
PROPERTY DropIsDuplicate
PROPERTY Flooding
CHECK_DEADLOCK FALSE
