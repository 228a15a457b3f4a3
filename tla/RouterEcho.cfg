\* A detection circulates between two gateways that share a mesh and a TAK server, one of
\* which bridges to a wired node.
SPECIFICATION FairSpec
CONSTANTS
    Nodes <- EdgeNodes
    Buses <- EdgeBuses
    Transports <- EdgeTransports
    Codec <- EdgeCodec
    Msgs <- OneMsg
    Origin <- OneFromA
    Kind <- OneMarker
    Second <- OneSecond
    CacheSize = 8
    QueueMax = 4
    MaxFaults = 0
    MaxNoise = 0
    MaxStops = 0
    MaxId = 5
INVARIANT EchoBounded
PROPERTY Settles
CHECK_DEADLOCK FALSE
