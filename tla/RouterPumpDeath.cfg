\* A chat circulates between two gateways that share a mesh and a TAK server.
SPECIFICATION Spec
CONSTANTS
    Nodes <- TwinNodes
    Buses <- TwinBuses
    Transports <- TwinTransports
    Codec <- TwinCodec
    Msgs <- OneMsg
    Origin <- OneFromA
    Kind <- OneChat
    Second <- OneSecond
    CacheSize = 9
    QueueMax = 4
    MaxFaults = 0
    MaxNoise = 0
    MaxStops = 2
    MaxId = 5
INVARIANT PumpsSurvive
CHECK_DEADLOCK FALSE
