\* An event call is overtaken by close() between its check and its put.
SPECIFICATION Spec
CONSTANTS
    Records <- SomeRecords
    Stream <- SomeStreams
    QueueLen = 2
    Sentinel = "sentinel"
    MaxFaults = 0
INVARIANT EventsKept
CHECK_DEADLOCK FALSE
