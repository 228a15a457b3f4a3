\* Guard: as in flight, two ticks to stale and a hysteresis of two.  Logger: three calls race
\* with the writer and close() over a queue of two.  Landing: two targets beyond tolerance.
\* Link: frames of two cells, one damaged.
SPECIFICATION OnboardSpec
CONSTANTS
    Stale = 1
    Critical = 2
    Hysteresis = 2
    MaxReportAge = 1
    MaxFaults = 1
    Records <- SomeRecords
    Stream <- SomeStreams
    QueueLen = 2
    Sentinel = "sentinel"
    MaxDiskErrors = 1
    Tolerance = 1
    MaxEmpties = 2
    MaxAge = 1
    MaxGap = 0
    MaxTargets = 3
    MaxTracks = 2
    MaxBeats = 1
    FrameLen = 2
    MaxFrameLen = 4
    ReadChunk = 3
    DedupeLen = 1
    MaxSent = 2
    MaxRc = 2
    MaxDamage = 1
    MaxReopens = 1
INVARIANT TypesOK
INVARIANT SessionAccounted
INVARIANT FailsLoudly
INVARIANT TelemetryKept
PROPERTY ArmsOnlyGranted
PROPERTY NeverDisarms
PROPERTY FailsClosed
PROPERTY Ends
CHECK_DEADLOCK FALSE
