\* Transports through two sessions with faults; a scouted anomaly seen three times, with a
\* restart; three keys for a picture of two; two chats of two rounds; two runs of the start
\* script with a death and a reboot; a session of three records; every phase of
\* channels of three bits over bytes of two.
SPECIFICATION GroundSpec
CONSTANTS
    Sends = {s1, s2}
    Callers = {p1, p2}
    Interval = 3
    Burst = 2
    MaxStarts = 2
    MaxFaults = 2
    MaxRebuilds = 4
    MaxEchoes = 2
    MaxBadConfigs = 1
    MaxFixes = 2
    InboxLen = 1
    MaxErrors = 1
    MaxRestarts = 1
    Truths = {0}
    Noises = {1, 2}
    Radius = 2
    Confs = {1, 2}
    Decisions = {"tagged"}
    MaxDetections = 3
    MaxDrops = 1
    MaxTriages = 1
    MaxRestartsOfScout = 1
    Keys = {1, 2, 3}
    Cap <- SomeCap
    StaleAfter <- SomeStaleAfter
    RingSize = 1
    MaxClock = 2
    MaxMessages = 4
    MaxEvents = 2
    Chats = {c1, c2}
    MaxIterations = 2
    MaxUses = 2
    Order <- SomeOrder
    Unwaited = {"sim"}
    Optional = {"webmap"}
    Consumers = {"gateway", "mavlink2rest"}
    Proxy = "mavp2p"
    MaxCommands = 2
    MaxDeaths = 1
    MaxReboots = 1
    MaxRecords = 3
    Schemas = {1, 2, 3}
    Window = {1, 2}
    MaxSignals = 2
    MaxRaises = 2
    Metre = 2
    MaxSpan = 7
    MaxCross = 6
    MaxTime = 3
    MaxElev = 1
    Heights = {0, 20}
    Rises <- SomeRises
    MaxIters = 3
    MaxFrames = 3
    MaxRows = 2
    MaxBytes = 6
    MaxHops = 2
    ChannelBits = 3
    ByteBits = 2
    MaxCount = 3
    MaxTick = 8
INVARIANT TypesOK
INVARIANT NothingLeaks
INVARIANT SourcesInOrder
INVARIANT CallerPaced
INVARIANT PinsKept
INVARIANT PictureCurrent
INVARIANT TurnsMatch
PROPERTY RecordsKept
INVARIANT AnswersSound
PROPERTY NoStraySends
PROPERTY StackInOrder
PROPERTY NothingStuck
CHECK_DEADLOCK FALSE
