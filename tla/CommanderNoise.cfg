\* One command against losses, retries and the ACKs of other systems on the bus.
CONSTANTS
    w1 = w1
    w2 = w2
    t1 = t1
    t2 = t2
    Workers <- OneWorker
    Tokens <- OneToken
    NoToken = NoToken
    Names = {"rtl"}
    Allowed = {"rtl"}
    AllowForceDisarm = TRUE
    MaxAttempts = 2
    AckTimeout = 1
    ArmMaxAge = 0
    Results = {0, 2}
    MaxNoise = 1
SPECIFICATION FairSpec
INVARIANT AcceptedIsGenuine
PROPERTY RequestsTerminate
PROPERTY AwaitedAckKept
CHECK_DEADLOCK FALSE
