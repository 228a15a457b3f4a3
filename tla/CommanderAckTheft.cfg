\* Two commands share the ACK queue.
CONSTANTS
    w1 = w1
    w2 = w2
    t1 = t1
    t2 = t2
    Workers <- TwoWorkers
    Tokens <- TwoTokens
    NoToken = NoToken
    Names = {"rtl", "set_mode"}
    Allowed = {"rtl", "set_mode"}
    AllowForceDisarm = TRUE
    MaxAttempts = 1
    AckTimeout = 1
    ArmMaxAge = 0
    Results = {0, 5}
    MaxNoise = 0
SPECIFICATION Spec
SYMMETRY WorkerSymmetry
CHECK_DEADLOCK FALSE
PROPERTY AwaitedAckKept
