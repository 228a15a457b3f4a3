\* Two executor threads race for one token.
CONSTANTS
    w1 = w1
    w2 = w2
    t1 = t1
    t2 = t2
    Workers <- TwoWorkers
    Tokens <- OneToken
    NoToken = NoToken
    Names = {"arm", "force_disarm", "launch"}
    Allowed = {"arm", "force_disarm", "launch"}
    AllowForceDisarm = TRUE
    MaxAttempts = 2
    AckTimeout = 1
    ArmMaxAge = 0
    Results = {0, 5}
    MaxNoise = 0
SPECIFICATION Spec
SYMMETRY WorkerSymmetry
INVARIANTS TypeOK OneFate AuditedBeforeSent ForceOnlyWithForceAck
CHECK_DEADLOCK FALSE
PROPERTY Supervised
