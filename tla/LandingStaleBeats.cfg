\* The heartbeat gate judges a heartbeat by the time it is read, not by the time it came.
SPECIFICATION Spec
CONSTANTS
    Tolerance = 1
    MaxEmpties = 2
    MaxAge = 1
    MaxGap = 1
    MaxTargets = 2
    MaxTracks = 1
    MaxBeats = 2
PROPERTY NoSendOnSilence
CHECK_DEADLOCK FALSE
