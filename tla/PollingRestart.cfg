\* One fix, a restart, one more fix.
SPECIFICATION Spec
CONSTANTS
    MaxStarts = 1
    MaxFixes = 1
    InboxLen = 1
    MaxErrors = 0
    MaxRestarts = 1
INVARIANT FreshIds
CHECK_DEADLOCK FALSE
