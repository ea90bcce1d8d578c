SPECIFICATION WatchdogSpec
CONSTANTS
    px4 = px4
    rosmaster = rosmaster
    Proc <- MCProc
    PX4 = px4
    MaxAttempts = 2
INVARIANTS
    KillsOnlyOverdue
CHECK_DEADLOCK FALSE
