CONSTANTS
    u1 = u1
    u2 = u2
    Users <- MCUsers
    Timers <- MCTimers
    None = None
    Pieces = 2
    MAX_NUM_OF_RECOVERY_TRIGGERS = 3
    MaxFailures = 1
SPECIFICATION FairSpec
PROPERTY StopOnFailEnds
CHECK_DEADLOCK FALSE
