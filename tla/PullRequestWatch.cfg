CONSTANTS
    MaxPushes = 1
    MaxErrors = 3
    Plans <- MCPlans
SPECIFICATION FairSpec
INVARIANTS
    RequestedChangesWereShown
    TimeoutIsKept
PROPERTIES
    SuccessIsEarned
    WatchEnds
CHECK_DEADLOCK FALSE
