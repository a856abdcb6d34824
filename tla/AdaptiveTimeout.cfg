CONSTANTS
    t1 = t1
    t2 = t2
    Collector <- TwoThreads
    Rtt <- FastAndSlow
    Base = 1
    Ceiling = 2
    Factor = 1
    Margin = 0
    BackoffAdd = 1
    DeadStreak = 2
    Retries = 1
    MaxChanges = 1
    MaxFaults = 1
SPECIFICATION FairSessionSpec
INVARIANT FailedOnlyIfMissed
PROPERTY DeadIsSilent
PROPERTY Recovers
PROPERTY FlushCatchesUp
