CONSTANTS
    d1 = d1
    d2 = d2
    k1 = k1
    k2 = k2
    o1 = o1
    Device <- TwoDevices
    Worker <- TwoWorkers
    Thread <- WorkersAndOther
    Limits <- NoCapOrOne
    MaxDisturbances = 1
SPECIFICATION FairSpec
INVARIANT NoLostWakeup
PROPERTY AnsweredByFreshPoll
PROPERTY PollNowServed
PROPERTY UnmonitoredLeaves
PROPERTY ImplementsPermits
