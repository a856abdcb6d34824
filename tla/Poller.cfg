CONSTANTS
    d1 = d1
    t1 = t1
    t2 = t2
    t3 = t3
    Device <- OneDevice
    Community = {"public"}
    Thread <- ThreeThreads
    MaxRowOps = 2
    MaxPollingOps = 2
    MaxDbFailures = 1
    MaxPanics = 1
SPECIFICATION FairSpec
INVARIANT QuietWhenStopped
INVARIANT NoLeakedWorker
PROPERTY PolledForever
PROPERTY PollingEnds
CHECK_DEADLOCK FALSE
