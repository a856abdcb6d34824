CONSTANTS
    d1 = d1
    w1 = w1
    Device <- OneDevice
    Worker <- OneWorker
    ShardOf <- OneShard
    HystLimit = 2
    MaxMembershipOps = 1
    MaxPollingOps = 0
    MaxPushes = 0
    MaxDbFailures = 0
SPECIFICATION FairSpec
PROPERTY KnownEventually
