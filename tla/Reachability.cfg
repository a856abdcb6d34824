CONSTANTS
    d1 = d1
    w1 = w1
    Device <- OneDevice
    Worker <- OneWorker
    ShardOf <- OneShard
    HystLimit = 3
    MaxMembershipOps = 2
    MaxPollingOps = 2
    MaxPushes = 1
    MaxDbFailures = 1
SPECIFICATION FairSpec
INVARIANT WorkerAgreesWithIMDS
INVARIANT SubscriberAgrees
PROPERTY FlipNeedsStreak
PROPERTY KnownUnlessAdrift
PROPERTY Converges
