CONSTANTS
    i1 = i1
    i2 = i2
    m1 = m1
    m2 = m2
    Iface <- TwoIfaces
    Bundle <- TwoIfaces
    Mac <- TwoMacs
    Attr <- LinkOnly
    Limit = 2
    WrapGap = 2
    MaxCounter <- OneCounts
    MaxFlips = 2
    MaxResets = 1
    MaxSwaps = 1
    MaxRowOps = 1
    MaxFailures = 1
    MaxTies = 1
    MaxDisturbances = 2
SPECIFICATION FairSpec
PROPERTY Converges
INVARIANT SubscriberAgrees
PROPERTY CounterDropsConfirmed
PROPERTY LagAnnotationTrue
