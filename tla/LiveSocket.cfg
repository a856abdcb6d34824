CONSTANTS
    s1 = s1
    s2 = s2
    s3 = s3
    s4 = s4
    t1 = t1
    t2 = t2
    Nothing = Nothing
    Sock <- FourSockets
    Topic <- TwoTopics
    MaxUpsets = 3
SPECIFICATION FairHookSpec
INVARIANT OneSocket
PROPERTY EventuallyLive
CHECK_DEADLOCK FALSE
