CONSTANTS
    k1 = k1
    c1 = c1
    Scanner = Scanner
    Key <- OneKey
    Client <- OneClient
    Grace = 1
    Ttl = 1
    Within = 1
    MaxClock = 6
    MaxFlips = 2
    MaxSuppressOps = 1
    MaxRestarts = 1
    MaxDbFailures = 1
    MaxDisturbances = 3
    MaxRequests = 2
SPECIFICATION Spec
INVARIANT AckSurvives
INVARIANT RecurrenceRealerts
INVARIANT CacheCatchesUp
