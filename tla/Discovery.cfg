CONSTANTS
    d1 = d1
    d2 = d2
    d3 = d3
    r1 = r1
    c1 = c1
    None = None
    Dev <- ThreeDevices
    Request <- OneRequest
    Client <- OneClient
    EnvSeed <- Unconfigured
    Topology <- Ring
    Override <- RootOverrides
    PutConfig <- Configurations
    MaxTriggers = 2
    MaxPuts = 1
    MaxFaults = 1
    MaxCrew = 4
SPECIFICATION FairSpec
INVARIANT CrawledOnce
INVARIANT CrawlComplete
INVARIANT AcceptedNotLost
INVARIANT ConfigSurvivesRestart
PROPERTY CrawlEnds
PROPERTY RequestsServed
