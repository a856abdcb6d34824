CONSTANTS
    x = x
    y = y
    p1 = p1
    p2 = p2
    Single = single
    Device <- Switches
    Port <- TwoPorts
    Networks <- AllNetworks
    Installed <- AllNetworks
    Stored <- KnowsY
    Targets <- OnlyY
    StableModes <- EitherMode
    MaxChanges = 1
    MaxSingles = 1
SPECIFICATION Spec
INVARIANT UniqueRows
INVARIANT SecondRunExact
PROPERTY StableKeepsLinks
