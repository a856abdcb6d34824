CONSTANTS
    x = x
    y = y
    p1 = p1
    p2 = p2
    Single = single
    Device <- Switches
    Port <- TwoPorts
    Networks <- OneNetwork
    Installed <- OneNetwork
    Stored <- KnowsY
    Targets <- OnlyX
    StableModes <- Stable
    MaxChanges = 0
    MaxSingles = 1
SPECIFICATION Spec
PROPERTY SingleKeepsLinks
