CONSTANTS
    a = a
    b = b
    p = p
    q = q
    None = None
    Dev <- TwoDevices
    Port <- TwoPorts
    Networks <- ComesAndGoes
    Disturbed <- OnlyB
    MaxEdits = 1
    MaxDisturbances = 1
SPECIFICATION FairSpec
INVARIANT LoopSurvives
INVARIANT EditStands
PROPERTY MapCatchesUp
CHECK_DEADLOCK FALSE
