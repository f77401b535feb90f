CONSTANTS
    s1 = s1
    s2 = s2
    c1 = c1
    c2 = c2
    p1 = p1
    p2 = p2
    Searches <- TwoSearches
    ControlReads <- TwoControl
    Parses <- TwoParses
    Endless <- OneIsEndless
    Size = 2
    ControlSlots = 1
    MaxDeaths = 2
SPECIFICATION PoolsFairSpec
INVARIANTS
    NobodyWaitsInVain
PROPERTIES
    FailsWithItsThread
    EveryCallEnds
CHECK_DEADLOCK FALSE
