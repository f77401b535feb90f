SPECIFICATION FairSpec
CONSTANTS
    MaxJobs = 1
    l1 = l1
    l2 = l2
    o1 = o1
    k1 = k1
    k2 = k2
    Kinds <- OneKind
    Loops <- TwoLoops
    Onces <- OneOnce
    None = None
    MaxAttempts = 2
    MaxTroubles = 1
    MaxDeaths = 1
PROPERTIES
    SettlesOrOrphaned
    KeepsLedger
CHECK_DEADLOCK FALSE
