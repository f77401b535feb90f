SPECIFICATION Spec
CONSTANTS
    MaxJobs = 2
    l1 = l1
    l2 = l2
    o1 = o1
    k1 = k1
    k2 = k2
    Kinds <- OneKind
    Loops <- OneLoop
    Onces <- OneOnce
    None = None
    MaxAttempts = 2
    MaxTroubles = 1
    MaxDeaths = 0
INVARIANTS
    OneOpenRecurringJob
    SuccessIsToldOnce
PROPERTIES
    SettledForever
CONSTRAINT FewReports
CHECK_DEADLOCK FALSE
