CONSTANTS
    t1 = t1
    c1 = c1
    c2 = c2
    f1 = f1
    f2 = f2
    None = None
    Tokens <- OneToken
    Conns <- TwoConns
    Frames <- TwoFrames
    Principal <- Owner
    Off <- NoAdmin
    Calls <- CallCeilings
    Writes <- WriteCeilings
    Window = 2
    ReportWindow = 1
    Recheck = 1
    MaxTime = 2
    MaxFailures = 1
    MaxFrames = 3
SPECIFICATION FairSpec
INVARIANTS
    QuotaHolds
    RefusedForCause
PROPERTIES
    RevocationReaches
    EveryFrameEnds
CHECK_DEADLOCK FALSE
