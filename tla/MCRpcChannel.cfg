CONSTANTS
    r1 = r1
    r2 = r2
    w1 = w1
    None = None
    Calls <- TwoReadsOneWrite
    Retryable <- TwoReads
    MaxStops = 1
SPECIFICATION FairSpec
INVARIANTS
    WriteRunsOnce
    UnsentNeverRuns
    AnswerIsOwn
PROPERTY EveryCallSettles
CHECK_DEADLOCK FALSE
