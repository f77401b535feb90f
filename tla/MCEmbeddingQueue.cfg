CONSTANTS
    w1 = w1
    s1 = s1
    s2 = s2
    None = None
    Gone = Gone
    First = s1
    Workers <- OneWorker
    Spaces <- TwoSpaces
    Pieces <- TwoPieces
    Poison <- LastIsPoison
    MaxNodes = 1
    Batch = 1
    MaxAttempts = 2
    MaxRevs = 3
    MaxOutages = 2
    MaxStops = 1
    MayBuild = TRUE
SPECIFICATION FairSpec
INVARIANT QueueMirrorsWork
PROPERTIES EmbeddedOrParked ActivatedIsCovered
