CONSTANTS
    c1 = c1
    c2 = c2
    main = main
    topic = topic
    p = p
    q = q
    None = None
    Clients <- TwoClients
    Branches <- TwoBranches
    Paths <- TwoPaths
    Contents <- FourContents
    BadContents <- TheFourth
    RefusedTexts <- TheThird
    Default = main
    Checkouts <- SomeCheckouts
    ParseBatch = 1
    EmbedBatch = 1
    Window = 3
    MaxCommits = 2
    MaxStops = 1
    MaxOutages = 1
    MaxGaps = 1
    MaxReads = 2
SPECIFICATION FairSpec
INVARIANTS
    LiveIsParsed
    LiveIsOneCommit
    HistoryUnlessOverlapped
    DirectoryIsFresh
PROPERTIES
    LiveIsEmbedded
CHECK_DEADLOCK FALSE
