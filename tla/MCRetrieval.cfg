CONSTANTS
    a = a
    b = b
    c = c
    c1 = c1
    None = None
    Nodes <- ThreeNodes
    Written <- AandB
    Related <- AtoB
    Episodes <- AandB
    Family <- OneFamily
    Age <- AllAtOnce
    EdgeTypes <- NoCitations
    Stages <- Linking
    Clients <- OneClient
    Sweeps <- Nothing
    Batch = 9
    MaxLinks = 0
    MaxWrites = 2
    Textual <- AandB
    Near <- BandC
    Alike <- EveryPair
    Distrusted <- OnlyA
    Limit = 2
    Hops = 2
    OriginDepth = 3
SPECIFICATION SearchSpec
INVARIANTS
    AnswersWereLive
    EveryEntryHasItsPlace
    RevokedOnlyThroughLinks
PROPERTY AuthoredIsKept
CHECK_DEADLOCK FALSE
